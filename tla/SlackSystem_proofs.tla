-------------------------- MODULE SlackSystem_proofs --------------------------
(***************************************************************************)
(* Proofs about the Slack path as a whole.  The inductive invariant SInv   *)
(* says which facts each Lambda leaves for the other to rely on: an item   *)
(* of the engaged-threads table, or of a copy of it that lags behind,      *)
(* stands for an answered message, and a handler that has passed the       *)
(* lookup remembers that.                                                  *)
(***************************************************************************)
EXTENDS SlackSystem, FiniteSetTheorems, TLAPS

Runs(e) == bridgePc[e] # "idle"
Spoken == {"doneSwap", "engage"}
PastLookup == {"classify", "allowlist", "send"}

TypeInv ==
  /\ log \in [Threads -> Seq(Bodies)]
  /\ head \in [Threads -> Nat \ {0}] /\ receives \in [Threads -> Nat]
  /\ answered \in [Threads -> SUBSET Nat]
  /\ bridgePc \in [Environments -> Bridge!PCs]
  /\ job \in [Environments -> Bridge!Jobs]
  /\ handlerPc \in [Handlers -> Verification!PCs]
  /\ body \in [Handlers -> Bodies]

\* The threads a lookup may find an item of, in the table or in the copy that lags behind.
Items == Threads \cap (engaged \cup copy)

\* What the bridge works on is in the log, and what it has answered as well.
BridgeKnows ==
  /\ \A e \in Environments : Runs(e) => job[e].n \in 1 .. Len(log[job[e].thread])
  /\ \A e \in Environments : bridgePc[e] \in Spoken => job[e].n \in answered[job[e].thread]
  /\ \A t \in Threads : answered[t] \subseteq 1 .. Len(log[t])
  /\ \A t \in Items : answered[t] # {}

\* What a handler works on can be queued, a follow-up only behind an answer.
HandlerKnows ==
  /\ \A h \in Handlers : handlerPc[h] # "idle" => Verification!Routable(body[h])
  /\ \A h \in Handlers :
       handlerPc[h] \in PastLookup /\ Verification!NeedsEngagement(body[h])
         => answered[threadOf[body[h]]] # {}

SInv == TypeInv /\ BridgeKnows /\ HandlerKnows /\ FollowupsFollowReplies

-----------------------------------------------------------------------------
(* What each kind of step leaves of the invariant. *)

\* An environment stays where it is, moves on without having spoken, or ends.
Onward(e) ==
  \/ bridgePc'[e] = "idle"
  \/ Runs(e) /\ job'[e] = job[e] /\ (bridgePc'[e] \in Spoken => bridgePc[e] \in Spoken)

\* A step of the bridge that neither takes, answers nor engages anything.
LEMMA BridgeMoves ==
  ASSUME BridgeKnows, UNCHANGED <<log, answered>>, Items' \subseteq Items,
         \A e \in Environments : Onward(e)
  PROVE  BridgeKnows'
  BY DEF BridgeKnows, Onward, Runs, Spoken

LEMMA HandlersRest ==
  ASSUME HandlerKnows, UNCHANGED <<handlerPc, body, answered>>
  PROVE  HandlerKnows'
  BY DEF HandlerKnows, Verification!Routable, Verification!NeedsEngagement,
         Verification!MentionMatches

LEMMA LogRests ==
  ASSUME FollowupsFollowReplies, UNCHANGED <<log, answered>>
  PROVE  FollowupsFollowReplies'
  BY DEF FollowupsFollowReplies

LEMMA NoJobType == Bridge!NoJob \in Bridge!Jobs
  BY SystemAssumption DEF Bridge!NoJob, Bridge!Jobs

\* A step of the bridge that leaves the threads' contents alone.
LEMMA BridgeKeeps ==
  ASSUME SInv, TypeInv', UNCHANGED <<log, answered, handlerPc, body>>, Items' \subseteq Items,
         \A e \in Environments : Onward(e)
  PROVE  SInv'
  BY BridgeMoves, HandlersRest, LogRests DEF SInv

\* One environment goes on, and has not spoken by that.
LEMMA GotoKeeps ==
  ASSUME SInv, NEW e \in Environments, Runs(e), NEW place \in Bridge!PCs,
         place \in Spoken => bridgePc[e] \in Spoken,
         bridgePc' = [bridgePc EXCEPT ![e] = place],
         UNCHANGED <<job, log, head, receives, answered, engaged, handlerPc, body, copy>>
  PROVE  SInv'
<1>1. TypeInv'
    BY DEF SInv, TypeInv
<1>2. \A f \in Environments : Onward(f)
    BY DEF Onward, Runs, SInv, TypeInv
<1> QED
    BY <1>1, <1>2, BridgeKeeps DEF Items

\* One environment ends.
LEMMA FinishKeeps ==
  ASSUME SInv, NEW e \in Environments, Bridge!Finish(e),
         head' \in [Threads -> Nat \ {0}], receives' \in [Threads -> Nat],
         UNCHANGED <<log, answered, engaged, handlerPc, body, copy>>
  PROVE  SInv'
<1>1. TypeInv'
    BY NoJobType DEF SInv, TypeInv, Bridge!Finish, Bridge!PCs
<1>2. \A f \in Environments : Onward(f)
    BY DEF Onward, Runs, SInv, TypeInv, Bridge!Finish
<1> QED
    BY <1>1, <1>2, BridgeKeeps DEF Items

\* Nothing that the invariant speaks of changes, or only heads of groups do.
LEMMA HeadMoves ==
  ASSUME SInv, NEW t \in Threads,
         head' = [head EXCEPT ![t] = @ + 1], receives' = [receives EXCEPT ![t] = 0],
         UNCHANGED <<bridgePc, job, log, answered, engaged, handlerPc, body, copy>>
  PROVE  SInv'
<1>1. TypeInv'
    BY DEF SInv, TypeInv
<1>2. \A f \in Environments : Onward(f)
    BY DEF Onward, Runs
<1> QED
    BY <1>1, <1>2, BridgeKeeps DEF Items

LEMMA SInvRests ==
  ASSUME SInv, UNCHANGED <<bridgePc, job, log, head, receives, answered, engaged, handlerPc, body, copy>>
  PROVE  SInv'
<1>1. TypeInv'
    BY DEF SInv, TypeInv
<1>2. \A f \in Environments : Onward(f)
    BY DEF Onward, Runs
<1> QED
    BY <1>1, <1>2, BridgeKeeps DEF Items

\* A call of swapReaction ends.
LEMMA SwapKeeps ==
  ASSUME SInv, NEW e \in Environments, NEW at \in Bridge!PCs \ {"idle"}, NEW final,
         NEW next \in Bridge!PCs, next \in Spoken => at \in Spoken,
         Bridge!SwapReaction(e, at, final, next), UNCHANGED <<handlerPc, body, copy>>
  PROVE  SInv'
<1>1. /\ bridgePc[e] = at /\ bridgePc' \in {bridgePc, [bridgePc EXCEPT ![e] = next]}
      /\ UNCHANGED <<job, log, head, receives, answered, engaged, copy>>
    BY DEF Bridge!SwapReaction, Bridge!queueVars
<1>2. CASE bridgePc' = bridgePc
    BY <1>1, <1>2, SInvRests
<1>3. CASE bridgePc' = [bridgePc EXCEPT ![e] = next]
    BY <1>1, <1>3, GotoKeeps DEF Runs
<1> QED
    BY <1>1, <1>2, <1>3

\* An environment takes the head of a group, which is in its log.
LEMMA StartSInv ==
  ASSUME SInv, NEW e \in Environments, NEW t \in Threads, Bridge!Start(e, t),
         UNCHANGED <<handlerPc, body, copy>>
  PROVE  SInv'
<1> USE DEF SInv
<1>1. /\ ~Runs(e) /\ head[t] <= Len(log[t])
      /\ receives' = [receives EXCEPT ![t] = receives[t] + 1]
      /\ bridgePc' = [bridgePc EXCEPT ![e] = "token"]
      /\ job' = [job EXCEPT ![e] = [thread |-> t, n |-> head[t], receipt |-> receives[t] + 1]]
      /\ UNCHANGED <<log, head, answered, engaged, copy>>
    BY DEF Bridge!Start, Bridge!Running, Runs, Bridge!Receive, Bridge!Receivable,
           Bridge!HasMessage, Bridge!slackVars
<1>2. TypeInv'
    BY <1>1 DEF TypeInv, Bridge!PCs, Bridge!Jobs
<1>3. BridgeKnows'
    <2>1. \A f \in Environments : f # e => bridgePc'[f] = bridgePc[f] /\ job'[f] = job[f]
        BY <1>1 DEF TypeInv
    <2>2. bridgePc'[e] = "token" /\ job'[e].thread = t /\ job'[e].n = head[t]
        BY <1>1 DEF TypeInv
    <2>3. head[t] \in 1 .. Len(log[t])
        BY <1>1 DEF TypeInv
    <2> QED
        BY <1>1, <2>1, <2>2, <2>3 DEF BridgeKnows, Runs, Spoken, Items
<1> QED
    BY <1>1, <1>2, <1>3, HandlersRest, LogRests

\* The reply is out: one more message of the thread is answered.
LEMMA PostReplySInv ==
  ASSUME SInv, NEW e \in Environments, Bridge!PostReply(e), UNCHANGED <<handlerPc, body, copy>>
  PROVE  SInv'
<1> USE DEF SInv
<1> DEFINE t == job[e].thread
<1>1. /\ bridgePc[e] = "post" /\ bridgePc' = [bridgePc EXCEPT ![e] = "doneSwap"]
      /\ answered' = [answered EXCEPT ![t] = @ \cup {job[e].n}]
      /\ UNCHANGED <<job, log, head, receives, engaged, copy>>
    BY DEF Bridge!PostReply, Bridge!Thread, Bridge!queueVars
<1>2. t \in Threads /\ job[e].n \in Nat /\ job[e].n \in 1 .. Len(log[t])
    BY <1>1 DEF TypeInv, BridgeKnows, Runs, Bridge!Jobs
<1>3. \A u \in Threads : answered[u] \subseteq answered'[u]
    BY <1>1, <1>2 DEF TypeInv
<1>4. TypeInv'
    BY <1>1, <1>2 DEF TypeInv, Bridge!PCs
<1>5. BridgeKnows'
    BY <1>1, <1>2, <1>3 DEF TypeInv, BridgeKnows, Runs, Spoken, Items
<1>6. HandlerKnows'
    BY <1>3, SystemAssumption DEF TypeInv, HandlerKnows, Verification!Routable,
       Verification!NeedsEngagement, Verification!MentionMatches
<1>7. FollowupsFollowReplies'
    BY <1>1, <1>3 DEF FollowupsFollowReplies
<1> QED
    BY <1>4, <1>5, <1>6, <1>7

LEMMA InitSInv == Init => SInv
<1> SUFFICES ASSUME Init PROVE SInv
    OBVIOUS
<1> USE SystemAssumption
<1>1. TypeInv
    <2>1. log \in [Threads -> Seq(Bodies)] /\ answered \in [Threads -> SUBSET Nat]
        BY DEF Init, Bridge!Init, Bridge!QueueInit
    <2>2. head \in [Threads -> Nat \ {0}] /\ receives \in [Threads -> Nat]
        BY DEF Init, Bridge!Init, Bridge!QueueInit
    <2>3. bridgePc \in [Environments -> Bridge!PCs] /\ job \in [Environments -> Bridge!Jobs]
        BY NoJobType DEF Init, Bridge!Init, Bridge!PCs
    <2>4. /\ handlerPc \in [Handlers -> Verification!PCs] /\ body \in [Handlers -> Bodies]
        BY DEF Init, Verification!Init, Verification!PCs
    <2> QED
        BY <2>1, <2>2, <2>3, <2>4 DEF TypeInv
<1>2. BridgeKnows
    BY DEF BridgeKnows, Items, Runs, Spoken, Init, Bridge!Init, Bridge!QueueInit,
           Verification!Init
<1>3. HandlerKnows
    BY DEF HandlerKnows, PastLookup, Init, Verification!Init
<1>4. FollowupsFollowReplies
    BY DEF FollowupsFollowReplies, Init, Bridge!Init, Bridge!QueueInit
<1> QED
    BY <1>1, <1>2, <1>3, <1>4 DEF SInv

-----------------------------------------------------------------------------
(* The bridge. *)

LEMMA BridgeSInv == SInv /\ BridgeStep => SInv'
<1> SUFFICES ASSUME SInv, BridgeStep PROVE SInv'
    OBVIOUS
<1> UNCHANGED <<handlerPc, body, copy>>
    BY DEF BridgeStep, handlerVars
<1>t. TypeInv
    BY DEF SInv
<1>1. ASSUME NEW t \in Threads, Bridge!Expire(t) PROVE SInv'
    BY <1>1, SInvRests DEF Bridge!Expire, Bridge!BecomeVisible, Bridge!lambdaVars, Bridge!slackVars
<1>2. ASSUME NEW t \in Threads, Bridge!DeadLetter(t) PROVE SInv'
    BY <1>2, HeadMoves DEF Bridge!DeadLetter, Bridge!Redrive, Bridge!LeaveQueue,
       Bridge!lambdaVars, Bridge!slackVars
<1>3. ASSUME NEW e \in Environments, NEW t \in Threads, Bridge!Start(e, t) PROVE SInv'
    BY <1>3, StartSInv
<1>4. CASE Bridge!Tick
    BY <1>4, SInvRests DEF Bridge!Tick, Bridge!slackVars
<1>5. ASSUME NEW e \in Environments, Bridge!Crash(e) PROVE SInv'
    BY <1>5, <1>t, FinishKeeps DEF Bridge!Crash, Bridge!queueVars, Bridge!slackVars, TypeInv
<1>6. ASSUME NEW e \in Environments, bridgePc[e] # "engage", Bridge!Handler(e) PROVE SInv'
    <2> USE <1>t DEF Bridge!queueVars, Bridge!slackVars, Runs, Spoken, Bridge!PCs
    <2>1. CASE Bridge!BeginRecord(e)
        BY <2>1, GotoKeeps DEF Bridge!BeginRecord, Bridge!Goto
    <2>2. CASE Bridge!GetBotTokenFails(e)
        BY <2>2, FinishKeeps DEF Bridge!GetBotTokenFails, TypeInv
    <2>3. CASE Bridge!AddThinking(e)
        BY <2>3, GotoKeeps DEF Bridge!AddThinking, Bridge!Goto
    <2>4. CASE Bridge!InvokeRuntime(e)
        BY <2>4, GotoKeeps DEF Bridge!InvokeRuntime, Bridge!Goto
    <2>5. CASE Bridge!RuntimeAnswers(e)
        BY <2>5, GotoKeeps DEF Bridge!RuntimeAnswers, Bridge!Goto
    <2>6. CASE Bridge!RuntimeFails(e)
        BY <2>6, GotoKeeps DEF Bridge!RuntimeFails
    <2>7. CASE Bridge!SwapToError(e)
        BY <2>7, SwapKeeps DEF Bridge!SwapToError
    <2>8. CASE Bridge!SwapToDone(e)
        BY <2>8, SwapKeeps DEF Bridge!SwapToDone
    <2>9. CASE Bridge!PostError(e)
        BY <2>9, FinishKeeps DEF Bridge!PostError, TypeInv
    <2>10. CASE Bridge!PostReply(e)
        BY <2>10, PostReplySInv
    <2>11. CASE Bridge!PostReplyThrows(e)
        BY <2>11, FinishKeeps DEF Bridge!PostReplyThrows, TypeInv
    <2>12. CASE Bridge!Acknowledge(e)
        <3>1. /\ head' = [head EXCEPT ![job[e].thread] = @ + 1]
              /\ receives' = [receives EXCEPT ![job[e].thread] = 0]
              /\ UNCHANGED <<log, answered, engaged, copy>> /\ Bridge!Finish(e)
            BY <2>12 DEF Bridge!Acknowledge, Bridge!Delete, Bridge!LeaveQueue, Bridge!Thread
        <3>2. job[e].thread \in Threads
            BY DEF TypeInv, Bridge!Jobs
        <3>3. head' \in [Threads -> Nat \ {0}] /\ receives' \in [Threads -> Nat]
            BY <3>1, <3>2 DEF TypeInv
        <3> QED
            BY <3>1, <3>3, FinishKeeps
    <2>13. CASE Bridge!AcknowledgeLost(e)
        BY <2>13, FinishKeeps DEF Bridge!AcknowledgeLost, TypeInv
    <2>14. ~Bridge!RecordEngagement(e)
        BY <1>6 DEF Bridge!RecordEngagement
    <2> QED
        BY <1>6, <2>1, <2>2, <2>3, <2>4, <2>5, <2>6, <2>7, <2>8, <2>9, <2>10, <2>11, <2>12,
           <2>13, <2>14 DEF Bridge!Handler
<1> QED
    BY <1>1, <1>2, <1>3, <1>4, <1>5, <1>6 DEF BridgeStep

LEMMA EngageSInv == ASSUME SInv, NEW e \in Environments, Engage(e) PROVE SInv'
<1> USE DEF SInv
<1>1. /\ UNCHANGED <<log, head, receives, answered, handlerPc, body, copy, job>>
      /\ bridgePc[e] = "engage" /\ bridgePc' = [bridgePc EXCEPT ![e] = "returned"]
      /\ engaged' \subseteq engaged \cup {job[e].thread}
    BY DEF Engage, handlerVars, Bridge!RecordEngagement, Bridge!Goto, Bridge!Thread, Bridge!queueVars
<1>2. job[e].thread \in Threads /\ answered[job[e].thread] # {}
    BY <1>1 DEF TypeInv, BridgeKnows, Spoken, Bridge!Jobs
<1>3. TypeInv'
    BY <1>1, <1>2 DEF TypeInv, Bridge!PCs
<1>4. BridgeKnows'
    BY <1>1, <1>2 DEF BridgeKnows, TypeInv, Runs, Spoken, Items
<1> QED
    BY <1>1, <1>3, <1>4, HandlersRest, LogRests

-----------------------------------------------------------------------------
(* The verification Lambda, and the writers of its tables. *)

\* No message enters, and the handlers know what they pass on.
LEMMA HandlersKeep ==
  ASSUME SInv, UNCHANGED <<bridgePc, job, head, receives, log, answered>>, Items' \subseteq Items,
         handlerPc' \in [Handlers -> Verification!PCs], body' \in [Handlers -> Bodies],
         HandlerKnows'
  PROVE  SInv'
<1>1. TypeInv'
    BY DEF SInv, TypeInv
<1>2. BridgeKnows'
    BY DEF SInv, BridgeKnows, Runs, Spoken
<1> QED
    BY <1>1, <1>2, LogRests DEF SInv

\* A handler ends.
LEMMA HandlerEnds ==
  ASSUME SInv, NEW h \in Handlers, Verification!Finish(h), UNCHANGED <<consumerVars, bridgeVars, log, engaged, copy>>
  PROVE  SInv'
<1>1. /\ handlerPc' = [handlerPc EXCEPT ![h] = "idle"] /\ UNCHANGED <<body, answered, bridgePc, job, head, receives>>
    BY DEF Verification!Finish, consumerVars, bridgeVars
<1>2. /\ handlerPc' \in [Handlers -> Verification!PCs] /\ body' \in [Handlers -> Bodies]
      /\ handlerPc'[h] = "idle" /\ \A g \in Handlers : g # h => handlerPc'[g] = handlerPc[g]
    BY <1>1 DEF SInv, TypeInv, Verification!PCs
<1>3. HandlerKnows'
    BY <1>1, <1>2 DEF SInv, HandlerKnows, PastLookup, Verification!Routable,
       Verification!NeedsEngagement, Verification!MentionMatches
<1> QED
    BY <1>1, <1>2, <1>3, HandlersKeep DEF Items

\* A handler goes on; past the lookup with a follow-up only if its thread was answered in.
LEMMA HandlerAdvances ==
  ASSUME SInv, NEW h \in Handlers, NEW place \in Verification!PCs, handlerPc[h] # "idle",
         Verification!Advance(h, place),
         Verification!NeedsEngagement(body[h]) => answered[threadOf[body[h]]] # {},
         UNCHANGED <<consumerVars, bridgeVars>>
  PROVE  SInv'
<1>1. /\ handlerPc' = [handlerPc EXCEPT ![h] = place]
      /\ UNCHANGED <<body, answered, bridgePc, job, head, receives, log, engaged, copy>>
    BY DEF Verification!Advance, Verification!queueVars, Verification!tableVars, consumerVars, bridgeVars
<1>2. /\ handlerPc' \in [Handlers -> Verification!PCs] /\ body' \in [Handlers -> Bodies]
      /\ \A g \in Handlers : g # h => handlerPc'[g] = handlerPc[g]
    BY <1>1 DEF SInv, TypeInv, Verification!PCs
<1>3. HandlerKnows'
    BY <1>1, <1>2 DEF SInv, HandlerKnows, PastLookup, Verification!Routable,
       Verification!NeedsEngagement, Verification!MentionMatches
<1> QED
    BY <1>1, <1>2, <1>3, HandlersKeep DEF Items

\* A message enters the queue: a mention, or a follow-up behind an answer.
LEMMA EnqueueSInv ==
  ASSUME SInv, NEW h \in Handlers, handlerPc[h] = "send", Verification!Enqueue(body[h]),
         Verification!Finish(h), UNCHANGED <<consumerVars, bridgeVars, engaged, copy>>
  PROVE  SInv'
<1> USE DEF SInv
<1> DEFINE b == body[h]
           t == threadOf[b]
<1>1. /\ log' = [log EXCEPT ![t] = Append(@, b)]
      /\ handlerPc' = [handlerPc EXCEPT ![h] = "idle"]
      /\ UNCHANGED <<body, answered, bridgePc, job, head, receives, engaged, copy>>
    BY DEF Verification!Enqueue, Verification!Finish, consumerVars, bridgeVars
<1>2. b \in Bodies /\ t \in Threads /\ log[t] \in Seq(Bodies)
    BY SystemAssumption DEF TypeInv
<1>3. /\ \A u \in Threads : u # t => log'[u] = log[u]
      /\ log'[t] = Append(log[t], b)
    BY <1>1, <1>2 DEF TypeInv
<1>4. /\ Len(log'[t]) = Len(log[t]) + 1 /\ log'[t] \in Seq(Bodies)
      /\ Len(log[t]) \in Nat /\ log'[t][Len(log[t]) + 1] = b
      /\ \A i \in 1 .. Len(log[t]) : log'[t][i] = log[t][i]
    BY <1>2, <1>3
<1>5. TypeInv'
    BY <1>1, <1>2, <1>3, <1>4 DEF TypeInv, Verification!PCs
<1>6. \A u \in Threads : Len(log[u]) \in Nat /\ 1 .. Len(log[u]) \subseteq 1 .. Len(log'[u])
    <2> TAKE u \in Threads
    <2>1. Len(log[u]) \in Nat
        BY DEF TypeInv
    <2> QED
        BY <1>3, <1>4, <2>1
<1>7. BridgeKnows'
    <2>1. \A e \in Environments : job[e].thread \in Threads
        BY DEF TypeInv, Bridge!Jobs
    <2> QED
        BY <1>1, <1>6, <2>1 DEF BridgeKnows, Runs, Spoken, Items
<1>8. HandlerKnows'
    <2>1. /\ handlerPc'[h] = "idle"
          /\ \A g \in Handlers : g # h => handlerPc'[g] = handlerPc[g]
        BY <1>1 DEF TypeInv
    <2> QED
        BY <1>1, <2>1 DEF HandlerKnows, PastLookup, Verification!Routable,
           Verification!NeedsEngagement, Verification!MentionMatches
<1>9. FollowupsFollowReplies'
    <2> SUFFICES ASSUME NEW u \in Threads, NEW i \in DOMAIN log'[u],
                        event[log'[u][i]].type # "app_mention"
                 PROVE  \E n \in answered'[u] : n < i
        BY DEF FollowupsFollowReplies
    <2>1. CASE u # t \/ i \in 1 .. Len(log[t])
        <3>1. i \in DOMAIN log[u] /\ log'[u][i] = log[u][i]
            BY <1>2, <1>3, <1>4, <2>1
        <3> QED
            BY <1>1, <3>1 DEF FollowupsFollowReplies
    <2>2. CASE u = t /\ i = Len(log[t]) + 1
        <3>1. Verification!NeedsEngagement(b)
            BY <1>4, <2>2 DEF HandlerKnows, Verification!Routable
        <3>2. answered[t] # {}
            BY <3>1 DEF HandlerKnows, PastLookup
        <3>3. answered[t] \subseteq 1 .. Len(log[t])
            BY <1>2 DEF BridgeKnows
        <3> QED
            BY <1>1, <1>4, <2>2, <3>2, <3>3
    <2>3. i \in 1 .. Len(log[t]) + 1 \/ u # t
        BY <1>4
    <2> QED
        BY <1>4, <2>1, <2>2, <2>3
<1> QED
    BY <1>5, <1>7, <1>8, <1>9

\* A new invocation begins with an event that can be queued.
LEMMA DeliverSInv ==
  ASSUME SInv, NEW h \in Handlers, NEW b \in Bodies, Verification!Deliver(h, b),
         UNCHANGED <<consumerVars, bridgeVars>>
  PROVE  SInv'
<1> USE DEF SInv
<1> DEFINE place == Verification!FirstStop(b)
<1>1. /\ handlerPc' = [handlerPc EXCEPT ![h] = place]
      /\ body' = [body EXCEPT ![h] = b]
      /\ UNCHANGED <<answered, bridgePc, job, head, receives, log, engaged, copy>>
    BY DEF Verification!Deliver, Verification!queueVars, Verification!tableVars, consumerVars, bridgeVars
<1>2. /\ place \in Verification!PCs
      /\ place # "idle" => Verification!Routable(b)
      /\ place \in PastLookup => ~Verification!NeedsEngagement(b)
    BY DEF Verification!FirstStop, Verification!Gate, Verification!PCs, Verification!Routable,
           PastLookup, Verification!NeedsEngagement
<1>3. /\ handlerPc' \in [Handlers -> Verification!PCs] /\ body' \in [Handlers -> Bodies]
      /\ handlerPc'[h] = place /\ body'[h] = b
      /\ \A g \in Handlers : g # h => handlerPc'[g] = handlerPc[g] /\ body'[g] = body[g]
    BY <1>1, <1>2 DEF TypeInv
<1>4. HandlerKnows'
    BY <1>1, <1>2, <1>3 DEF HandlerKnows, Verification!Routable,
       Verification!NeedsEngagement, Verification!MentionMatches
<1> QED
    BY <1>1, <1>3, <1>4, HandlersKeep DEF Items

LEMMA VerificationSInv == SInv /\ VerificationStep => SInv'
<1> SUFFICES ASSUME SInv, VerificationStep PROVE SInv'
    OBVIOUS
<1>0. UNCHANGED <<consumerVars, bridgeVars>>
    BY DEF VerificationStep
<1>f. ASSUME NEW h \in Handlers, Verification!Drop(h) PROVE SInv'
    BY <1>0, <1>f, HandlerEnds DEF Verification!Drop, Verification!queueVars, Verification!tableVars
<1>1. ASSUME NEW h \in Handlers, Verification!Handler(h) PROVE SInv'
    <2>1. ASSUME NEW b \in Bodies, Verification!Deliver(h, b) PROVE SInv'
        BY <1>0, <2>1, DeliverSInv
    <2>2. CASE Verification!GetEngagement(h)
        <3>1. CASE Verification!Found(threadOf[body[h]]) /\ Verification!Advance(h, "classify")
            <4>1. threadOf[body[h]] \in Items /\ handlerPc[h] = "engagement"
                BY <2>2, <3>1, SystemAssumption
                DEF Verification!GetEngagement, Verification!Found, Verification!Present, Items, SInv, TypeInv
            <4>2. answered[threadOf[body[h]]] # {}
                BY <4>1 DEF SInv, BridgeKnows
            <4> QED
                BY <1>0, <3>1, <4>1, <4>2, HandlerAdvances DEF Verification!PCs
        <3> QED
            BY <2>2, <3>1, <1>f DEF Verification!GetEngagement
    <2>3. CASE Verification!Classify(h)
        <3>1. CASE Verification!Advance(h, Verification!Gate(body[h]))
            <4>1. handlerPc[h] = "classify" /\ Verification!Gate(body[h]) \in Verification!PCs
                BY <2>3 DEF Verification!Classify, Verification!Gate, Verification!PCs
            <4> QED
                BY <1>0, <3>1, <4>1, HandlerAdvances DEF SInv, HandlerKnows, PastLookup
        <3> QED
            BY <2>3, <3>1, <1>f DEF Verification!Classify
    <2>4. CASE Verification!ReadAllowlist(h)
        <3>1. ASSUME NEW place \in {"send", "allowlist"}, Verification!Advance(h, place) PROVE SInv'
            <4>1. handlerPc[h] = "allowlist" /\ place \in Verification!PCs
                BY <2>4 DEF Verification!ReadAllowlist, Verification!PCs
            <4> QED
                BY <1>0, <3>1, <4>1, HandlerAdvances DEF SInv, HandlerKnows, PastLookup
        <3>2. Verification!Drop(h) \/ \E place \in {"send", "allowlist"} : Verification!Advance(h, place)
            BY <2>4 DEF Verification!ReadAllowlist
        <3> QED
            BY <3>1, <3>2, <1>f
    <2>5. CASE Verification!SendMessage(h)
        <3>1. /\ handlerPc[h] = "send" /\ Verification!Finish(h) /\ UNCHANGED <<engaged, copy>>
              /\ Verification!Enqueue(body[h]) \/ UNCHANGED log
            BY <2>5 DEF Verification!SendMessage, Verification!tableVars, Verification!queueVars
        <3> QED
            BY <1>0, <3>1, EnqueueSInv, HandlerEnds
    <2>6. CASE Verification!Fail(h)
        BY <1>0, <2>6, HandlerEnds DEF Verification!Fail, Verification!queueVars, Verification!tableVars
    <2> QED
        BY <1>1, <2>1, <2>2, <2>3, <2>4, <2>5, <2>6 DEF Verification!Handler
<1>2. ASSUME UNCHANGED <<handlerPc, body, log>>, Items' \subseteq Items PROVE SInv'
    <2>1. UNCHANGED <<answered, bridgePc, job, head, receives>>
        BY <1>0 DEF consumerVars, bridgeVars
    <2>2. handlerPc' \in [Handlers -> Verification!PCs] /\ body' \in [Handlers -> Bodies]
        BY <1>2 DEF SInv, TypeInv
    <2> QED
        BY <1>2, <2>1, <2>2, HandlersKeep, HandlersRest DEF SInv
<1>3. ASSUME NEW x \in Managed, Verification!Allow(x) \/ Verification!Disallow(x) PROVE SInv'
    BY <1>2, <1>3 DEF Items, Verification!Allow, Verification!Disallow, Verification!queueVars,
       Verification!handlerVars
<1>4. ASSUME NEW x \in Verification!Entities \cup Threads, Verification!CatchUp(x) PROVE SInv'
    <2>1. Items' \subseteq Items
        BY <1>4 DEF Items, Verification!CatchUp, Verification!Present
    <2> QED
        BY <1>2, <1>4, <2>1 DEF Verification!CatchUp, Verification!queueVars, Verification!handlerVars
<1>5. ASSUME NEW t \in Threads, Verification!ItemExpires(t) \/ Verification!TtlDelete(t) PROVE SInv'
    BY <1>2, <1>5 DEF Items, Verification!ItemExpires, Verification!TtlDelete, Verification!queueVars,
       Verification!handlerVars
<1>6. ASSUME NEW b \in Forgettable, Verification!Forget(b) PROVE SInv'
    BY <1>2, <1>6 DEF Items, Verification!Forget, Verification!ForgetDuplicate, Verification!handlerVars,
       Verification!tableVars
<1> QED
    BY <1>1, <1>3, <1>4, <1>5, <1>6 DEF VerificationStep

LEMMA NextSInv == SInv /\ [Next]_vars => SInv'
<1> SUFFICES ASSUME SInv, [Next]_vars PROVE SInv'
    OBVIOUS
<1>1. CASE UNCHANGED vars
    BY <1>1, SInvRests DEF vars, consumerVars, bridgeVars, handlerVars
<1> QED
    BY <1>1, BridgeSInv, EngageSInv, VerificationSInv DEF Next

LEMMA Invariance == Spec => []SInv
<1> QED
    BY InitSInv, NextSInv, PTL DEF Spec

(***************************************************************************)
(* A follow-up reaches the queue only behind a message of its thread for   *)
(* which the post of the reply returned, even if Slack refused it          *)
(* (routing.ts, bridge index.ts:164-170), for any number of handlers,      *)
(* environments, deliveries and receives.                                  *)
(***************************************************************************)
THEOREM FollowupsAreInvited == Spec => []FollowupsFollowReplies
<1>1. SInv => FollowupsFollowReplies
    BY DEF SInv
<1> QED
    BY <1>1, Invariance, PTL

-----------------------------------------------------------------------------
(* Refinement: every step of the whole is a step of each part, or none. *)

LEMMA BridgeSteps == SInv /\ [Next]_vars => [Bridge!Next]_(Bridge!vars)
<1> SUFFICES ASSUME SInv, [Next]_vars PROVE Bridge!Next \/ UNCHANGED Bridge!vars
    OBVIOUS
<1> USE DEF Bridge!vars, Bridge!queueVars, Bridge!lambdaVars, Bridge!slackVars
<1>1. CASE UNCHANGED vars
    BY <1>1 DEF vars, consumerVars, bridgeVars
<1>2. CASE BridgeStep
    BY <1>2 DEF BridgeStep, Bridge!Next
<1>3. ASSUME NEW e \in Environments, Engage(e) PROVE Bridge!Next
    BY <1>3 DEF Engage, Bridge!Next, Bridge!Handler
<1>4. CASE VerificationStep
    <2>0. UNCHANGED <<head, receives, age, dlq, bridgePc, job, elapsed, swaps, cachedBotToken,
                      reactions, posts, answered, invoked>>
        BY <1>4 DEF VerificationStep, consumerVars, bridgeVars
    <2> USE DEF Verification!queueVars, Verification!tableVars, Verification!handlerVars
    <2>1. ASSUME NEW h \in Handlers, Verification!Drop(h) PROVE UNCHANGED Bridge!vars
        BY <2>0, <2>1 DEF Verification!Drop
    <2>2. ASSUME NEW h \in Handlers, NEW place, Verification!Advance(h, place)
          PROVE  UNCHANGED Bridge!vars
        BY <2>0, <2>2 DEF Verification!Advance
    <2>3. ASSUME NEW h \in Handlers, Verification!Handler(h) PROVE Bridge!Next \/ UNCHANGED Bridge!vars
        <3>1. ASSUME NEW b \in Bodies, Verification!Deliver(h, b) PROVE UNCHANGED Bridge!vars
            BY <2>0, <3>1 DEF Verification!Deliver
        <3>2. CASE Verification!GetEngagement(h) \/ Verification!Classify(h) \/ Verification!ReadAllowlist(h)
            BY <3>2, <2>1, <2>2 DEF Verification!GetEngagement, Verification!Classify,
               Verification!ReadAllowlist
        <3>3. CASE Verification!SendMessage(h)
            <4>1. body[h] \in Bodies
                BY DEF SInv, TypeInv
            <4>2. CASE Verification!Enqueue(body[h])
                BY <2>0, <3>3, <4>1, <4>2 DEF Verification!SendMessage, Verification!Enqueue, Bridge!Next,
                   Bridge!Send, Bridge!Enqueue
            <4> QED
                BY <2>0, <3>3, <4>2 DEF Verification!SendMessage
        <3>4. CASE Verification!Fail(h)
            BY <2>0, <3>4 DEF Verification!Fail
        <3> QED
            BY <2>3, <3>1, <3>2, <3>3, <3>4 DEF Verification!Handler
    <2>4. ASSUME NEW x, Verification!Allow(x) \/ Verification!Disallow(x) \/ Verification!CatchUp(x)
          PROVE  UNCHANGED Bridge!vars
        BY <2>0, <2>4 DEF Verification!Allow, Verification!Disallow, Verification!CatchUp
    <2>5. ASSUME NEW t \in Threads, Verification!ItemExpires(t) \/ Verification!TtlDelete(t)
          PROVE  Bridge!Next \/ UNCHANGED Bridge!vars
        BY <2>0, <2>5 DEF Verification!ItemExpires, Verification!TtlDelete, Bridge!Next,
           Bridge!EngagementExpires
    <2>6. ASSUME NEW b \in Forgettable, Verification!Forget(b) PROVE Bridge!Next
        BY <2>0, <2>6, SystemAssumption DEF Verification!Forget, Verification!ForgetDuplicate, Bridge!Next, Bridge!Forget,
           Bridge!ForgetDuplicate
    <2> QED
        BY <1>4, <2>3, <2>4, <2>5, <2>6 DEF VerificationStep
<1> QED
    BY <1>1, <1>2, <1>3, <1>4 DEF Next

(***************************************************************************)
(* The bridge with the real sender in front of it and the real readers of  *)
(* its table behaves as SlackBridge says (bridge index.ts:70-198).         *)
(***************************************************************************)
THEOREM BridgeIsImplemented == Spec => ImplementsBridge
<1>1. Init => Bridge!Init
    BY DEF Init
<1> QED
    BY <1>1, BridgeSteps, Invariance, PTL DEF Spec, ImplementsBridge, Bridge!Spec

LEMMA BridgeLeaves == BridgeStep => UNCHANGED <<log, recent, engaged>>
<1> USE DEF Bridge!queueVars, Bridge!slackVars, Bridge!Goto, Bridge!SwapReaction
<1>1. ASSUME NEW t \in Threads, Bridge!Expire(t) \/ Bridge!DeadLetter(t)
      PROVE  UNCHANGED <<log, recent, engaged>>
    BY <1>1 DEF Bridge!Expire, Bridge!BecomeVisible, Bridge!DeadLetter, Bridge!Redrive
<1>2. ASSUME NEW e \in Environments, NEW t \in Threads, Bridge!Start(e, t)
      PROVE  UNCHANGED <<log, recent, engaged>>
    BY <1>2 DEF Bridge!Start, Bridge!Receive
<1>3. ASSUME NEW e \in Environments, bridgePc[e] # "engage", Bridge!Handler(e)
      PROVE  UNCHANGED <<log, recent, engaged>>
    <2>1. CASE Bridge!BeginRecord(e) \/ Bridge!GetBotTokenFails(e) \/ Bridge!AddThinking(e)
        BY <2>1 DEF Bridge!BeginRecord, Bridge!GetBotTokenFails, Bridge!AddThinking
    <2>2. CASE Bridge!InvokeRuntime(e) \/ Bridge!RuntimeAnswers(e) \/ Bridge!RuntimeFails(e)
        BY <2>2 DEF Bridge!InvokeRuntime, Bridge!RuntimeAnswers, Bridge!RuntimeFails
    <2>3. CASE Bridge!SwapToError(e) \/ Bridge!SwapToDone(e)
        BY <2>3 DEF Bridge!SwapToError, Bridge!SwapToDone
    <2>4. CASE Bridge!PostError(e) \/ Bridge!PostReply(e) \/ Bridge!PostReplyThrows(e)
        BY <2>4 DEF Bridge!PostError, Bridge!PostReply, Bridge!PostReplyThrows
    <2>5. CASE Bridge!Acknowledge(e) \/ Bridge!AcknowledgeLost(e)
        BY <2>5 DEF Bridge!Acknowledge, Bridge!Delete, Bridge!AcknowledgeLost
    <2> QED
        BY <1>3, <2>1, <2>2, <2>3, <2>4, <2>5 DEF Bridge!Handler, Bridge!RecordEngagement
<1>4. ASSUME NEW e \in Environments, Bridge!Crash(e) PROVE UNCHANGED <<log, recent, engaged>>
    BY <1>4 DEF Bridge!Crash
<1>5. CASE Bridge!Tick
    BY <1>5 DEF Bridge!Tick
<1> QED
    BY <1>1, <1>2, <1>3, <1>4, <1>5 DEF BridgeStep

\* Expiries belong to items.
StaleInv == stale \subseteq engaged

LEMMA StaleStep == SInv /\ StaleInv /\ [Next]_vars => StaleInv'
<1> SUFFICES ASSUME stale \subseteq engaged, [Next]_vars PROVE stale' \subseteq engaged'
    BY DEF StaleInv
<1>1. CASE UNCHANGED vars
    BY <1>1 DEF vars
<1>2. CASE BridgeStep
    BY <1>2, BridgeLeaves DEF BridgeStep
<1>3. ASSUME NEW e \in Environments, Engage(e) PROVE stale' \subseteq engaged'
    BY <1>3 DEF Engage, Bridge!RecordEngagement
<1>4. CASE VerificationStep
    <2> USE DEF Verification!tableVars
    <2>1. ASSUME NEW h \in Handlers, Verification!Handler(h) PROVE UNCHANGED <<stale, engaged>>
        BY <2>1 DEF Verification!Handler, Verification!Deliver, Verification!GetEngagement,
           Verification!Classify, Verification!ReadAllowlist, Verification!SendMessage,
           Verification!Fail, Verification!Drop, Verification!Advance
    <2>2. ASSUME NEW x, Verification!Allow(x) \/ Verification!Disallow(x) \/ Verification!CatchUp(x)
          PROVE  UNCHANGED <<stale, engaged>>
        BY <2>2 DEF Verification!Allow, Verification!Disallow, Verification!CatchUp
    <2>3. ASSUME NEW t \in Threads, Verification!ItemExpires(t) \/ Verification!TtlDelete(t)
          PROVE  stale' \subseteq engaged'
        BY <2>3 DEF Verification!ItemExpires, Verification!TtlDelete
    <2>4. ASSUME NEW b \in Forgettable, Verification!Forget(b) PROVE UNCHANGED <<stale, engaged>>
        BY <2>4 DEF Verification!Forget
    <2> QED
        BY <1>4, <2>1, <2>2, <2>3, <2>4 DEF VerificationStep
<1> QED
    BY <1>1, <1>2, <1>3, <1>4 DEF Next

LEMMA VerificationSteps ==
  SInv /\ StaleInv /\ [Next]_vars => [Verification!Next]_(Verification!vars)
<1> SUFFICES ASSUME SInv, stale \subseteq engaged, [Next]_vars
             PROVE  Verification!Next \/ UNCHANGED Verification!vars
    BY DEF StaleInv
<1> USE DEF Verification!vars, Verification!queueVars, Verification!handlerVars, Verification!tableVars
<1>1. CASE UNCHANGED vars
    BY <1>1 DEF vars, handlerVars
<1>2. CASE VerificationStep
    <2>1. ASSUME NEW h \in Handlers, Verification!Handler(h) PROVE Verification!Next
        BY <2>1 DEF Verification!Next
    <2>2. ASSUME NEW x \in Managed, Verification!Allow(x) \/ Verification!Disallow(x)
          PROVE  Verification!Next
        BY <2>2 DEF Verification!Next, Verification!Tables
    <2>5. ASSUME NEW x \in Verification!Entities \cup Threads, Verification!CatchUp(x)
          PROVE  Verification!Next
        BY <2>5 DEF Verification!Next, Verification!Tables
    <2>3. ASSUME NEW t \in Threads, Verification!ItemExpires(t) \/ Verification!TtlDelete(t)
          PROVE  Verification!Next
        BY <2>3 DEF Verification!Next, Verification!Tables
    <2>4. ASSUME NEW b \in Forgettable, Verification!Forget(b) PROVE Verification!Next
        BY <2>4, SystemAssumption DEF Verification!Next
    <2> QED
        BY <1>2, <2>1, <2>2, <2>3, <2>4, <2>5 DEF VerificationStep
<1>3. CASE BridgeStep
    <2>0. UNCHANGED <<handlerPc, body, reads, deliveries, acked, allowlist, copy, seen, forgotten, stale>>
        BY <1>3 DEF BridgeStep, handlerVars
    <2>1. UNCHANGED <<log, recent, engaged>>
        BY <1>3, BridgeLeaves
    <2> QED
        BY <2>0, <2>1
<1>4. ASSUME NEW e \in Environments, Engage(e)
      PROVE  Verification!Next \/ UNCHANGED Verification!vars
    <2> DEFINE t == job[e].thread
    <2>1. /\ UNCHANGED <<handlerPc, body, reads, deliveries, acked, allowlist, copy, seen, forgotten, log, recent>>
          /\ bridgePc[e] = "engage"
          /\ engaged' \in {engaged, engaged \cup {t}} /\ stale' \in {stale, stale \ {t}}
        BY <1>4 DEF Engage, handlerVars, Bridge!RecordEngagement, Bridge!Thread, Bridge!queueVars
    <2>2. t \in Threads /\ log[t] # <<>>
        <3>1. t \in Threads /\ job[e].n \in 1 .. Len(log[t])
            BY <2>1 DEF SInv, TypeInv, BridgeKnows, Runs, Bridge!Jobs
        <3> QED
            BY <3>1
    <2>3. CASE engaged' = engaged \cup {t} /\ stale' = stale \ {t}
        BY <2>1, <2>2, <2>3 DEF Verification!Next, Verification!Tables, Verification!RecordEngagement
    <2>4. CASE UNCHANGED <<engaged, stale>>
        BY <2>1, <2>4
    <2>5. t \in engaged \/ stale \ {t} = stale
        OBVIOUS
    <2>6. t \in engaged => engaged \cup {t} = engaged
        OBVIOUS
    <2> QED
        BY <2>1, <2>3, <2>4, <2>5, <2>6
<1> QED
    BY <1>1, <1>2, <1>3, <1>4 DEF Next

(***************************************************************************)
(* The verification Lambda, whose engagements the real bridge writes,      *)
(* behaves as Verification says (verification index.ts:55-128).            *)
(***************************************************************************)
THEOREM VerificationIsImplemented == Spec => ImplementsVerification
<1>1. Init => Verification!Init
    BY DEF Init
<1>2. Init => StaleInv
    BY DEF Init, Verification!Init, StaleInv
<1> QED
    BY <1>1, <1>2, StaleStep, VerificationSteps, Invariance, PTL DEF Spec, ImplementsVerification, Verification!Spec

-----------------------------------------------------------------------------
(* What is proved of each Lambda holds of the whole. *)

LEMMA BridgeConstants ==
  /\ Bridge!ThreadOfAssumption /\ Bridge!QueueConfigAssumption /\ Bridge!ThreadsAssumption
  /\ Bridge!UnprocessableAssumption /\ Bridge!TimeoutAssumption
  BY SystemAssumption, BridgeAssumption DEF Bridge!ThreadOfAssumption, Bridge!ThreadsAssumption

LEMMA VerificationConstants ==
  /\ Verification!ThreadOfAssumption /\ Verification!QueueConfigAssumption
  /\ Verification!EventAssumption /\ Verification!EntityAssumption
  /\ Verification!MaxDeliveriesAssumption /\ Verification!BodiesAssumption
  /\ Verification!BotUserIdAssumption /\ Verification!CopiesAssumption
  BY SystemAssumption, BridgeAssumption, VerificationAssumption
  DEF Verification!ThreadOfAssumption, Verification!BodiesAssumption,
      Verification!QueueConfigAssumption, Bridge!QueueConfigAssumption

LambdasInv == Bridge!BridgeInv /\ Bridge!PostsBounded /\ Verification!VerificationInv

(***************************************************************************)
(* The invariants of both Lambdas hold at once, each with the other in the *)
(* place its own module leaves open (bridge index.ts:70-198, verification  *)
(* index.ts:55-128), and with both tables read at lagging copies           *)
(* (allowlist-check.ts:28, engaged-threads.ts:26).                         *)
(***************************************************************************)
THEOREM LambdasAreSafe == Spec => []LambdasInv
<1> USE DEF Bridge!ThreadOfAssumption, Bridge!QueueConfigAssumption, Bridge!ThreadsAssumption,
            Bridge!UnprocessableAssumption, Bridge!TimeoutAssumption
<1>1. Bridge!Spec => []Bridge!BridgeInv
    BY BridgeConstants, Bridge!BridgeCorrect
<1>2. Bridge!Spec => []Bridge!PostsBounded
    BY BridgeConstants, Bridge!PostsAreBounded
<1>3. Verification!Spec => []Verification!VerificationInv
    BY VerificationConstants, Verification!InvHolds
    DEF Verification!ThreadOfAssumption, Verification!QueueConfigAssumption,
        Verification!EventAssumption, Verification!EntityAssumption,
        Verification!MaxDeliveriesAssumption, Verification!BodiesAssumption,
        Verification!BotUserIdAssumption, Verification!CopiesAssumption
<1> QED
    BY <1>1, <1>2, <1>3, BridgeIsImplemented, VerificationIsImplemented, PTL
    DEF LambdasInv, ImplementsBridge, ImplementsVerification

(***************************************************************************)
(* The whole Slack path is the conversation of ThreadReplies, and releases *)
(* no message somebody still works on (lib/platform-stack.ts: FIFO groups, *)
(* a visibility timeout above the Lambda's).                               *)
(***************************************************************************)
THEOREM SystemConverses ==
  Spec => Bridge!Replies!Safety /\ Bridge!NeverReleasedWhileRunning
<1> USE DEF Bridge!ThreadOfAssumption, Bridge!QueueConfigAssumption, Bridge!ThreadsAssumption,
            Bridge!UnprocessableAssumption, Bridge!TimeoutAssumption
<1>1. Bridge!Spec => Bridge!Replies!Safety
    BY BridgeConstants, Bridge!RepliesAreSafe
<1>2. Bridge!Spec => Bridge!NeverReleasedWhileRunning
    BY BridgeConstants, Bridge!ReleasedOnlyWhenIdle
<1> QED
    BY <1>1, <1>2, BridgeIsImplemented, PTL DEF ImplementsBridge

(***************************************************************************)
(* No admin's mention is lost between Slack's 200 and the bridge's answer  *)
(* or the dead-letter queue, whatever fails on the way.                    *)
(***************************************************************************)
THEOREM MentionsNotLost == Spec => []NoMentionLost
<1>1. LambdasInv => NoMentionLost
    <2> SUFFICES ASSUME LambdasInv, NEW b \in acked, AdminMention(b)
                 PROVE  \E n \in DOMAIN log[threadOf[b]] :
                          /\ log[threadOf[b]][n] = b
                          /\ n < head[threadOf[b]] =>
                               n \in answered[threadOf[b]] \cup dlq[threadOf[b]] \/ b \in Unprocessable
        BY DEF NoMentionLost
    <2> DEFINE t == threadOf[b]
    <2>1. b \in Bodies /\ t \in Threads
        BY SystemAssumption DEF LambdasInv, Verification!VerificationInv, Verification!VerificationTypeOK
    <2>2. PICK n \in DOMAIN log[t] : log[t][n] = b
        BY DEF LambdasInv, Verification!VerificationInv, Verification!AcknowledgedMentionIsQueued,
               AdminMention
    <2>3. log[t] \in Seq(Bodies) /\ head[t] \in Nat
        BY <2>1 DEF LambdasInv, Bridge!BridgeInv, Bridge!BridgeTypeOK, Bridge!QueueTypeOK
    <2>4. n < head[t] => n \in 1 .. head[t] - 1
        BY <2>2, <2>3
    <2>5. n < head[t] => n \in answered[t] \cup dlq[t] \/ b \in Unprocessable
        BY <2>1, <2>2, <2>4 DEF LambdasInv, Bridge!BridgeInv, Bridge!AcknowledgedIsAnswered
    <2> QED
        BY <2>2, <2>5
<1> QED
    BY <1>1, LambdasAreSafe, PTL

(***************************************************************************)
(* Whatever the bot shows is about a person's mention, or follow-up, in a  *)
(* thread that opened with a mention (verification index.ts:53-105).       *)
(***************************************************************************)
THEOREM SpokenTo == Spec => []SpeaksOnlyWhenSpokenTo
<1>1. LambdasInv => SpeaksOnlyWhenSpokenTo
    <2> SUFFICES ASSUME LambdasInv PROVE SpeaksOnlyWhenSpokenTo
        OBVIOUS
    <2>1. log \in [Threads -> Seq(Bodies)]
        BY DEF LambdasInv, Bridge!BridgeInv, Bridge!BridgeTypeOK, Bridge!QueueTypeOK
    <2>2. ASSUME NEW t \in Threads, NEW n \in DOMAIN log[t]
          PROVE  Verification!Routable(log[t][n]) /\ Invited(t)
        <3>1. log[t] # <<>>
            BY <2>1, <2>2
        <3> QED
            BY <3>1 DEF LambdasInv, Verification!VerificationInv, Verification!LogInv,
               Verification!ThreadsOpenWithMention, Invited
    <2>3. \A t \in Threads : \A i \in DOMAIN posts[t] : posts[t][i].n \in DOMAIN log[t]
        BY DEF LambdasInv, Bridge!BridgeInv, Bridge!SpeaksOfReceived
    <2>4. \A b \in Bodies : reactions[b] # {} =>
            threadOf[b] \in Threads /\ \E n \in DOMAIN log[threadOf[b]] : log[threadOf[b]][n] = b
        BY SystemAssumption DEF LambdasInv, Bridge!BridgeInv, Bridge!SpeaksOfReceived, Bridge!ToAnswer
    <2> QED
        BY <2>2, <2>3, <2>4 DEF SpeaksOnlyWhenSpokenTo
<1> QED
    BY <1>1, LambdasAreSafe, PTL

\* What the bot has posted about a post of Slack's, under either of its copies.
About(t, p) == {i \in DOMAIN posts[t] : event[log[t][posts[t][i].n]].post = p}

Remembered(p) == \A b \in forgotten : event[b].post # p

\* The bot speaks about a post at most as often as its one queue message is received
\* (routing.ts:38-41, bridge index.ts:164).
PostsPerSlackPost ==
  \A t \in Threads, p \in Posts :
    Remembered(p) => IsFiniteSet(About(t, p)) /\ Cardinality(About(t, p)) <= MaxReceiveCount

LEMMA SameCardinality == \A S : Bridge!Cardinality(S) = Cardinality(S)
  BY DEF Cardinality, Bridge!Cardinality, IsFiniteSet, Bridge!IsFiniteSet

(***************************************************************************)
(* Who posts once in Slack is answered at most maxReceiveCount times, the  *)
(* app_mention and message copies of the post, Slack's retries, redelivery *)
(* and crashes of both Lambdas included, unless one of Slack's retries     *)
(* outlives the queue's deduplication (routing.ts:38-41).                  *)
(***************************************************************************)
THEOREM AnsweredOnce == Spec => []PostsPerSlackPost
<1>1. LambdasInv => PostsPerSlackPost
    <2> SUFFICES ASSUME LambdasInv, NEW t \in Threads, NEW p \in Posts, Remembered(p)
                 PROVE  IsFiniteSet(About(t, p)) /\ Cardinality(About(t, p)) <= MaxReceiveCount
        BY DEF PostsPerSlackPost
    <2>1. /\ log[t] \in Seq(Bodies) /\ posts[t] \in Seq(Bridge!Postings)
          /\ MaxReceiveCount \in Nat
        BY BridgeConstants DEF LambdasInv, Bridge!BridgeInv, Bridge!BridgeTypeOK, Bridge!QueueTypeOK,
           Bridge!QueueConfigAssumption
    <2>2. IsFiniteSet(DOMAIN posts[t])
        BY <2>1, FS_Interval
    <2>3. ASSUME NEW i \in About(t, p), NEW j \in About(t, p) PROVE posts[t][i].n = posts[t][j].n
        <3> DEFINE m == posts[t][i].n
                   n == posts[t][j].n
        <3>1. m \in DOMAIN log[t] /\ n \in DOMAIN log[t]
            BY <2>3 DEF About, LambdasInv, Bridge!BridgeInv, Bridge!SpeaksOfReceived
        <3>2. event[log[t][m]].post = p /\ event[log[t][n]].post = p
            BY <2>3 DEF About
        <3> HIDE DEF m, n
        <3>3. \A x, y \in DOMAIN log[t] :
                x < y /\ event[log[t][x]].post = event[log[t][y]].post => log[t][x] \in forgotten
            BY DEF LambdasInv, Verification!VerificationInv, Verification!OneMessagePerPost
        <3>4. ~(m < n) /\ ~(n < m)
            BY <3>1, <3>2, <3>3 DEF Remembered
        <3>5. m = n
            BY <2>1, <3>1, <3>4
        <3> QED
            BY <3>5 DEF m, n
    <2>4. CASE About(t, p) = {}
        BY <2>1, <2>4, FS_EmptySet
    <2>5. CASE About(t, p) # {}
        <3>1. PICK i \in About(t, p) : TRUE
            BY <2>5
        <3> DEFINE n == posts[t][i].n
                   S == {j \in DOMAIN posts[t] : posts[t][j].n = n}
        <3>2. About(t, p) \subseteq S
            BY <2>3, <3>1 DEF About
        <3>3. n \in 1 .. Len(log[t])
            BY <2>1, <3>1 DEF About, LambdasInv, Bridge!BridgeInv, Bridge!SpeaksOfReceived
        <3>4. Cardinality(S) <= MaxReceiveCount
            BY <3>3, SameCardinality DEF LambdasInv, Bridge!PostsBounded
        <3> HIDE DEF n
        <3>5. IsFiniteSet(S)
            BY <2>2, FS_Subset
        <3> HIDE DEF S
        <3>6. IsFiniteSet(About(t, p)) /\ Cardinality(About(t, p)) <= Cardinality(S)
            BY <3>2, <3>5, FS_Subset
        <3>7. Cardinality(S) \in Nat /\ Cardinality(About(t, p)) \in Nat
            BY <3>5, <3>6, FS_CardinalityType
        <3> QED
            BY <2>1, <3>4, <3>6, <3>7
    <2> QED
        BY <2>4, <2>5
<1> QED
    BY <1>1, LambdasAreSafe, PTL
=============================================================================
