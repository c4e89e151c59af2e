-------------------------- MODULE SlackBridge_proofs --------------------------
(* Safety of the bridge on its queue, for every value of the constants. *)
EXTENDS SlackBridge, FiniteSetTheorems, TLAPS

LEMMA NoJobType == NoJob \in Jobs
  BY ThreadsAssumption DEF NoJob, Jobs

LEMMA TypeInit == Init => BridgeTypeOK
<1> SUFFICES ASSUME Init PROVE BridgeTypeOK
  OBVIOUS
<1>1. QueueTypeOK
  BY QueueConfigAssumption DEF Init, QueueInit, QueueTypeOK, Visible
<1>2. QED
  BY <1>1, NoJobType, TimeoutAssumption DEF Init, BridgeTypeOK, PCs

(* The queue's state changes in four ways only. *)
LEMMA QueueTypeStep ==
  ASSUME QueueTypeOK,
         \/ \E b \in Bodies : Enqueue(b) \/ ForgetDuplicate(b)
         \/ \E t \in Threads : Receive(t) \/ Redrive(t) \/ BecomeVisible(t)
         \/ \E t \in Threads, n \in Nat, r \in Nat : Delete(t, n, r)
         \/ AgeInFlight /\ UNCHANGED <<log, head, receives, dlq, recent>>
         \/ UNCHANGED queueVars
  PROVE  QueueTypeOK'
<1>1. ASSUME NEW b \in Bodies, Enqueue(b) PROVE QueueTypeOK'
  BY <1>1, ThreadOfAssumption DEF Enqueue, QueueTypeOK
<1>2. ASSUME NEW b \in Bodies, ForgetDuplicate(b) PROVE QueueTypeOK'
  BY <1>2 DEF ForgetDuplicate, QueueTypeOK
<1>3. ASSUME NEW t \in Threads, Receive(t) PROVE QueueTypeOK'
  BY <1>3, QueueConfigAssumption DEF Receive, QueueTypeOK, Visible
<1>4. ASSUME NEW t \in Threads, Redrive(t) PROVE QueueTypeOK'
  BY <1>4, QueueConfigAssumption DEF Redrive, LeaveQueue, QueueTypeOK
<1>5. ASSUME NEW t \in Threads, BecomeVisible(t) PROVE QueueTypeOK'
  BY <1>5, QueueConfigAssumption DEF BecomeVisible, QueueTypeOK, Visible
<1>6. ASSUME NEW t \in Threads, NEW n \in Nat, NEW r \in Nat, Delete(t, n, r)
      PROVE  QueueTypeOK'
  BY <1>6, QueueConfigAssumption DEF Delete, LeaveQueue, QueueTypeOK, Visible
<1>7. ASSUME AgeInFlight, UNCHANGED <<log, head, receives, dlq, recent>>
      PROVE  QueueTypeOK'
  BY <1>7, QueueConfigAssumption DEF AgeInFlight, QueueTypeOK, Visible
<1>8. ASSUME UNCHANGED queueVars PROVE QueueTypeOK'
  BY <1>8 DEF queueVars, QueueTypeOK
<1>9. QED
  BY <1>1, <1>2, <1>3, <1>4, <1>5, <1>6, <1>7, <1>8

(* The queue part of every step of the composed system. *)
LEMMA QueueTypeNext == BridgeTypeOK /\ [Next]_vars => QueueTypeOK'
<1> SUFFICES ASSUME BridgeTypeOK, [Next]_vars PROVE QueueTypeOK'
  OBVIOUS
<1>1. QueueTypeOK
  BY DEF BridgeTypeOK
<1>2. ASSUME NEW b \in Bodies, Send(b) \/ Forget(b) PROVE QueueTypeOK'
  BY <1>1, <1>2, QueueTypeStep DEF Send, Forget
<1>3. ASSUME NEW t \in Threads, Expire(t) \/ DeadLetter(t) \/ EngagementExpires(t)
      PROVE  QueueTypeOK'
  BY <1>1, <1>3, QueueTypeStep DEF Expire, DeadLetter, EngagementExpires
<1>4. ASSUME NEW e \in Environments, NEW t \in Threads, Start(e, t)
      PROVE  QueueTypeOK'
  BY <1>1, <1>4, QueueTypeStep DEF Start
<1>5. ASSUME NEW e \in Environments, Handler(e) PROVE QueueTypeOK'
  <2>1. CASE Acknowledge(e)
    <3>1. Thread(e) \in Threads /\ job[e].n \in Nat /\ job[e].receipt \in Nat
      BY DEF BridgeTypeOK, Jobs, Thread
    <3>2. Delete(Thread(e), job[e].n, job[e].receipt)
      BY <2>1 DEF Acknowledge
    <3>3. QED
      BY <1>1, <3>1, <3>2, QueueTypeStep
  <2>2. CASE UNCHANGED queueVars
    BY <1>1, <2>2, QueueTypeStep
  <2>3. Acknowledge(e) \/ UNCHANGED queueVars
    BY <1>5 DEF Handler, BeginRecord, GetBotTokenFails, AddThinking,
       InvokeRuntime, RuntimeAnswers, RuntimeFails, SwapToError, SwapToDone,
       SwapReaction, PostError, PostReply, PostReplyThrows, RecordEngagement,
       AcknowledgeLost
  <2>4. QED
    BY <2>1, <2>2, <2>3
<1>6. ASSUME NEW e \in Environments, Crash(e) PROVE QueueTypeOK'
  BY <1>1, <1>6, QueueTypeStep DEF Crash
<1>7. CASE Tick
  BY <1>1, <1>7, QueueTypeStep DEF Tick
<1>8. CASE UNCHANGED vars
  BY <1>1, <1>8, QueueTypeStep DEF vars
<1>9. QED
  BY <1>2, <1>3, <1>4, <1>5, <1>6, <1>7, <1>8 DEF Next

(* What every environment's own state may be. *)
LambdaTypeOK ==
  /\ pc \in [Environments -> PCs]
  /\ job \in [Environments -> Jobs]
  /\ elapsed \in [Environments -> 0..LambdaTimeout]
  /\ swaps \in [Environments -> SUBSET {"remove", "add"}]
  /\ cachedBotToken \in SUBSET Environments

LEMMA FinishType ==
  ASSUME LambdaTypeOK, NEW e \in Environments, Finish(e),
         cachedBotToken' \in SUBSET Environments
  PROVE  LambdaTypeOK'
  BY NoJobType, TimeoutAssumption DEF LambdaTypeOK, Finish, PCs

LEMMA LambdaTypeNext == BridgeTypeOK /\ [Next]_vars => LambdaTypeOK'
<1> SUFFICES ASSUME BridgeTypeOK, [Next]_vars PROVE LambdaTypeOK'
  OBVIOUS
<1>1. LambdaTypeOK
  BY DEF BridgeTypeOK, LambdaTypeOK
<1>2. CASE UNCHANGED lambdaVars
  BY <1>1, <1>2 DEF lambdaVars, LambdaTypeOK
<1>3. ASSUME NEW e \in Environments, NEW t \in Threads, Start(e, t)
      PROVE  LambdaTypeOK'
  <2>1. [thread |-> t, n |-> head[t], receipt |-> receives[t] + 1] \in Jobs
    BY QueueConfigAssumption DEF Jobs, BridgeTypeOK, QueueTypeOK
  <2>2. QED
    BY <1>1, <1>3, <2>1 DEF Start, LambdaTypeOK, PCs
<1>4. ASSUME NEW e \in Environments, Handler(e) PROVE LambdaTypeOK'
  <2>1. CASE BeginRecord(e)
    BY <1>1, <2>1 DEF BeginRecord, Goto, LambdaTypeOK, PCs
  <2>2. CASE GetBotTokenFails(e) \/ PostError(e) \/ PostReplyThrows(e)
              \/ Acknowledge(e) \/ AcknowledgeLost(e)
    <3>1. Finish(e) /\ cachedBotToken' = cachedBotToken
      BY <2>2 DEF GetBotTokenFails, PostError, PostReplyThrows, Acknowledge,
                  AcknowledgeLost
    <3>2. QED
      BY <1>1, <3>1, FinishType DEF LambdaTypeOK
  <2>3. CASE AddThinking(e) \/ InvokeRuntime(e) \/ RuntimeAnswers(e)
              \/ RecordEngagement(e)
    BY <1>1, <2>3 DEF AddThinking, InvokeRuntime, RuntimeAnswers,
       RecordEngagement, Goto, LambdaTypeOK, PCs
  <2>4. CASE RuntimeFails(e) \/ PostReply(e)
    BY <1>1, <2>4 DEF RuntimeFails, PostReply, LambdaTypeOK, PCs
  <2>5. CASE SwapToError(e)
    BY <1>1, <2>5 DEF SwapToError, SwapReaction, LambdaTypeOK, PCs
  <2>6. CASE SwapToDone(e)
    BY <1>1, <2>6 DEF SwapToDone, SwapReaction, LambdaTypeOK, PCs
  <2>7. QED
    BY <1>4, <2>1, <2>2, <2>3, <2>4, <2>5, <2>6 DEF Handler
<1>5. ASSUME NEW e \in Environments, Crash(e) PROVE LambdaTypeOK'
  BY <1>1, <1>5, FinishType DEF Crash, LambdaTypeOK
<1>6. CASE Tick
  BY <1>1, <1>6, TimeoutAssumption DEF Tick, LambdaTypeOK
<1>7. QED
  BY <1>2, <1>3, <1>4, <1>5, <1>6
  DEF Next, vars, Send, Forget, Expire, DeadLetter, EngagementExpires, lambdaVars

(* What Slack shows, the engagement table and the two history variables. *)
SlackTypeOK ==
  /\ reactions \in [Bodies -> SUBSET Reactions]
  /\ posts \in [Threads -> Seq(Postings)]
  /\ engaged \in SUBSET Threads
  /\ answered \in [Threads -> SUBSET Nat]
  /\ invoked \in [Threads -> Nat]

LEMMA PostType ==
  ASSUME BridgeTypeOK, NEW e \in Environments, NEW kind \in {"reply", "error"},
         Post(e, kind) \/ UNCHANGED posts
  PROVE  posts' \in [Threads -> Seq(Postings)]
<1> DEFINE p == [n |-> job[e].n, kind |-> kind]
<1>1. p \in Postings
  BY DEF BridgeTypeOK, Jobs, Postings
<1>2. Thread(e) \in Threads
  BY DEF BridgeTypeOK, Jobs, Thread
<1>3. posts \in [Threads -> Seq(Postings)]
  BY DEF BridgeTypeOK
<1>4. Append(posts[Thread(e)], p) \in Seq(Postings)
  BY <1>1, <1>2, <1>3
<1>5. CASE posts' = [posts EXCEPT ![Thread(e)] = Append(@, p)]
  <2> HIDE DEF p
  <2> QED
    BY <1>2, <1>3, <1>4, <1>5
<1>6. QED
  BY <1>3, <1>5 DEF Post

LEMMA SwapType ==
  ASSUME BridgeTypeOK, NEW e \in Environments, NEW final \in {Done, Error},
         NEW at, NEW next, SwapReaction(e, at, final, next)
  PROVE  reactions' \in [Bodies -> SUBSET Reactions]
<1>1. reactions \in [Bodies -> SUBSET Reactions]
  BY DEF BridgeTypeOK
<1>2. ASSUME NEW call, NEW b \in Bodies
      PROVE  Effect(call, final, reactions[b]) \subseteq Reactions
  BY <1>1 DEF Effect, Reactions
<1>3. PICK call \in swaps[e] :
        reactions' = [reactions EXCEPT ![Body(e)] = Effect(call, final, @)]
        \/ UNCHANGED reactions
  BY DEF SwapReaction
<1>4. QED
  BY <1>1, <1>2, <1>3

LEMMA SlackTypeNext == BridgeTypeOK /\ [Next]_vars => SlackTypeOK'
<1> SUFFICES ASSUME BridgeTypeOK, [Next]_vars PROVE SlackTypeOK'
  OBVIOUS
<1>1. SlackTypeOK
  BY DEF BridgeTypeOK, SlackTypeOK
<1>2. CASE UNCHANGED <<slackVars, invoked>>
  BY <1>1, <1>2 DEF slackVars, SlackTypeOK
<1>3. ASSUME NEW t \in Threads, DeadLetter(t) \/ EngagementExpires(t)
      PROVE  SlackTypeOK'
  BY <1>1, <1>3 DEF DeadLetter, EngagementExpires, slackVars, SlackTypeOK
<1>4. ASSUME NEW e \in Environments, Handler(e) PROVE SlackTypeOK'
  <2>0. Thread(e) \in Threads /\ job[e].n \in Nat
    BY DEF BridgeTypeOK, Jobs, Thread
  <2>1. CASE AddThinking(e)
    BY <1>1, <2>1 DEF AddThinking, SlackTypeOK, Reactions
  <2>2. CASE InvokeRuntime(e) \/ Acknowledge(e)
    <3>1. invoked \in [Threads -> Nat]
      BY <1>1 DEF SlackTypeOK
    <3>2. invoked[Thread(e)] + 1 \in Nat /\ 0 \in Nat
      BY <2>0, <3>1
    <3>3. \/ invoked' = [invoked EXCEPT ![Thread(e)] = @ + 1]
          \/ invoked' = [invoked EXCEPT ![Thread(e)] = 0]
      BY <2>2 DEF InvokeRuntime, Acknowledge
    <3>4. invoked' \in [Threads -> Nat]
      BY <3>1, <3>2, <3>3
    <3>5. UNCHANGED slackVars
      BY <2>2 DEF InvokeRuntime, Acknowledge
    <3>6. QED
      BY <1>1, <3>4, <3>5 DEF slackVars, SlackTypeOK
  <2>3. CASE SwapToError(e) \/ SwapToDone(e)
    <3>1. reactions' \in [Bodies -> SUBSET Reactions]
      BY <2>3, SwapType DEF SwapToError, SwapToDone
    <3>2. UNCHANGED <<posts, engaged, answered, invoked>>
      BY <2>3 DEF SwapToError, SwapToDone, SwapReaction
    <3>3. QED
      BY <1>1, <3>1, <3>2 DEF SlackTypeOK
  <2>4. CASE PostError(e) \/ PostReplyThrows(e)
    <3>1. posts' \in [Threads -> Seq(Postings)]
      BY <2>4, PostType DEF PostError, PostReplyThrows
    <3>2. UNCHANGED <<reactions, engaged, answered, invoked>>
      BY <2>4 DEF PostError, PostReplyThrows
    <3>3. QED
      BY <1>1, <3>1, <3>2 DEF SlackTypeOK
  <2>5. CASE PostReply(e)
    <3>1. posts' \in [Threads -> Seq(Postings)]
      BY <2>5, PostType DEF PostReply
    <3>2. answered' \in [Threads -> SUBSET Nat]
      BY <1>1, <2>0, <2>5 DEF PostReply, SlackTypeOK
    <3>3. UNCHANGED <<reactions, engaged, invoked>>
      BY <2>5 DEF PostReply
    <3>4. QED
      BY <1>1, <3>1, <3>2, <3>3 DEF SlackTypeOK
  <2>6. CASE RecordEngagement(e)
    BY <1>1, <2>0, <2>6 DEF RecordEngagement, SlackTypeOK
  <2>7. QED
    BY <1>2, <1>4, <2>1, <2>2, <2>3, <2>4, <2>5, <2>6
    DEF Handler, BeginRecord, GetBotTokenFails, RuntimeAnswers, RuntimeFails,
        AcknowledgeLost
<1>5. ASSUME NEW e \in Environments, Crash(e) PROVE SlackTypeOK'
  BY <1>2, <1>5 DEF Crash
<1>6. CASE Tick
  BY <1>2, <1>6 DEF Tick
<1>7. QED
  BY <1>2, <1>3, <1>4, <1>5, <1>6
  DEF Next, vars, Send, Forget, Expire, Start

LEMMA TypeNext == BridgeTypeOK /\ [Next]_vars => BridgeTypeOK'
  BY QueueTypeNext, LambdaTypeNext, SlackTypeNext
  DEF BridgeTypeOK, LambdaTypeOK, SlackTypeOK

(***************************************************************************)
(* Every variable of the bridge, the queue and Slack stays in its set: in  *)
(* particular no message is received more than maxReceiveCount times and   *)
(* no invocation outlives the Lambda timeout.                              *)
(***************************************************************************)
THEOREM TypeCorrect == Spec => []BridgeTypeOK
  BY TypeInit, TypeNext, PTL DEF Spec

-----------------------------------------------------------------------------
(* Who holds what.  An invocation's clock and its message's age run        *)
(* together, so the message comes back only after the invocation is gone.  *)

HoldsHeadOrIdle(e) == IF Running(e) THEN HoldsHead(e) ELSE elapsed[e] = 0

LEMMA ControlInit == Init => ControlInv
  BY DEF Init, QueueInit, ControlInv, QueueInv, OneBridgePerThread, Running,
         Visible

\* A thread whose head can be received or expires has no live invocation.
LEMMA NobodyRuns ==
  ASSUME BridgeTypeOK, ControlInv, NEW t \in Threads,
         age[t] = Visible \/ age[t] = VisibilityTimeout,
         NEW e \in Environments, Running(e)
  PROVE  Thread(e) # t
<1>1. HoldsHead(e)
  BY DEF ControlInv
<1>2. elapsed[e] \in 0..LambdaTimeout
  BY DEF BridgeTypeOK
<1>3. elapsed[e] # Visible /\ elapsed[e] # VisibilityTimeout
  BY <1>2, TimeoutAssumption, QueueConfigAssumption DEF Visible
<1>4. QED
  BY <1>1, <1>3 DEF HoldsHead

\* A step inside an invocation: the queue, the jobs and the clocks stay.
Quiet ==
  /\ UNCHANGED <<queueVars, job, elapsed>>
  /\ \A e \in Environments : Running(e)' <=> Running(e)

LEMMA QuietKeepsControl == ControlInv /\ Quiet => ControlInv'
<1> SUFFICES ASSUME ControlInv, Quiet PROVE ControlInv'
  OBVIOUS
<1> USE DEF Quiet, queueVars
<1>1. QueueInv'
  BY DEF ControlInv, QueueInv
<1>2. ASSUME NEW e \in Environments PROVE HoldsHeadOrIdle(e)'
  BY DEF ControlInv, HoldsHeadOrIdle, HoldsHead, Thread
<1>3. OneBridgePerThread'
  BY DEF ControlInv, OneBridgePerThread, Thread
<1>4. QED
  BY <1>1, <1>2, <1>3 DEF ControlInv, HoldsHeadOrIdle

\* An invocation ends and leaves its message in flight.
LEMMA FinishKeepsControl ==
  ASSUME BridgeTypeOK, ControlInv, NEW e \in Environments, Finish(e),
         UNCHANGED queueVars
  PROVE  ControlInv'
<1> USE DEF queueVars
<1>1. QueueInv'
  BY DEF ControlInv, QueueInv
<1>2. ASSUME NEW f \in Environments, Running(f)'
      PROVE  f # e /\ Running(f) /\ job'[f] = job[f] /\ elapsed'[f] = elapsed[f]
  BY <1>2 DEF Finish, Running, BridgeTypeOK
<1>3. ASSUME NEW f \in Environments PROVE HoldsHeadOrIdle(f)'
  <2>1. CASE Running(f)'
    BY <1>2, <2>1 DEF ControlInv, HoldsHeadOrIdle, HoldsHead, Thread
  <2>2. CASE ~Running(f)'
    BY <2>2 DEF ControlInv, HoldsHeadOrIdle, Finish, Running, BridgeTypeOK
  <2>3. QED
    BY <2>1, <2>2
<1>4. OneBridgePerThread'
  BY <1>2 DEF ControlInv, OneBridgePerThread, Thread
<1>5. QED
  BY <1>1, <1>3, <1>4 DEF ControlInv, HoldsHeadOrIdle

LEMMA SendKeepsControl ==
  ASSUME BridgeTypeOK, ControlInv, NEW b \in Bodies, Send(b)
  PROVE  ControlInv'
<1> DEFINE u == threadOf[b]
<1>1. u \in Threads
  BY ThreadOfAssumption
<1>2. log' = [log EXCEPT ![u] = Append(@, b)]
  BY DEF Send, Enqueue
<1>3. UNCHANGED <<head, receives, age, dlq, lambdaVars>>
  BY DEF Send, Enqueue
<1>4. log \in [Threads -> Seq(Bodies)]
  BY DEF BridgeTypeOK, QueueTypeOK
<1>5. ASSUME NEW t \in Threads
      PROVE  /\ Len(log[t]) <= Len(log'[t])
             /\ \A i \in DOMAIN log'[t] : threadOf[log'[t][i]] = t
  <2>1. \A i \in DOMAIN log[t] : threadOf[log[t][i]] = t
    BY DEF ControlInv, QueueInv
  <2>2. CASE t = u
    <3>1. log'[t] = Append(log[t], b)
      BY <1>1, <1>2, <1>4, <2>2
    <3>2. QED
      BY <1>4, <2>1, <2>2, <3>1
  <2>3. CASE t # u
    BY <1>1, <1>2, <1>4, <2>1, <2>3
  <2>4. QED
    BY <2>2, <2>3
<1> HIDE DEF u
<1>6. QueueInv'
  <2>1. ASSUME NEW t \in Threads
        PROVE  Len(log[t]) \in Nat /\ Len(log'[t]) \in Nat /\ head[t] \in Nat
    <3>1. log' \in [Threads -> Seq(Bodies)]
      BY QueueTypeStep DEF BridgeTypeOK, QueueTypeOK, Send
    <3>2. QED
      BY <1>4, <3>1 DEF BridgeTypeOK, QueueTypeOK
  <2>2. QED
    BY <1>3, <1>5, <2>1 DEF ControlInv, QueueInv
<1>7. QED
  BY <1>3, <1>6
  DEF ControlInv, HoldsHead, OneBridgePerThread, Running, Thread, lambdaVars

LEMMA StartKeepsControl ==
  ASSUME BridgeTypeOK, ControlInv, NEW e \in Environments, NEW t \in Threads,
         Start(e, t)
  PROVE  ControlInv'
<1>1. /\ age[t] = Visible /\ head[t] <= Len(log[t])
      /\ receives' = [receives EXCEPT ![t] = @ + 1]
      /\ age' = [age EXCEPT ![t] = 0]
      /\ UNCHANGED <<log, head, dlq, elapsed>>
  BY DEF Start, Receive, Receivable, HasMessage
<1>2. \A f \in Environments : Running(f) => Thread(f) # t
  BY <1>1, NobodyRuns
<1>3. QueueInv'
  BY <1>1 DEF ControlInv, QueueInv, BridgeTypeOK, QueueTypeOK
<1>4. job'[e] = [thread |-> t, n |-> head[t], receipt |-> receives[t] + 1]
  BY DEF Start, BridgeTypeOK
<1>5. ASSUME NEW f \in Environments, Running(f)', f # e
      PROVE  Running(f) /\ job'[f] = job[f] /\ Thread(f) \in Threads \ {t}
  BY <1>2, <1>5 DEF Start, Running, Thread, BridgeTypeOK, Jobs
<1>6. ASSUME NEW f \in Environments PROVE HoldsHeadOrIdle(f)'
  <2>1. CASE f = e
    <3>1. elapsed[e] = 0
      BY DEF Start, ControlInv, Running
    <3>2. QED
      BY <1>1, <1>4, <2>1, <3>1
      DEF HoldsHeadOrIdle, HoldsHead, Thread, BridgeTypeOK, QueueTypeOK
  <2>2. CASE f # e /\ Running(f)'
    BY <1>1, <1>5, <2>2
    DEF ControlInv, HoldsHeadOrIdle, HoldsHead, Thread, BridgeTypeOK, QueueTypeOK
  <2>3. CASE f # e /\ ~Running(f)'
    BY <1>1, <2>3
    DEF Start, ControlInv, HoldsHeadOrIdle, Running, BridgeTypeOK
  <2>4. QED
    BY <2>1, <2>2, <2>3
<1>7. OneBridgePerThread'
  BY <1>4, <1>5 DEF ControlInv, OneBridgePerThread, Thread
<1>8. QED
  BY <1>3, <1>6, <1>7 DEF ControlInv, HoldsHeadOrIdle

\* An expiry or a redrive finds nobody at work on the thread.
LEMMA TimerKeepsControl ==
  ASSUME BridgeTypeOK, ControlInv, NEW t \in Threads, Expire(t) \/ DeadLetter(t)
  PROVE  ControlInv'
<1>1. age[t] = Visible \/ age[t] = VisibilityTimeout
  BY DEF Expire, BecomeVisible, DeadLetter, Redrive, Receivable
<1>2. \A e \in Environments : Running(e) => Thread(e) # t
  BY <1>1, NobodyRuns
<1>3. UNCHANGED <<log, lambdaVars>>
  BY DEF Expire, BecomeVisible, DeadLetter, Redrive
<1>4. \A u \in Threads \ {t} :
        /\ head'[u] = head[u] /\ receives'[u] = receives[u]
        /\ age'[u] = age[u] /\ dlq'[u] = dlq[u]
  BY DEF Expire, BecomeVisible, DeadLetter, Redrive, LeaveQueue, BridgeTypeOK,
         QueueTypeOK
<1>5. QueueInv'
  <2>1. CASE Expire(t)
    BY <2>1 DEF Expire, BecomeVisible, ControlInv, QueueInv, BridgeTypeOK,
                QueueTypeOK
  <2>2. CASE DeadLetter(t)
    <3>1. /\ head[t] <= Len(log[t]) /\ age[t] = Visible
          /\ head'[t] = head[t] + 1 /\ age'[t] = Visible
          /\ dlq'[t] = dlq[t] \cup {head[t]}
      BY <2>2 DEF DeadLetter, Redrive, Receivable, HasMessage, LeaveQueue,
                  BridgeTypeOK, QueueTypeOK
    <3>2. head[t] \in Nat /\ Len(log[t]) \in Nat /\ dlq[t] \subseteq Nat
      BY DEF BridgeTypeOK, QueueTypeOK
    <3>3. QED
      BY <1>3, <1>4, <3>1, <3>2 DEF ControlInv, QueueInv
  <2>3. QED
    BY <2>1, <2>2
<1>6. ASSUME NEW e \in Environments PROVE HoldsHeadOrIdle(e)'
  <2>1. CASE Running(e)
    <3>1. Thread(e) \in Threads \ {t}
      BY <1>2, <2>1 DEF BridgeTypeOK, Jobs, Thread
    <3>2. QED
      BY <1>3, <1>4, <2>1, <3>1
      DEF ControlInv, HoldsHeadOrIdle, HoldsHead, Thread, Running, lambdaVars
  <2>2. CASE ~Running(e)
    BY <1>3, <2>2 DEF ControlInv, HoldsHeadOrIdle, Running, lambdaVars
  <2>3. QED
    BY <2>1, <2>2
<1>7. OneBridgePerThread'
  BY <1>3 DEF ControlInv, OneBridgePerThread, Running, Thread, lambdaVars
<1>8. QED
  BY <1>5, <1>6, <1>7 DEF ControlInv, HoldsHeadOrIdle

LEMMA AcknowledgeKeepsControl ==
  ASSUME BridgeTypeOK, ControlInv, NEW e \in Environments, Acknowledge(e)
  PROVE  ControlInv'
<1> DEFINE t == Thread(e)
<1>1. t \in Threads /\ Running(e)
  BY DEF Acknowledge, BridgeTypeOK, Jobs, Thread, Running
<1>2. /\ age[t] # Visible
      /\ head' = [head EXCEPT ![t] = @ + 1]
      /\ receives' = [receives EXCEPT ![t] = 0]
      /\ age' = [age EXCEPT ![t] = Visible]
      /\ UNCHANGED <<log, dlq>>
  BY DEF Acknowledge, Delete, HandleValid, LeaveQueue
<1>3. ASSUME NEW f \in Environments, Running(f)'
      PROVE  /\ f # e /\ Running(f)
             /\ job'[f] = job[f] /\ elapsed'[f] = elapsed[f]
             /\ Thread(f) \in Threads \ {t}
  <2>1. f # e /\ Running(f) /\ job'[f] = job[f] /\ elapsed'[f] = elapsed[f]
    BY <1>3 DEF Acknowledge, Finish, Running, BridgeTypeOK
  <2>2. QED
    BY <1>1, <2>1 DEF ControlInv, OneBridgePerThread, BridgeTypeOK, Jobs, Thread
<1> HIDE DEF t
<1>4. QueueInv'
  <2>1. /\ head \in [Threads -> Nat] /\ \A u \in Threads : Len(log[u]) \in Nat
        /\ age \in [Threads -> Visible..VisibilityTimeout]
        /\ dlq \in [Threads -> SUBSET Nat]
    BY DEF BridgeTypeOK, QueueTypeOK
  <2>2. QED
    BY <1>1, <1>2, <2>1 DEF ControlInv, QueueInv
<1>5. ASSUME NEW f \in Environments PROVE HoldsHeadOrIdle(f)'
  <2>1. CASE Running(f)'
    BY <1>2, <1>3, <2>1
    DEF ControlInv, HoldsHeadOrIdle, HoldsHead, Thread, BridgeTypeOK, QueueTypeOK
  <2>2. CASE ~Running(f)'
    BY <2>2
    DEF Acknowledge, Finish, ControlInv, HoldsHeadOrIdle, Running, BridgeTypeOK
  <2>3. QED
    BY <2>1, <2>2
<1>6. OneBridgePerThread'
  BY <1>3 DEF ControlInv, OneBridgePerThread, Thread
<1>7. QED
  BY <1>4, <1>5, <1>6 DEF ControlInv, HoldsHeadOrIdle

\* A tick advances a running invocation and its message alike.
LEMMA TickKeepsControl ==
  ASSUME BridgeTypeOK, ControlInv, Tick
  PROVE  ControlInv'
<1>1. UNCHANGED <<log, head, receives, dlq, pc, job>>
  BY DEF Tick
<1>2. ASSUME NEW t \in Threads
      PROVE  age'[t] # Visible <=> age[t] # Visible
  BY DEF Tick, AgeInFlight, Visible, BridgeTypeOK, QueueTypeOK
<1>3. QueueInv'
  BY <1>1, <1>2 DEF ControlInv, QueueInv
<1>4. ASSUME NEW e \in Environments PROVE HoldsHeadOrIdle(e)'
  <2>1. CASE Running(e)
    <3>1. Thread(e) \in Threads
      BY DEF BridgeTypeOK, Jobs, Thread
    <3>2. HoldsHead(e)
      BY <2>1 DEF ControlInv
    <3>3. elapsed[e] \in 0..LambdaTimeout /\ elapsed[e] < LambdaTimeout
      BY <2>1 DEF Tick, BridgeTypeOK
    <3>4. age[Thread(e)] # Visible /\ age[Thread(e)] # VisibilityTimeout
      BY <3>2, <3>3, TimeoutAssumption, QueueConfigAssumption
      DEF HoldsHead, Visible
    <3>5. age'[Thread(e)] = age[Thread(e)] + 1
      BY <3>1, <3>4 DEF Tick, AgeInFlight
    <3>6. elapsed'[e] = elapsed[e] + 1
      BY <2>1 DEF Tick
    <3>7. QED
      BY <1>1, <2>1, <3>2, <3>5, <3>6
      DEF HoldsHeadOrIdle, HoldsHead, Running, Thread
  <2>2. CASE ~Running(e)
    BY <1>1, <2>2 DEF Tick, ControlInv, HoldsHeadOrIdle, Running
  <2>3. QED
    BY <2>1, <2>2
<1>5. OneBridgePerThread'
  BY <1>1 DEF ControlInv, OneBridgePerThread, Running, Thread
<1>6. QED
  BY <1>3, <1>4, <1>5 DEF ControlInv, HoldsHeadOrIdle

\* The handler's steps, sorted by what they do to the queue and the clocks.
LEMMA HandlerSteps ==
  ASSUME BridgeTypeOK, NEW e \in Environments, Handler(e)
  PROVE  Acknowledge(e) \/ (Finish(e) /\ UNCHANGED queueVars) \/ Quiet
<1>1. CASE GetBotTokenFails(e) \/ PostError(e) \/ PostReplyThrows(e)
           \/ AcknowledgeLost(e)
  BY <1>1 DEF GetBotTokenFails, PostError, PostReplyThrows, AcknowledgeLost
<1>2. CASE BeginRecord(e) \/ AddThinking(e) \/ InvokeRuntime(e)
           \/ RuntimeAnswers(e) \/ RecordEngagement(e)
  BY <1>2 DEF BeginRecord, AddThinking, InvokeRuntime, RuntimeAnswers,
     RecordEngagement, Goto, Quiet, Running, BridgeTypeOK
<1>3. CASE RuntimeFails(e) \/ PostReply(e)
  BY <1>3 DEF RuntimeFails, PostReply, Quiet, Running, BridgeTypeOK
<1>4. CASE SwapToError(e)
  BY <1>4 DEF SwapToError, SwapReaction, Quiet, Running, BridgeTypeOK
<1>5. CASE SwapToDone(e)
  BY <1>5 DEF SwapToDone, SwapReaction, Quiet, Running, BridgeTypeOK
<1>6. QED
  BY <1>1, <1>2, <1>3, <1>4, <1>5 DEF Handler

LEMMA ControlNext == BridgeTypeOK /\ ControlInv /\ [Next]_vars => ControlInv'
<1> SUFFICES ASSUME BridgeTypeOK, ControlInv, [Next]_vars PROVE ControlInv'
  OBVIOUS
<1>1. ASSUME NEW b \in Bodies, Send(b) PROVE ControlInv'
  BY <1>1, SendKeepsControl
<1>2. ASSUME NEW b \in Bodies, Forget(b) PROVE ControlInv'
  BY <1>2 DEF Forget, ForgetDuplicate, ControlInv, QueueInv, HoldsHead,
     OneBridgePerThread, Running, Thread, lambdaVars
<1>3. ASSUME NEW t \in Threads, Expire(t) \/ DeadLetter(t) PROVE ControlInv'
  BY <1>3, TimerKeepsControl
<1>4. ASSUME NEW t \in Threads, EngagementExpires(t) PROVE ControlInv'
  BY <1>4, QuietKeepsControl DEF EngagementExpires, Quiet, Running, lambdaVars
<1>5. ASSUME NEW e \in Environments, NEW t \in Threads, Start(e, t)
      PROVE  ControlInv'
  BY <1>5, StartKeepsControl
<1>6. ASSUME NEW e \in Environments, Handler(e) PROVE ControlInv'
  BY <1>6, HandlerSteps, AcknowledgeKeepsControl, FinishKeepsControl,
     QuietKeepsControl
<1>7. ASSUME NEW e \in Environments, Crash(e) PROVE ControlInv'
  BY <1>7, FinishKeepsControl DEF Crash
<1>8. CASE Tick
  BY <1>8, TickKeepsControl
<1>9. CASE UNCHANGED vars
  BY <1>9, QuietKeepsControl DEF vars, Quiet, Running, lambdaVars
<1>10. QED
  BY <1>1, <1>2, <1>3, <1>4, <1>5, <1>6, <1>7, <1>8, <1>9 DEF Next

LEMMA ControlCorrect == Spec => [](BridgeTypeOK /\ ControlInv)
<1>1. Init => BridgeTypeOK /\ ControlInv
  BY TypeInit, ControlInit
<1>2. BridgeTypeOK /\ ControlInv /\ [Next]_vars => (BridgeTypeOK /\ ControlInv)'
  BY TypeNext, ControlNext
<1>3. QED
  BY <1>1, <1>2, PTL DEF Spec

(***************************************************************************)
(* Two invocations of the bridge never work on one thread at a time: that  *)
(* the Lambda's timeout is below the queue's visibility timeout is enough. *)
(***************************************************************************)
THEOREM OneBridge == Spec => []OneBridgePerThread
<1>1. BridgeTypeOK /\ ControlInv => OneBridgePerThread
  BY DEF ControlInv
<1>2. QED
  BY <1>1, ControlCorrect, PTL

-----------------------------------------------------------------------------
(* Replies in order. *)

SpeechInv ==
  /\ \A t \in Threads : \A i \in DOMAIN posts[t] : posts[t][i].n <= head[t]
  /\ RepliesInOrder

\* The head of a group only moves on.
LEMMA HeadMovesOn ==
  ASSUME BridgeTypeOK, [Next]_vars, NEW t \in Threads
  PROVE  head[t] <= head'[t]
<1>1. head \in [Threads -> Nat]
  BY DEF BridgeTypeOK, QueueTypeOK
<1>2. head' = head \/ \E u \in Threads : head' = [head EXCEPT ![u] = @ + 1]
  <2>1. ASSUME NEW e \in Environments, Handler(e)
        PROVE  head' = head \/ \E u \in Threads : head' = [head EXCEPT ![u] = @ + 1]
    <3>1. Thread(e) \in Threads
      BY DEF BridgeTypeOK, Jobs, Thread
    <3>2. QED
      BY <2>1, <3>1, HandlerSteps
      DEF Acknowledge, Delete, LeaveQueue, queueVars, Quiet
  <2>2. QED
    BY <2>1 DEF Next, vars, queueVars, Send, Enqueue, Forget, ForgetDuplicate,
       Expire, BecomeVisible, DeadLetter, Redrive, LeaveQueue,
       EngagementExpires, Start, Receive, Crash, Tick
<1>3. QED
  BY <1>1, <1>2

\* The only steps that speak are about the head, and do not move it.
LEMMA WhoSpeaks ==
  ASSUME BridgeTypeOK, ControlInv, [Next]_vars
  PROVE  \/ UNCHANGED posts
         \/ /\ UNCHANGED head
            /\ \E t \in Threads : \E p \in Postings :
                 p.n = head[t] /\ posts' = [posts EXCEPT ![t] = Append(@, p)]
<1>1. ASSUME NEW e \in Environments, NEW kind \in {"reply", "error"},
             Running(e), Post(e, kind)
      PROVE  \E t \in Threads : \E p \in Postings :
               p.n = head[t] /\ posts' = [posts EXCEPT ![t] = Append(@, p)]
  <2> DEFINE p == [n |-> job[e].n, kind |-> kind]
  <2>1. p \in Postings /\ Thread(e) \in Threads
    BY DEF BridgeTypeOK, Jobs, Postings, Thread
  <2>2. p.n = head[Thread(e)]
    BY <1>1 DEF ControlInv, HoldsHead
  <2>3. posts' = [posts EXCEPT ![Thread(e)] = Append(@, p)]
    BY <1>1 DEF Post
  <2> HIDE DEF p
  <2>4. QED
    BY <2>1, <2>2, <2>3
<1>2. ASSUME NEW e \in Environments,
             PostError(e) \/ PostReply(e) \/ PostReplyThrows(e)
      PROVE  /\ UNCHANGED posts \/ \E kind \in {"reply", "error"} : Post(e, kind)
             /\ UNCHANGED head /\ Running(e)
  BY <1>2 DEF PostError, PostReply, PostReplyThrows, queueVars, Running
<1>3. ASSUME NEW e \in Environments, Handler(e),
             ~(PostError(e) \/ PostReply(e) \/ PostReplyThrows(e))
      PROVE  UNCHANGED posts
  BY <1>3 DEF Handler, BeginRecord, GetBotTokenFails, AddThinking,
     InvokeRuntime, RuntimeAnswers, RuntimeFails, SwapToError, SwapToDone,
     SwapReaction, RecordEngagement, Acknowledge, AcknowledgeLost, slackVars
<1>4. CASE \E e \in Environments : Handler(e)
  BY <1>1, <1>2, <1>3, <1>4
<1>5. CASE ~\E e \in Environments : Handler(e)
  BY <1>5 DEF Next, vars, slackVars, Send, Forget, Expire, DeadLetter,
     EngagementExpires, Start, Crash, Tick
<1>6. QED
  BY <1>4, <1>5

LEMMA SpeechNext ==
  BridgeTypeOK /\ ControlInv /\ SpeechInv /\ [Next]_vars => SpeechInv'
<1> SUFFICES ASSUME BridgeTypeOK, ControlInv, SpeechInv, [Next]_vars
             PROVE  SpeechInv'
  OBVIOUS
<1>1. /\ posts \in [Threads -> Seq(Postings)]
      /\ head \in [Threads -> Nat] /\ head' \in [Threads -> Nat]
  BY TypeNext DEF BridgeTypeOK, QueueTypeOK
<1>2. CASE UNCHANGED posts
  <2>1. ASSUME NEW t \in Threads, NEW i \in DOMAIN posts[t]
        PROVE  posts[t][i].n <= head'[t]
    <3>1. posts[t] \in Seq(Postings)
      BY <1>1
    <3>2. posts[t][i] \in Postings
      BY <2>1, <3>1
    <3>3. posts[t][i].n \in Nat
      BY <3>2 DEF Postings
    <3>4. head[t] <= head'[t] /\ posts[t][i].n <= head[t]
      BY <2>1, HeadMovesOn DEF SpeechInv
    <3>5. head[t] \in Nat /\ head'[t] \in Nat
      BY <1>1
    <3>6. QED
      BY <3>3, <3>4, <3>5
  <2>2. QED
    BY <1>2, <2>1 DEF SpeechInv, RepliesInOrder
<1>3. ASSUME UNCHANGED head, NEW u \in Threads, NEW p \in Postings, p.n = head[u],
             posts' = [posts EXCEPT ![u] = Append(@, p)]
      PROVE  SpeechInv'
  <2>1. ASSUME NEW t \in Threads, t # u PROVE posts'[t] = posts[t]
    BY <1>1, <1>3, <2>1
  <2>2. posts'[u] = Append(posts[u], p) /\ posts[u] \in Seq(Postings)
    BY <1>1, <1>3
  <2>3. /\ DOMAIN posts'[u] = 1..(Len(posts[u]) + 1)
        /\ \A i \in DOMAIN posts[u] : posts'[u][i] = posts[u][i]
        /\ posts'[u][Len(posts[u]) + 1] = p
        /\ DOMAIN posts[u] = 1..Len(posts[u]) /\ Len(posts[u]) \in Nat
    BY <2>2
  <2>4. \A i \in DOMAIN posts'[u] : posts'[u][i].n <= head[u]
    BY <1>1, <1>3, <2>3 DEF SpeechInv
  <2>5. \A i, j \in DOMAIN posts'[u] : i <= j => posts'[u][i].n <= posts'[u][j].n
    <3> SUFFICES ASSUME NEW i \in DOMAIN posts'[u], NEW j \in DOMAIN posts'[u],
                        i <= j
                 PROVE  posts'[u][i].n <= posts'[u][j].n
      OBVIOUS
    <3>1. CASE j = Len(posts[u]) + 1
      BY <1>3, <2>3, <2>4, <3>1
    <3>2. CASE j # Len(posts[u]) + 1
      <4>1. i \in DOMAIN posts[u] /\ j \in DOMAIN posts[u]
        BY <2>3, <3>2
      <4>2. QED
        BY <2>3, <4>1 DEF SpeechInv, RepliesInOrder
    <3>3. QED
      BY <3>1, <3>2
  <2>6. QED
    BY <1>3, <2>1, <2>4, <2>5 DEF SpeechInv, RepliesInOrder
<1>4. QED
  BY <1>2, <1>3, WhoSpeaks

LEMMA SpeechCorrect == Spec => []SpeechInv
<1>1. Init => SpeechInv
  BY DEF Init, SpeechInv, RepliesInOrder
<1>2. QED
  BY <1>1, ControlCorrect, SpeechNext, PTL DEF Spec

(***************************************************************************)
(* FIFO grouping by thread keeps replies ordered within a thread, across   *)
(* errors, crashes, retries, lost acknowledgements and dead letters.       *)
(***************************************************************************)
THEOREM OrderedReplies == Spec => []RepliesInOrder
<1>1. SpeechInv => RepliesInOrder
  BY DEF SpeechInv
<1>2. QED
  BY <1>1, SpeechCorrect, PTL

(***************************************************************************)
(* A message is neither given up on nor offered again while an invocation  *)
(* is still working on its thread.                                         *)
(***************************************************************************)
THEOREM ReleasedOnlyWhenIdle == Spec => NeverReleasedWhileRunning
<1> DEFINE Released(t) == dlq'[t] # dlq[t] \/ (age[t] # Visible
                            /\ age'[t] = Visible /\ head'[t] = head[t])
<1>1. ASSUME BridgeTypeOK, ControlInv, [Next]_vars, NEW t \in Threads,
             Released(t), NEW e \in Environments, Running(e), Thread(e) = t
      PROVE  FALSE
  <2>1. CASE \E u \in Threads : Expire(u) \/ DeadLetter(u)
    <3>1. PICK u \in Threads : Expire(u) \/ DeadLetter(u)
      BY <2>1
    <3>2. u = t
      BY <1>1, <3>1 DEF Expire, BecomeVisible, DeadLetter, Redrive, BridgeTypeOK,
                  QueueTypeOK
    <3>3. QED
      BY <1>1, <3>1, <3>2, NobodyRuns
      DEF Expire, BecomeVisible, DeadLetter, Redrive, Receivable
  <2>2. CASE \E f \in Environments : Acknowledge(f)
    <3>1. PICK f \in Environments : Acknowledge(f)
      BY <2>2
    <3>2. Thread(f) \in Threads
      BY <1>1 DEF BridgeTypeOK, Jobs, Thread
    <3>3. QED
      BY <1>1, <3>1, <3>2
      DEF Acknowledge, Delete, LeaveQueue, BridgeTypeOK, QueueTypeOK
  <2>3. CASE Tick
    BY <1>1, <2>3 DEF Tick, AgeInFlight, Visible, BridgeTypeOK, QueueTypeOK
  <2>4. CASE \E f \in Environments, u \in Threads : Start(f, u)
    BY <1>1, <2>4 DEF Start, Receive, Visible, BridgeTypeOK, QueueTypeOK
  <2>5. CASE UNCHANGED <<age, dlq>>
    BY <1>1, <2>5
  <2>6. QED
    BY <1>1, <2>1, <2>2, <2>3, <2>4, <2>5, HandlerSteps
    DEF Next, vars, queueVars, Send, Enqueue, Forget, ForgetDuplicate,
        EngagementExpires, Crash, Quiet
<1>2. BridgeTypeOK /\ ControlInv /\ [Next]_vars =>
        [\A t \in Threads : Released(t) =>
           \A e \in Environments : ~(Running(e) /\ Thread(e) = t)]_vars
  BY <1>1
<1>3. QED
  BY <1>2, ControlCorrect, PTL DEF Spec, NeverReleasedWhileRunning

-----------------------------------------------------------------------------
(* Runtime calls. *)

InvokeInv ==
  /\ InvokedOncePerReceive
  /\ \A e \in Environments :
       pc[e] \in BeforeInvoke => invoked[Thread(e)] < receives[Thread(e)]

\* An environment before its runtime call either was there or just started.
LEMMA StillBeforeInvoke ==
  ASSUME BridgeTypeOK, [Next]_vars, NEW e \in Environments,
         pc'[e] \in BeforeInvoke
  PROVE  \/ pc[e] \in BeforeInvoke /\ job'[e] = job[e]
         \/ \E t \in Threads : Start(e, t)
<1> USE DEF BeforeInvoke, BridgeTypeOK
<1>1. ASSUME NEW f \in Environments, Handler(f)
      PROVE  pc[e] \in BeforeInvoke /\ job'[e] = job[e]
  <2>1. CASE BeginRecord(f) \/ AddThinking(f) \/ InvokeRuntime(f)
              \/ RuntimeAnswers(f) \/ RecordEngagement(f)
    BY <2>1 DEF BeginRecord, AddThinking, InvokeRuntime, RuntimeAnswers,
       RecordEngagement, Goto
  <2>2. CASE GetBotTokenFails(f) \/ PostError(f) \/ PostReplyThrows(f)
              \/ Acknowledge(f) \/ AcknowledgeLost(f)
    BY <2>2 DEF GetBotTokenFails, PostError, PostReplyThrows, Acknowledge,
       AcknowledgeLost, Finish
  <2>3. CASE RuntimeFails(f) \/ PostReply(f)
    BY <2>3 DEF RuntimeFails, PostReply
  <2>4. CASE SwapToError(f)
    BY <2>4 DEF SwapToError, SwapReaction
  <2>5. CASE SwapToDone(f)
    BY <2>5 DEF SwapToDone, SwapReaction
  <2>6. QED
    BY <1>1, <2>1, <2>2, <2>3, <2>4, <2>5 DEF Handler
<1>2. ASSUME NEW f \in Environments, Crash(f)
      PROVE  pc[e] \in BeforeInvoke /\ job'[e] = job[e]
  BY <1>2 DEF Crash, Finish
<1>3. ASSUME NEW f \in Environments, NEW t \in Threads, Start(f, t)
      PROVE  f = e \/ (pc[e] \in BeforeInvoke /\ job'[e] = job[e])
  BY <1>3 DEF Start
<1>4. QED
  BY <1>1, <1>2, <1>3 DEF Next, vars, lambdaVars, Send, Forget, Expire,
     DeadLetter, EngagementExpires, Tick

LEMMA InvokeNext ==
  BridgeTypeOK /\ ControlInv /\ InvokeInv /\ [Next]_vars => InvokeInv'
<1> SUFFICES ASSUME BridgeTypeOK, ControlInv, InvokeInv, [Next]_vars
             PROVE  InvokeInv'
  OBVIOUS
<1>0. /\ invoked \in [Threads -> Nat] /\ receives \in [Threads -> Nat]
      /\ pc \in [Environments -> PCs]
      /\ \A e \in Environments : Thread(e) \in Threads
  BY DEF BridgeTypeOK, QueueTypeOK, Jobs, Thread
<1>1. ASSUME NEW t \in Threads, DeadLetter(t) PROVE InvokeInv'
  <2>1. \A e \in Environments : Running(e) => Thread(e) # t
    BY <1>1, NobodyRuns DEF DeadLetter, Redrive, Receivable
  <2>2. /\ invoked' = [invoked EXCEPT ![t] = 0]
        /\ receives' = [receives EXCEPT ![t] = 0]
        /\ UNCHANGED <<pc, job>>
    BY <1>1 DEF DeadLetter, Redrive, LeaveQueue, lambdaVars
  <2>3. QED
    BY <1>0, <2>1, <2>2
    DEF InvokeInv, InvokedOncePerReceive, BeforeInvoke, Running, Thread
<1>2. ASSUME NEW f \in Environments, Acknowledge(f) PROVE InvokeInv'
  <2>1. /\ invoked' = [invoked EXCEPT ![Thread(f)] = 0]
        /\ receives' = [receives EXCEPT ![Thread(f)] = 0]
        /\ Running(f) /\ pc' = [pc EXCEPT ![f] = "idle"]
        /\ job' = [job EXCEPT ![f] = NoJob]
    BY <1>2 DEF Acknowledge, Delete, LeaveQueue, Finish, Running
  <2>2. \A e \in Environments : pc'[e] \in BeforeInvoke =>
          pc[e] \in BeforeInvoke /\ job'[e] = job[e] /\ Thread(e) # Thread(f)
    BY <1>0, <2>1 DEF BeforeInvoke, Running, ControlInv, OneBridgePerThread,
                     BridgeTypeOK
  <2>3. QED
    BY <1>0, <2>1, <2>2 DEF InvokeInv, InvokedOncePerReceive, Thread
<1>3. ASSUME NEW f \in Environments, InvokeRuntime(f) PROVE InvokeInv'
  <2>1. /\ invoked' = [invoked EXCEPT ![Thread(f)] = @ + 1]
        /\ pc[f] = "invoke" /\ pc' = [pc EXCEPT ![f] = "await"]
        /\ UNCHANGED <<job, receives>>
    BY <1>3 DEF InvokeRuntime, Goto, queueVars
  <2>2. \A e \in Environments : pc'[e] \in BeforeInvoke =>
          pc[e] \in BeforeInvoke /\ Thread(e) # Thread(f)
    BY <1>0, <2>1 DEF BeforeInvoke, Running, ControlInv, OneBridgePerThread
  <2>3. invoked[Thread(f)] + 1 <= receives[Thread(f)]
    BY <1>0, <2>1 DEF InvokeInv, BeforeInvoke
  <2>4. QED
    BY <1>0, <2>1, <2>2, <2>3 DEF InvokeInv, InvokedOncePerReceive, Thread
<1>4. ASSUME NEW f \in Environments, NEW t \in Threads, Start(f, t)
      PROVE  InvokeInv'
  <2>1. /\ receives' = [receives EXCEPT ![t] = @ + 1]
        /\ UNCHANGED invoked
        /\ \A e \in Environments \ {f} : pc'[e] = pc[e] /\ job'[e] = job[e]
        /\ job'[f].thread = t
    BY <1>4 DEF Start, Receive, BridgeTypeOK
  <2>2. QED
    BY <1>0, <2>1 DEF InvokeInv, InvokedOncePerReceive, Thread
<1>5. CASE UNCHANGED <<invoked, receives>>
           /\ ~\E e \in Environments, t \in Threads : Start(e, t)
  <2>1. \A e \in Environments : pc'[e] \in BeforeInvoke =>
          pc[e] \in BeforeInvoke /\ job'[e] = job[e]
    BY <1>5, StillBeforeInvoke
  <2>2. QED
    BY <1>5, <2>1 DEF InvokeInv, InvokedOncePerReceive, Thread
<1>6. ASSUME NEW f \in Environments, Handler(f)
      PROVE  Acknowledge(f) \/ InvokeRuntime(f) \/ UNCHANGED <<invoked, receives>>
  BY <1>6 DEF Handler, BeginRecord, GetBotTokenFails, AddThinking, queueVars,
     RuntimeAnswers, RuntimeFails, SwapToError, SwapToDone, SwapReaction,
     PostError, PostReply, PostReplyThrows, RecordEngagement, AcknowledgeLost
<1>7. QED
  BY <1>1, <1>2, <1>3, <1>4, <1>5, <1>6
  DEF Next, vars, queueVars, Send, Enqueue, Forget, ForgetDuplicate, Expire,
      BecomeVisible, EngagementExpires, Crash, Tick

LEMMA InvokeCorrect == Spec => []InvokeInv
<1>1. Init => InvokeInv
  BY DEF Init, QueueInit, InvokeInv, InvokedOncePerReceive, BeforeInvoke
<1>2. QED
  BY <1>1, ControlCorrect, InvokeNext, PTL DEF Spec

(***************************************************************************)
(* The runtime is called at most once per receive of a message, hence at   *)
(* most maxReceiveCount times for one message.                             *)
(***************************************************************************)
THEOREM InvocationsBounded == Spec => []InvokedOncePerReceive
<1>1. InvokeInv => InvokedOncePerReceive
  BY DEF InvokeInv
<1>2. QED
  BY <1>1, InvokeCorrect, PTL

-----------------------------------------------------------------------------
(* Acknowledgements, check marks and engagement. *)

AfterReply == {"doneSwap", "engage"}

AnswerInv ==
  /\ \A t \in Threads : \A n \in answered[t] : n \in DOMAIN log[t]
  /\ \A e \in Environments :
       /\ pc[e] \in AfterReply => job[e].n \in answered[Thread(e)]
       /\ pc[e] = "returned" => \/ job[e].n \in answered[Thread(e)]
                                \/ Body(e) \in Unprocessable
  /\ AcknowledgedIsAnswered
  /\ DoneMeansAnswered
  /\ EngagedOnlyAfterAnswer

\* Histories only grow, and what was accepted keeps its place.
LEMMA Grows ==
  ASSUME BridgeTypeOK, ControlInv, [Next]_vars, NEW t \in Threads
  PROVE  /\ answered[t] \subseteq answered'[t]
         /\ dlq[t] \subseteq dlq'[t]
         /\ \A n \in DOMAIN log[t] : n \in DOMAIN log'[t] /\ log'[t][n] = log[t][n]
<1>0. /\ log \in [Threads -> Seq(Bodies)] /\ answered \in [Threads -> SUBSET Nat]
      /\ dlq \in [Threads -> SUBSET Nat]
  BY DEF BridgeTypeOK, QueueTypeOK
<1>1. answered[t] \subseteq answered'[t]
  <2>1. answered' = answered \/ \E e \in Environments : PostReply(e)
    BY DEF Next, vars, slackVars, Send, Forget, Expire, DeadLetter,
       EngagementExpires, Start, Crash, Tick, Handler, BeginRecord,
       GetBotTokenFails, AddThinking, InvokeRuntime, RuntimeAnswers,
       RuntimeFails, SwapToError, SwapToDone, SwapReaction, PostError,
       PostReplyThrows, RecordEngagement, Acknowledge, AcknowledgeLost
  <2>2. QED
    BY <1>0, <2>1 DEF PostReply
<1>2. UNCHANGED <<log, dlq>> \/ (\E b \in Bodies : Enqueue(b))
      \/ (\E u \in Threads : Redrive(u))
  BY HandlerSteps DEF Next, vars, queueVars, Send, Forget, ForgetDuplicate,
     Expire, BecomeVisible, DeadLetter, EngagementExpires, Start, Receive,
     Crash, Tick, Acknowledge, Delete, Quiet
<1>3. dlq[t] \subseteq dlq'[t]
  BY <1>0, <1>2 DEF Enqueue, Redrive
<1>4. \A n \in DOMAIN log[t] : n \in DOMAIN log'[t] /\ log'[t][n] = log[t][n]
  <2>1. ASSUME NEW b \in Bodies, Enqueue(b)
        PROVE  log'[t] = log[t] \/ log'[t] = Append(log[t], b)
    BY <1>0, <2>1 DEF Enqueue
  <2>2. log'[t] = log[t] \/ \E b \in Bodies : log'[t] = Append(log[t], b)
    BY <1>2, <2>1 DEF Redrive
  <2>3. log[t] \in Seq(Bodies)
    BY <1>0
  <2>4. QED
    BY <2>2, <2>3
<1>5. QED
  BY <1>1, <1>3, <1>4

\* The head an invocation holds is a body of its thread.
LEMMA HeldBody ==
  ASSUME BridgeTypeOK, ControlInv, NEW e \in Environments, Running(e)
  PROVE  /\ Thread(e) \in Threads
         /\ job[e].n \in DOMAIN log[Thread(e)]
         /\ Body(e) \in Bodies /\ threadOf[Body(e)] = Thread(e)
<1>1. Thread(e) \in Threads /\ job[e].n = head[Thread(e)]
  BY DEF BridgeTypeOK, Jobs, Thread, ControlInv, HoldsHead
<1>2. age[Thread(e)] # Visible
  BY TimeoutAssumption DEF ControlInv, HoldsHead, BridgeTypeOK, Visible
<1>3. head[Thread(e)] \in 1..Len(log[Thread(e)]) /\ log[Thread(e)] \in Seq(Bodies)
  BY <1>1, <1>2 DEF ControlInv, QueueInv, BridgeTypeOK, QueueTypeOK
<1>4. QED
  BY <1>1, <1>3 DEF ControlInv, QueueInv, Body, Thread

LEMMA AnsweredAccepted ==
  ASSUME BridgeTypeOK, ControlInv, AnswerInv, [Next]_vars,
         NEW t \in Threads, NEW n \in answered'[t]
  PROVE  n \in DOMAIN log'[t]
<1>1. n \in DOMAIN log[t]
  <2>1. CASE n \in answered[t]
    BY <2>1 DEF AnswerInv
  <2>2. CASE \E e \in Environments : PostReply(e)
    <3>1. PICK e \in Environments : PostReply(e)
      BY <2>2
    <3>2. Running(e)
      BY <3>1 DEF PostReply, Running
    <3>3. n \in answered[t] \/ (t = Thread(e) /\ n = job[e].n)
      BY <3>1 DEF PostReply, BridgeTypeOK
    <3>4. QED
      BY <2>1, <3>2, <3>3, HeldBody
  <2>3. CASE UNCHANGED answered
    BY <2>1, <2>3
  <2>4. QED
    BY <2>2, <2>3
    DEF Next, vars, slackVars, Send, Forget, Expire, DeadLetter,
        EngagementExpires, Start, Crash, Tick, Handler, BeginRecord,
        GetBotTokenFails, AddThinking, InvokeRuntime, RuntimeAnswers,
        RuntimeFails, SwapToError, SwapToDone, SwapReaction, PostError,
        PostReplyThrows, RecordEngagement, Acknowledge, AcknowledgeLost
<1>2. QED
  BY <1>1, Grows

\* How an invocation came to be past its reply.
LEMMA WhyPastReply ==
  ASSUME BridgeTypeOK, [Next]_vars, NEW e \in Environments,
         pc'[e] \in AfterReply \cup {"returned"}
  PROVE  /\ Running(e) /\ job'[e] = job[e]
         /\ \/ pc'[e] = pc[e]
            \/ pc[e] \in AfterReply
            \/ pc'[e] = "returned" /\ Body(e) \in Unprocessable
            \/ pc'[e] = "doneSwap" /\ PostReply(e)
<1> USE DEF AfterReply, BridgeTypeOK, Running
<1>1. ASSUME NEW f \in Environments, Handler(f), f # e
      PROVE  pc'[e] = pc[e] /\ job'[e] = job[e]
  <2>1. CASE BeginRecord(f) \/ AddThinking(f) \/ InvokeRuntime(f)
              \/ RuntimeAnswers(f) \/ RecordEngagement(f)
    BY <1>1, <2>1 DEF BeginRecord, AddThinking, InvokeRuntime, RuntimeAnswers,
       RecordEngagement, Goto
  <2>2. CASE GetBotTokenFails(f) \/ PostError(f) \/ PostReplyThrows(f)
              \/ Acknowledge(f) \/ AcknowledgeLost(f)
    BY <1>1, <2>2 DEF GetBotTokenFails, PostError, PostReplyThrows, Acknowledge,
       AcknowledgeLost, Finish
  <2>3. CASE RuntimeFails(f) \/ PostReply(f)
    BY <1>1, <2>3 DEF RuntimeFails, PostReply
  <2>4. CASE SwapToError(f)
    BY <1>1, <2>4 DEF SwapToError, SwapReaction
  <2>5. CASE SwapToDone(f)
    BY <1>1, <2>5 DEF SwapToDone, SwapReaction
  <2>6. QED
    BY <1>1, <2>1, <2>2, <2>3, <2>4, <2>5 DEF Handler
<1>2. CASE Handler(e)
  <2>1. CASE BeginRecord(e)
    BY <2>1 DEF BeginRecord, Goto
  <2>2. CASE AddThinking(e) \/ InvokeRuntime(e) \/ RuntimeAnswers(e)
              \/ GetBotTokenFails(e) \/ PostError(e) \/ PostReplyThrows(e)
              \/ Acknowledge(e) \/ AcknowledgeLost(e) \/ RuntimeFails(e)
    BY <2>2 DEF AddThinking, InvokeRuntime, RuntimeAnswers, GetBotTokenFails,
       PostError, PostReplyThrows, Acknowledge, AcknowledgeLost, RuntimeFails,
       Finish, Goto
  <2>3. CASE PostReply(e)
    BY <2>3 DEF PostReply
  <2>4. CASE SwapToError(e)
    BY <2>4 DEF SwapToError, SwapReaction
  <2>5. CASE SwapToDone(e)
    BY <2>5 DEF SwapToDone, SwapReaction
  <2>6. CASE RecordEngagement(e)
    BY <2>6 DEF RecordEngagement, Goto
  <2>7. QED
    BY <1>2, <2>1, <2>2, <2>3, <2>4, <2>5, <2>6 DEF Handler
<1>3. ASSUME NEW f \in Environments, Crash(f)
      PROVE  pc'[e] = pc[e] /\ job'[e] = job[e]
  BY <1>3 DEF Crash, Finish
<1>4. ASSUME NEW f \in Environments, NEW t \in Threads, Start(f, t)
      PROVE  pc'[e] = pc[e] /\ job'[e] = job[e]
  BY <1>4 DEF Start
<1>5. QED
  BY <1>1, <1>2, <1>3, <1>4 DEF Next, vars, lambdaVars, Send, Forget, Expire,
     DeadLetter, EngagementExpires, Tick

LEMMA PastReplyNext ==
  ASSUME BridgeTypeOK, ControlInv, AnswerInv, [Next]_vars,
         NEW e \in Environments, pc'[e] \in AfterReply \cup {"returned"}
  PROVE  \/ job'[e].n \in answered'[Thread(e)']
         \/ pc'[e] = "returned" /\ Body(e)' \in Unprocessable
<1>1. Running(e) /\ job'[e] = job[e]
  BY WhyPastReply
<1>2. /\ Thread(e)' = Thread(e) /\ Thread(e) \in Threads
      /\ answered[Thread(e)] \subseteq answered'[Thread(e)]
      /\ Body(e)' = Body(e)
  BY <1>1, HeldBody, Grows DEF Thread, Body
<1>3. CASE PostReply(e)
  BY <1>1, <1>2, <1>3 DEF PostReply, BridgeTypeOK
<1>4. QED
  BY <1>1, <1>2, <1>3, WhyPastReply DEF AnswerInv, AfterReply

LEMMA AcknowledgedNext ==
  ASSUME BridgeTypeOK, ControlInv, AnswerInv, [Next]_vars
  PROVE  AcknowledgedIsAnswered'
<1> SUFFICES ASSUME NEW t \in Threads, NEW n \in 1..(head'[t] - 1),
                    n \notin dlq'[t], log'[t][n] \notin Unprocessable
             PROVE  n \in answered'[t]
  BY DEF AcknowledgedIsAnswered
<1>0. /\ head \in [Threads -> Nat] /\ Len(log[t]) \in Nat
      /\ DOMAIN log[t] = 1..Len(log[t]) /\ head[t] <= Len(log[t]) + 1
  BY DEF BridgeTypeOK, QueueTypeOK, ControlInv, QueueInv
<1>1. CASE n < head[t]
  <2>1. n \in 1..(head[t] - 1) /\ n \in DOMAIN log[t]
    BY <1>0, <1>1
  <2>2. n \notin dlq[t] /\ log[t][n] \notin Unprocessable
    BY <2>1, Grows
  <2>3. QED
    BY <2>1, <2>2, Grows DEF AnswerInv, AcknowledgedIsAnswered
<1>2. ASSUME NEW e \in Environments, Acknowledge(e), ~(n < head[t])
      PROVE  n \in answered'[t]
  <2>1. Running(e) /\ pc[e] = "returned"
    BY <1>2 DEF Acknowledge, Running
  <2>2. t = Thread(e) /\ n = head[t]
    BY <1>0, <1>2 DEF Acknowledge, Delete, LeaveQueue
  <2>3. n = job[e].n /\ n \in DOMAIN log[t] /\ Body(e) = log[t][n]
    BY <2>1, <2>2, HeldBody DEF ControlInv, HoldsHead, Body, Thread
  <2>4. Body(e) \notin Unprocessable
    BY <2>3, Grows
  <2>5. QED
    BY <2>1, <2>2, <2>3, <2>4, Grows DEF AnswerInv
<1>3. ASSUME NEW u \in Threads, DeadLetter(u), ~(n < head[t])
      PROVE  FALSE
  <2>1. t = u /\ n = head[t]
    BY <1>0, <1>3 DEF DeadLetter, Redrive, LeaveQueue
  <2>2. QED
    BY <1>3, <2>1 DEF DeadLetter, Redrive, BridgeTypeOK, QueueTypeOK
<1>4. CASE UNCHANGED head
  BY <1>0, <1>1, <1>4
<1>5. QED
  BY <1>1, <1>2, <1>3, <1>4, HandlerSteps
  DEF Next, vars, queueVars, Send, Enqueue, Forget, ForgetDuplicate, Expire,
      BecomeVisible, EngagementExpires, Start, Receive, Crash, Tick, Quiet

LEMMA DoneNext ==
  ASSUME BridgeTypeOK, ControlInv, AnswerInv, [Next]_vars
  PROVE  DoneMeansAnswered'
<1> SUFFICES ASSUME NEW b \in Bodies, Done \in reactions'[b]
             PROVE  \E n \in answered'[threadOf[b]] : log'[threadOf[b]][n] = b
  BY DEF DoneMeansAnswered
<1> USE ThreadOfAssumption
<1>1. CASE Done \in reactions[b]
  <2>1. PICK n \in answered[threadOf[b]] : log[threadOf[b]][n] = b
    BY <1>1 DEF AnswerInv, DoneMeansAnswered
  <2>2. n \in DOMAIN log[threadOf[b]] /\ threadOf[b] \in Threads
    BY DEF AnswerInv
  <2>3. QED
    BY <2>1, <2>2, Grows
<1>2. ASSUME NEW e \in Environments, SwapToDone(e), Done \notin reactions[b]
      PROVE  \E n \in answered'[threadOf[b]] : log'[threadOf[b]][n] = b
  <2>1. Running(e) /\ pc[e] = "doneSwap"
    BY <1>2 DEF SwapToDone, SwapReaction, Running
  <2>2. b = Body(e)
    BY <1>2 DEF SwapToDone, SwapReaction, BridgeTypeOK
  <2>3. /\ threadOf[b] = Thread(e) /\ Thread(e) \in Threads
        /\ job[e].n \in DOMAIN log[Thread(e)]
    BY <2>1, <2>2, HeldBody
  <2>4. job[e].n \in answered[Thread(e)]
    BY <2>1 DEF AnswerInv, AfterReply
  <2>5. QED
    BY <2>2, <2>3, <2>4, Grows DEF Body, Thread
<1>3. ASSUME NEW e \in Environments, SwapToError(e), Done \notin reactions[b]
      PROVE  FALSE
  <2>1. PICK call \in swaps[e] :
          reactions' = [reactions EXCEPT ![Body(e)] = Effect(call, Error, @)]
          \/ UNCHANGED reactions
    BY <1>3 DEF SwapToError, SwapReaction
  <2>2. reactions'[b] = reactions[b] \/ reactions'[b] = Effect(call, Error, reactions[b])
    BY <2>1 DEF BridgeTypeOK
  <2>3. Done # Error
    BY DEF Done, Error
  <2>4. QED
    BY <1>3, <2>2, <2>3 DEF Effect
<1>4. ASSUME NEW e \in Environments, AddThinking(e), Done \notin reactions[b]
      PROVE  FALSE
  <2>1. reactions'[b] = reactions[b] \/ reactions'[b] = reactions[b] \cup {Thinking}
    BY <1>4 DEF AddThinking, BridgeTypeOK
  <2>2. Done # Thinking
    BY DEF Done, Thinking
  <2>3. QED
    BY <1>4, <2>1, <2>2
<1>5. CASE UNCHANGED reactions
  BY <1>1, <1>5
<1>6. QED
  BY <1>1, <1>2, <1>3, <1>4, <1>5
  DEF Next, vars, slackVars, Send, Forget, Expire, DeadLetter,
      EngagementExpires, Start, Crash, Tick, Handler, BeginRecord,
      GetBotTokenFails, InvokeRuntime, RuntimeAnswers, RuntimeFails, PostError,
      PostReply, PostReplyThrows, RecordEngagement, Acknowledge,
      AcknowledgeLost

LEMMA EngagedNext ==
  ASSUME BridgeTypeOK, ControlInv, AnswerInv, [Next]_vars
  PROVE  EngagedOnlyAfterAnswer'
<1> SUFFICES ASSUME NEW t \in engaged' PROVE answered'[t] # {}
  BY DEF EngagedOnlyAfterAnswer
<1>1. CASE t \in engaged
  BY <1>1, Grows DEF AnswerInv, EngagedOnlyAfterAnswer, BridgeTypeOK
<1>2. ASSUME NEW e \in Environments, RecordEngagement(e), t \notin engaged
      PROVE  answered'[t] # {}
  <2>1. t = Thread(e) /\ pc[e] = "engage" /\ answered' = answered
    BY <1>2 DEF RecordEngagement
  <2>2. QED
    BY <2>1 DEF AnswerInv, AfterReply
<1>3. CASE engaged' \subseteq engaged
  BY <1>1, <1>3
<1>4. QED
  BY <1>1, <1>2, <1>3
  DEF Next, vars, slackVars, Send, Forget, Expire, DeadLetter,
      EngagementExpires, Start, Crash, Tick, Handler, BeginRecord,
      GetBotTokenFails, AddThinking, InvokeRuntime, RuntimeAnswers,
      RuntimeFails, SwapToError, SwapToDone, SwapReaction, PostError,
      PostReply, PostReplyThrows, Acknowledge, AcknowledgeLost

LEMMA AnswerCorrect == Spec => []AnswerInv
<1>1. Init => AnswerInv
  BY DEF Init, QueueInit, AnswerInv, AfterReply, AcknowledgedIsAnswered,
     DoneMeansAnswered, EngagedOnlyAfterAnswer
<1>2. BridgeTypeOK /\ ControlInv /\ AnswerInv /\ [Next]_vars => AnswerInv'
  <2> SUFFICES ASSUME BridgeTypeOK, ControlInv, AnswerInv, [Next]_vars
               PROVE  AnswerInv'
    OBVIOUS
  <2>1. \A t \in Threads : \A n \in answered'[t] : n \in DOMAIN log'[t]
    BY AnsweredAccepted
  <2>2. \A e \in Environments :
          /\ pc'[e] \in AfterReply => job'[e].n \in answered'[Thread(e)']
          /\ pc'[e] = "returned" => \/ job'[e].n \in answered'[Thread(e)']
                                    \/ Body(e)' \in Unprocessable
    BY PastReplyNext DEF AfterReply
  <2>3. QED
    BY <2>1, <2>2, AcknowledgedNext, DoneNext, EngagedNext DEF AnswerInv
<1>3. QED
  BY <1>1, <1>2, ControlCorrect, PTL DEF Spec

(***************************************************************************)
(* What left the queue without being dead-lettered was answered, or was    *)
(* nothing the bridge answers.                                             *)
(***************************************************************************)
THEOREM NothingUnanswered == Spec => []AcknowledgedIsAnswered
  BY AnswerCorrect, PTL DEF AnswerInv

(***************************************************************************)
(* A check mark is only ever on a message whose reply post returned.       *)
(***************************************************************************)
THEOREM CheckMarkHonest == Spec => []DoneMeansAnswered
  BY AnswerCorrect, PTL DEF AnswerInv

(***************************************************************************)
(* A thread is engaged only after a reply post returned in it.             *)
(***************************************************************************)
THEOREM EngagementEarned == Spec => []EngagedOnlyAfterAnswer
  BY AnswerCorrect, PTL DEF AnswerInv

-----------------------------------------------------------------------------
(* What the bot shows is about messages it has to answer. *)

BeforePost == BeforeInvoke \cup {"await", "errorSwap", "errorPost", "post"}

SilenceInv ==
  /\ \A e \in Environments : pc[e] \in Working => Body(e) \notin Unprocessable
  /\ SpeaksOfReceived

\* An invocation that works was already, or has just found something to do.
LEMMA WhyWorking ==
  ASSUME BridgeTypeOK, [Next]_vars, NEW e \in Environments, pc'[e] \in Working
  PROVE  /\ Running(e) /\ job'[e] = job[e]
         /\ pc[e] \in Working \/ Body(e) \notin Unprocessable
<1> USE DEF Working, BridgeTypeOK, Running
<1>1. ASSUME NEW f \in Environments, Handler(f), f # e
      PROVE  pc'[e] = pc[e] /\ job'[e] = job[e]
  <2>1. CASE BeginRecord(f) \/ AddThinking(f) \/ InvokeRuntime(f)
              \/ RuntimeAnswers(f) \/ RecordEngagement(f)
    BY <1>1, <2>1 DEF BeginRecord, AddThinking, InvokeRuntime, RuntimeAnswers,
       RecordEngagement, Goto
  <2>2. CASE GetBotTokenFails(f) \/ PostError(f) \/ PostReplyThrows(f)
              \/ Acknowledge(f) \/ AcknowledgeLost(f)
    BY <1>1, <2>2 DEF GetBotTokenFails, PostError, PostReplyThrows, Acknowledge,
       AcknowledgeLost, Finish
  <2>3. CASE RuntimeFails(f) \/ PostReply(f)
    BY <1>1, <2>3 DEF RuntimeFails, PostReply
  <2>4. CASE SwapToError(f)
    BY <1>1, <2>4 DEF SwapToError, SwapReaction
  <2>5. CASE SwapToDone(f)
    BY <1>1, <2>5 DEF SwapToDone, SwapReaction
  <2>6. QED
    BY <1>1, <2>1, <2>2, <2>3, <2>4, <2>5 DEF Handler
<1>2. CASE Handler(e)
  <2>1. CASE BeginRecord(e)
    BY <2>1 DEF BeginRecord, Goto
  <2>2. CASE AddThinking(e) \/ InvokeRuntime(e) \/ RuntimeAnswers(e)
              \/ RuntimeFails(e) \/ PostReply(e)
    BY <2>2 DEF AddThinking, InvokeRuntime, RuntimeAnswers, RuntimeFails,
       PostReply, Goto, PCs
  <2>3. CASE GetBotTokenFails(e) \/ PostError(e) \/ PostReplyThrows(e)
              \/ Acknowledge(e) \/ AcknowledgeLost(e)
    BY <2>3 DEF GetBotTokenFails, PostError, PostReplyThrows, Acknowledge,
       AcknowledgeLost, Finish
  <2>4. CASE SwapToError(e)
    BY <2>4 DEF SwapToError, SwapReaction, PCs
  <2>5. CASE SwapToDone(e)
    BY <2>5 DEF SwapToDone, SwapReaction, PCs
  <2>6. CASE RecordEngagement(e)
    BY <2>6 DEF RecordEngagement, Goto
  <2>7. QED
    BY <1>2, <2>1, <2>2, <2>3, <2>4, <2>5, <2>6 DEF Handler
<1>3. ASSUME NEW f \in Environments, Crash(f)
      PROVE  pc'[e] = pc[e] /\ job'[e] = job[e]
  BY <1>3 DEF Crash, Finish
<1>4. ASSUME NEW f \in Environments, NEW t \in Threads, Start(f, t)
      PROVE  pc'[e] = pc[e] /\ job'[e] = job[e]
  BY <1>4 DEF Start
<1>5. QED
  BY <1>1, <1>2, <1>3, <1>4 DEF Next, vars, lambdaVars, Send, Forget, Expire,
     DeadLetter, EngagementExpires, Tick

LEMMA WorkingNext ==
  ASSUME BridgeTypeOK, ControlInv, SilenceInv, [Next]_vars,
         NEW e \in Environments, pc'[e] \in Working
  PROVE  Body(e)' \notin Unprocessable
<1>1. Running(e) /\ job'[e] = job[e] /\ Body(e) \notin Unprocessable
  BY WhyWorking DEF SilenceInv
<1>2. Body(e)' = Body(e)
  BY <1>1, HeldBody, Grows DEF Thread, Body
<1> QED
  BY <1>1, <1>2

\* Only a working invocation reacts, and on its own message.
LEMMA WhoReacts ==
  ASSUME BridgeTypeOK, [Next]_vars, NEW b \in Bodies, reactions'[b] # reactions[b]
  PROVE  \E e \in Environments : pc[e] \in Working /\ b = Body(e)
<1> USE DEF Working, PCs, BridgeTypeOK
<1>1. ASSUME NEW e \in Environments, AddThinking(e)
      PROVE  pc[e] \in Working /\ b = Body(e)
  BY <1>1 DEF AddThinking
<1>2. ASSUME NEW e \in Environments, SwapToError(e)
      PROVE  pc[e] \in Working /\ b = Body(e)
  BY <1>2 DEF SwapToError, SwapReaction
<1>3. ASSUME NEW e \in Environments, SwapToDone(e)
      PROVE  pc[e] \in Working /\ b = Body(e)
  BY <1>3 DEF SwapToDone, SwapReaction
<1> QED
  BY <1>1, <1>2, <1>3
  DEF Next, vars, slackVars, Send, Forget, Expire, DeadLetter,
      EngagementExpires, Start, Crash, Tick, Handler, BeginRecord,
      GetBotTokenFails, InvokeRuntime, RuntimeAnswers, RuntimeFails, PostError,
      PostReply, PostReplyThrows, RecordEngagement, Acknowledge,
      AcknowledgeLost

LEMMA ReactionsNext ==
  ASSUME BridgeTypeOK, ControlInv, SilenceInv, [Next]_vars,
         NEW b \in Bodies, reactions'[b] # {}
  PROVE  ToAnswer(b)'
<1> USE ThreadOfAssumption
<1>1. ToAnswer(b)
  <2>1. CASE reactions'[b] = reactions[b]
    BY <2>1 DEF SilenceInv, SpeaksOfReceived
  <2>2. CASE reactions'[b] # reactions[b]
    <3>1. PICK e \in Environments : pc[e] \in Working /\ b = Body(e)
      BY <2>2, WhoReacts
    <3>2. /\ b \notin Unprocessable /\ threadOf[b] = Thread(e)
          /\ job[e].n \in DOMAIN log[Thread(e)]
      BY <3>1, HeldBody DEF SilenceInv, Working, Running
    <3> QED
      BY <3>1, <3>2 DEF ToAnswer, Body, Thread
  <2> QED
    BY <2>1, <2>2
<1> QED
  BY <1>1, Grows DEF ToAnswer

\* A step that posts is an invocation's last chance to.
LEMMA WhoPosts ==
  ASSUME BridgeTypeOK, [Next]_vars
  PROVE  \/ UNCHANGED posts
         \/ \E e \in Environments, kind \in {"reply", "error"} :
              /\ Post(e, kind) /\ UNCHANGED <<head, receives>>
              /\ pc[e] \in BeforePost \cap Working /\ pc'[e] \notin BeforePost
              /\ ~\E f \in Environments, t \in Threads : Start(f, t)
<1>1. ASSUME NEW e \in Environments,
             PostError(e) \/ PostReply(e) \/ PostReplyThrows(e)
      PROVE  /\ UNCHANGED posts \/ \E kind \in {"reply", "error"} : Post(e, kind)
             /\ UNCHANGED <<head, receives>>
             /\ pc[e] \in BeforePost \cap Working /\ pc'[e] \notin BeforePost
  BY <1>1 DEF PostError, PostReply, PostReplyThrows, queueVars, Finish, BeforePost,
     BeforeInvoke, Working, PCs, BridgeTypeOK
<1>2. ASSUME NEW f \in Environments, NEW t \in Threads, Start(f, t)
      PROVE  UNCHANGED posts
  BY <1>2 DEF Start, slackVars
<1>3. ASSUME NEW e \in Environments, Handler(e),
             ~(PostError(e) \/ PostReply(e) \/ PostReplyThrows(e))
      PROVE  UNCHANGED posts
  BY <1>3 DEF Handler, BeginRecord, GetBotTokenFails, AddThinking,
     InvokeRuntime, RuntimeAnswers, RuntimeFails, SwapToError, SwapToDone,
     SwapReaction, RecordEngagement, Acknowledge, AcknowledgeLost, slackVars
<1>4. CASE \E e \in Environments : Handler(e)
  BY <1>1, <1>2, <1>3, <1>4
<1>5. CASE ~\E e \in Environments : Handler(e)
  BY <1>5 DEF Next, vars, slackVars, Send, Forget, Expire, DeadLetter,
     EngagementExpires, Start, Crash, Tick
<1>6. QED
  BY <1>4, <1>5

\* A message the bridge has something to say to.
Answerable(t, n) == n \in DOMAIN log[t] /\ log[t][n] \notin Unprocessable

LEMMA PostsNext ==
  ASSUME BridgeTypeOK, ControlInv, SilenceInv, [Next]_vars,
         NEW t \in Threads, NEW i \in DOMAIN posts'[t]
  PROVE  posts'[t][i].n \in DOMAIN log'[t] /\ log'[t][posts'[t][i].n] \notin Unprocessable
<1>1. posts \in [Threads -> Seq(Postings)]
  BY DEF BridgeTypeOK
<1>2. Answerable(t, posts'[t][i].n)
  <2>1. CASE i \in DOMAIN posts[t] /\ posts'[t][i] = posts[t][i]
    BY <2>1 DEF SilenceInv, SpeaksOfReceived, Answerable
  <2>2. CASE UNCHANGED posts
    BY <2>1, <2>2
  <2>3. ASSUME NEW e \in Environments, NEW kind \in {"reply", "error"},
               Post(e, kind), pc[e] \in Working
        PROVE  Answerable(t, posts'[t][i].n)
    <3> DEFINE p == [n |-> job[e].n, kind |-> kind]
    <3>1. /\ Thread(e) \in Threads /\ p \in Postings /\ p.n = job[e].n
          /\ Answerable(Thread(e), job[e].n)
      BY <2>3, HeldBody DEF SilenceInv, Working, Running, Body, Thread, Answerable,
         BridgeTypeOK, Jobs, Postings
    <3>2. posts' = [posts EXCEPT ![Thread(e)] = Append(@, p)]
      BY <2>3 DEF Post
    <3> HIDE DEF p
    <3>3. CASE t # Thread(e)
      BY <1>1, <2>1, <3>2, <3>3
    <3>4. CASE t = Thread(e)
      <4>1. posts[t] \in Seq(Postings) /\ posts'[t] = Append(posts[t], p)
        BY <1>1, <3>2, <3>4
      <4>2. (i \in DOMAIN posts[t] /\ posts'[t][i] = posts[t][i]) \/ posts'[t][i] = p
        BY <3>1, <4>1
      <4> QED
        BY <2>1, <3>1, <3>4, <4>2
    <3> QED
      BY <3>3, <3>4
  <2> QED
    BY <2>2, <2>3, WhoPosts
<1> QED
  BY <1>2, Grows DEF Answerable

LEMMA SilenceCorrect == Spec => []SilenceInv
<1>1. Init => SilenceInv
  BY DEF Init, SilenceInv, SpeaksOfReceived, Working
<1>2. BridgeTypeOK /\ ControlInv /\ SilenceInv /\ [Next]_vars => SilenceInv'
  <2> SUFFICES ASSUME BridgeTypeOK, ControlInv, SilenceInv, [Next]_vars
               PROVE  SilenceInv'
    OBVIOUS
  <2>1. \A e \in Environments : pc'[e] \in Working => Body(e)' \notin Unprocessable
    BY WorkingNext
  <2>2. \A b \in Bodies : reactions'[b] # {} => ToAnswer(b)'
    BY ReactionsNext
  <2>3. \A t \in Threads : \A i \in DOMAIN posts'[t] :
          posts'[t][i].n \in DOMAIN log'[t] /\ log'[t][posts'[t][i].n] \notin Unprocessable
    BY PostsNext
  <2> QED
    BY <2>1, <2>2, <2>3 DEF SilenceInv, SpeaksOfReceived
<1> QED
  BY <1>1, <1>2, ControlCorrect, PTL DEF Spec

(***************************************************************************)
(* The invariant that the runs check holds in every state: it is the       *)
(* conjunction of the parts proved above.                                  *)
(***************************************************************************)
THEOREM BridgeCorrect == Spec => []BridgeInv
<1>1. BridgeTypeOK /\ ControlInv /\ SpeechInv /\ InvokeInv /\ AnswerInv /\ SilenceInv
        => BridgeInv
  BY DEF BridgeInv, SpeechInv, InvokeInv, AnswerInv, SilenceInv, AfterReply, ProgressInv,
     NoSpeechAhead
<1>2. QED
  BY <1>1, ControlCorrect, SpeechCorrect, InvokeCorrect, AnswerCorrect, SilenceCorrect, PTL

-----------------------------------------------------------------------------
(* Posts are bounded by receives. *)

PostsOn(ps, n) == {i \in DOMAIN ps : ps[i].n = n}
Count(ps, n) == Cardinality(PostsOn(ps, n))

\* Each receive of the head has posted at most once, and an invocation that may
\* still post has not.
CountInv ==
  /\ \A t \in Threads : \A n \in Nat :
       IsFiniteSet(PostsOn(posts[t], n)) /\ Count(posts[t], n) <= MaxReceiveCount
  /\ \A t \in Threads : Count(posts[t], head[t]) <= receives[t]
  /\ \A e \in Environments :
       pc[e] \in BeforePost => Count(posts[Thread(e)], head[Thread(e)]) < receives[Thread(e)]

\* A post counts for its own message only.
LEMMA PostCounted ==
  ASSUME BridgeTypeOK, NEW u \in Threads, NEW p \in Postings,
         posts' = [posts EXCEPT ![u] = Append(@, p)],
         NEW t \in Threads, NEW n \in Nat, IsFiniteSet(PostsOn(posts[t], n))
  PROVE  /\ IsFiniteSet(PostsOn(posts'[t], n))
         /\ Count(posts'[t], n) = IF t = u /\ n = p.n THEN Count(posts[t], n) + 1 ELSE Count(posts[t], n)
<1>1. posts \in [Threads -> Seq(Postings)]
  BY DEF BridgeTypeOK
<1>2. CASE t # u
  BY <1>1, <1>2 DEF PostsOn, Count
<1>3. CASE t = u
  <2> DEFINE k == Len(posts[t]) + 1
  <2>1. posts'[t] = Append(posts[t], p) /\ posts[t] \in Seq(Postings)
    BY <1>1, <1>3
  <2>2. /\ DOMAIN posts[t] = 1 .. k - 1 /\ DOMAIN posts'[t] = 1 .. k /\ k \in Nat \ {0}
        /\ posts'[t][k] = p /\ \A i \in 1 .. k - 1 : posts'[t][i] = posts[t][i]
    BY <2>1
  <2> HIDE DEF k
  <2>3. k \notin PostsOn(posts[t], n)
    BY <2>2 DEF PostsOn
  <2>4. CASE n = p.n
    <3>1. PostsOn(posts'[t], n) = PostsOn(posts[t], n) \cup {k}
      BY <2>2, <2>4 DEF PostsOn
    <3>2. /\ IsFiniteSet(PostsOn(posts[t], n) \cup {k})
          /\ Cardinality(PostsOn(posts[t], n) \cup {k}) = Cardinality(PostsOn(posts[t], n)) + 1
      BY <2>3, FS_AddElement
    <3>3. QED
      BY <1>3, <2>4, <3>1, <3>2 DEF Count
  <2>5. CASE n # p.n
    <3>1. PostsOn(posts'[t], n) = PostsOn(posts[t], n)
      BY <2>2, <2>5 DEF PostsOn
    <3>2. QED
      BY <1>3, <2>5, <3>1 DEF Count
  <2>6. QED
    BY <2>4, <2>5
<1>4. QED
  BY <1>2, <1>3

\* An environment before its post either was there or just started.
LEMMA StillBeforePost ==
  ASSUME BridgeTypeOK, [Next]_vars, NEW e \in Environments,
         pc'[e] \in BeforePost
  PROVE  \/ pc[e] \in BeforePost /\ job'[e] = job[e]
         \/ \E t \in Threads : Start(e, t)
<1> USE DEF BeforePost, BeforeInvoke, BridgeTypeOK
<1>1. ASSUME NEW f \in Environments, Handler(f)
      PROVE  pc[e] \in BeforePost /\ job'[e] = job[e]
  <2>1. CASE BeginRecord(f) \/ AddThinking(f) \/ InvokeRuntime(f)
              \/ RuntimeAnswers(f) \/ RecordEngagement(f)
    BY <2>1 DEF BeginRecord, AddThinking, InvokeRuntime, RuntimeAnswers,
       RecordEngagement, Goto
  <2>2. CASE GetBotTokenFails(f) \/ PostError(f) \/ PostReplyThrows(f)
              \/ Acknowledge(f) \/ AcknowledgeLost(f)
    BY <2>2 DEF GetBotTokenFails, PostError, PostReplyThrows, Acknowledge,
       AcknowledgeLost, Finish
  <2>3. CASE RuntimeFails(f) \/ PostReply(f)
    BY <2>3 DEF RuntimeFails, PostReply
  <2>4. CASE SwapToError(f)
    BY <2>4 DEF SwapToError, SwapReaction
  <2>5. CASE SwapToDone(f)
    BY <2>5 DEF SwapToDone, SwapReaction
  <2>6. QED
    BY <1>1, <2>1, <2>2, <2>3, <2>4, <2>5 DEF Handler
<1>2. ASSUME NEW f \in Environments, Crash(f)
      PROVE  pc[e] \in BeforePost /\ job'[e] = job[e]
  BY <1>2 DEF Crash, Finish
<1>3. ASSUME NEW f \in Environments, NEW t \in Threads, Start(f, t)
      PROVE  f = e \/ (pc[e] \in BeforePost /\ job'[e] = job[e])
  BY <1>3 DEF Start
<1>4. QED
  BY <1>1, <1>2, <1>3 DEF Next, vars, lambdaVars, Send, Forget, Expire,
     DeadLetter, EngagementExpires, Tick

LEMMA CountNext ==
  BridgeTypeOK /\ ControlInv /\ SpeechInv /\ CountInv /\ [Next]_vars => CountInv'
<1> SUFFICES ASSUME BridgeTypeOK, ControlInv, SpeechInv, CountInv, [Next]_vars
             PROVE  CountInv'
  OBVIOUS
<1>0. /\ head \in [Threads -> Nat] /\ receives \in [Threads -> 0 .. MaxReceiveCount]
      /\ head' \in [Threads -> Nat] /\ pc \in [Environments -> PCs]
      /\ posts \in [Threads -> Seq(Postings)] /\ MaxReceiveCount \in Nat
      /\ \A e \in Environments : Thread(e) \in Threads
  BY TypeNext, QueueConfigAssumption DEF BridgeTypeOK, QueueTypeOK, Jobs, Thread
<1>1. \A t \in Threads : \A n \in Nat : IsFiniteSet(PostsOn(posts[t], n)) /\ Count(posts[t], n) \in Nat
  BY FS_CardinalityType DEF CountInv, Count
<1>2. \A t \in Threads : Count(posts[t], head[t] + 1) = 0
  <2> SUFFICES ASSUME NEW t \in Threads PROVE Count(posts[t], head[t] + 1) = 0
    OBVIOUS
  <2>1. \A i \in DOMAIN posts[t] : posts[t][i].n <= head[t] /\ head[t] \in Nat
    BY <1>0 DEF SpeechInv
  <2>2. PostsOn(posts[t], head[t] + 1) = {}
    BY <2>1 DEF PostsOn
  <2>3. QED
    BY <2>2, FS_EmptySet DEF Count
<1>3. CASE ~UNCHANGED posts
  <2>1. PICK e \in Environments, kind \in {"reply", "error"} :
          /\ Post(e, kind) /\ UNCHANGED <<head, receives>>
          /\ pc[e] \in BeforePost /\ pc'[e] \notin BeforePost
          /\ ~\E f \in Environments, t \in Threads : Start(f, t)
    BY <1>3, WhoPosts
  <2> DEFINE u == Thread(e)
             p == [n |-> job[e].n, kind |-> kind]
  <2>2. p \in Postings /\ u \in Threads /\ posts' = [posts EXCEPT ![u] = Append(@, p)]
    BY <1>0, <2>1 DEF BridgeTypeOK, Jobs, Postings, Post
  <2>3. p.n = head[u]
    BY <2>1 DEF ControlInv, HoldsHead, Running, BeforePost, BeforeInvoke
  <2>4. Count(posts[u], head[u]) < receives[u]
    BY <2>1 DEF CountInv
  <2>5. \A f \in Environments : pc'[f] \in BeforePost =>
          pc[f] \in BeforePost /\ Thread(f)' = Thread(f) /\ Thread(f) # u
    BY <2>1, StillBeforePost
    DEF ControlInv, OneBridgePerThread, Running, BeforePost, BeforeInvoke, Thread
  <2> HIDE DEF u, p
  <2>6. \A t \in Threads : \A n \in Nat :
          /\ IsFiniteSet(PostsOn(posts'[t], n))
          /\ Count(posts'[t], n) = IF t = u /\ n = head[u] THEN Count(posts[t], n) + 1 ELSE Count(posts[t], n)
    <3>1. TAKE t \in Threads, n \in Nat
    <3>2. IsFiniteSet(PostsOn(posts[t], n))
      BY <1>1
    <3>3. /\ IsFiniteSet(PostsOn(posts'[t], n))
          /\ Count(posts'[t], n) = IF t = u /\ n = p.n THEN Count(posts[t], n) + 1 ELSE Count(posts[t], n)
      BY <2>2, <3>2, PostCounted
    <3>4. QED
      BY <2>3, <3>3
  <2>7. \A t \in Threads : head'[t] = head[t] /\ receives'[t] = receives[t]
    BY <2>1
  <2>8. \A t \in Threads : Count(posts'[t], head[t]) <= receives[t]
    <3>1. TAKE t \in Threads
    <3>2. head[t] \in Nat /\ receives[t] \in Nat /\ Count(posts[t], head[t]) \in Nat
      BY <1>0, <1>1
    <3>3. CASE t = u
      BY <2>2, <2>4, <2>6, <3>2, <3>3
    <3>4. CASE t # u
      BY <2>6, <3>2, <3>4 DEF CountInv
    <3>5. QED
      BY <3>3, <3>4
  <2>9. \A t \in Threads : \A n \in Nat : Count(posts'[t], n) <= MaxReceiveCount
    <3>1. TAKE t \in Threads, n \in Nat
    <3>2. /\ receives[t] \in 0 .. MaxReceiveCount /\ Count(posts[t], n) \in Nat
          /\ Count(posts[t], n) <= MaxReceiveCount
      BY <1>0, <1>1 DEF CountInv
    <3>3. CASE t = u /\ n = head[u]
      <4>1. Count(posts'[t], n) = Count(posts[t], n) + 1
        BY <2>6, <3>3
      <4>2. Count(posts'[t], n) <= receives[t]
        BY <2>8, <3>3
      <4>3. QED
        BY <1>0, <3>2, <4>1, <4>2
    <3>4. CASE ~(t = u /\ n = head[u])
      BY <2>6, <3>2, <3>4
    <3>5. QED
      BY <3>3, <3>4
  <2>10. \A f \in Environments : pc'[f] \in BeforePost =>
           Count(posts'[Thread(f)'], head'[Thread(f)']) < receives'[Thread(f)']
    <3> SUFFICES ASSUME NEW f \in Environments, pc'[f] \in BeforePost
                 PROVE  Count(posts'[Thread(f)'], head'[Thread(f)']) < receives'[Thread(f)']
      OBVIOUS
    <3>1. /\ pc[f] \in BeforePost /\ Thread(f)' = Thread(f) /\ Thread(f) # u
          /\ Thread(f) \in Threads /\ head[Thread(f)] \in Nat
      BY <1>0, <2>5
    <3>2. Count(posts[Thread(f)], head[Thread(f)]) < receives[Thread(f)]
      BY <3>1 DEF CountInv
    <3>3. Count(posts'[Thread(f)], head[Thread(f)]) = Count(posts[Thread(f)], head[Thread(f)])
      BY <2>6, <3>1
    <3>4. QED
      BY <2>7, <3>1, <3>2, <3>3
  <2>11. QED
    BY <2>6, <2>7, <2>8, <2>9, <2>10 DEF CountInv
<1>4. CASE UNCHANGED posts
  <2>0. \A t \in Threads : \A n \in Nat :
          IsFiniteSet(PostsOn(posts'[t], n)) /\ Count(posts'[t], n) <= MaxReceiveCount
    BY <1>4 DEF CountInv
  <2>1. ASSUME NEW t \in Threads, DeadLetter(t) PROVE CountInv'
    <3>1. \A e \in Environments : Running(e) => Thread(e) # t
      BY <2>1, NobodyRuns DEF DeadLetter, Redrive, Receivable
    <3>2. /\ head' = [head EXCEPT ![t] = @ + 1]
          /\ receives' = [receives EXCEPT ![t] = 0]
          /\ UNCHANGED <<pc, job>>
      BY <2>1 DEF DeadLetter, Redrive, LeaveQueue, lambdaVars
    <3>3. QED
      BY <1>0, <1>2, <1>4, <2>0, <3>1, <3>2 DEF CountInv, BeforePost, BeforeInvoke, Running, Thread
  <2>2. ASSUME NEW f \in Environments, Acknowledge(f) PROVE CountInv'
    <3>1. /\ head' = [head EXCEPT ![Thread(f)] = @ + 1]
          /\ receives' = [receives EXCEPT ![Thread(f)] = 0]
          /\ Running(f) /\ pc' = [pc EXCEPT ![f] = "idle"]
          /\ job' = [job EXCEPT ![f] = NoJob]
      BY <2>2 DEF Acknowledge, Delete, LeaveQueue, Finish, Running
    <3>2. \A e \in Environments : pc'[e] \in BeforePost =>
            pc[e] \in BeforePost /\ job'[e] = job[e] /\ Thread(e) # Thread(f)
      BY <1>0, <3>1 DEF BeforePost, BeforeInvoke, Running, ControlInv, OneBridgePerThread, BridgeTypeOK
    <3>3. QED
      BY <1>0, <1>2, <1>4, <2>0, <3>1, <3>2 DEF CountInv, Thread
  <2>3. ASSUME NEW f \in Environments, NEW t \in Threads, Start(f, t) PROVE CountInv'
    <3>1. /\ receives' = [receives EXCEPT ![t] = @ + 1] /\ UNCHANGED head
          /\ \A e \in Environments \ {f} : pc'[e] = pc[e] /\ job'[e] = job[e]
          /\ job'[f].thread = t
      BY <2>3 DEF Start, Receive, BridgeTypeOK
    <3>2. \A u \in Threads : Count(posts[u], head[u]) \in Nat
      BY <1>0, <1>1
    <3>3. t \in Threads /\ receives \in [Threads -> Nat] /\ receives'[t] = receives[t] + 1
      BY <1>0, <3>1
    <3>4. \A u \in Threads : u # t => receives'[u] = receives[u]
      BY <1>0, <3>1
    <3>5. \A u \in Threads : receives[u] \in Nat /\ Count(posts[u], head[u]) <= receives[u]
      BY <3>3 DEF CountInv
    <3>6. \A u \in Threads : Count(posts'[u], head'[u]) <= receives'[u]
      BY <1>4, <3>1, <3>2, <3>3, <3>4, <3>5
    <3>7. Count(posts'[t], head'[t]) < receives'[t]
      BY <1>4, <3>1, <3>2, <3>3, <3>5
    <3>8. \A e \in Environments : pc'[e] \in BeforePost =>
            Count(posts'[Thread(e)'], head'[Thread(e)']) < receives'[Thread(e)']
      <4> SUFFICES ASSUME NEW e \in Environments, pc'[e] \in BeforePost
                   PROVE  Count(posts'[Thread(e)'], head'[Thread(e)']) < receives'[Thread(e)']
        OBVIOUS
      <4>1. CASE Thread(e)' = t
        BY <3>7, <4>1
      <4>2. CASE Thread(e)' # t
        <5>1. e # f /\ pc[e] \in BeforePost /\ Thread(e)' = Thread(e) /\ Thread(e) \in Threads
          BY <1>0, <3>1, <4>2 DEF Thread
        <5>2. Count(posts[Thread(e)], head[Thread(e)]) < receives[Thread(e)]
          BY <5>1 DEF CountInv
        <5>3. receives'[Thread(e)] = receives[Thread(e)]
          BY <3>4, <4>2, <5>1
        <5>4. QED
          BY <1>4, <3>1, <5>1, <5>2, <5>3
      <4>3. QED
        BY <4>1, <4>2
    <3>9. QED
      BY <2>0, <3>6, <3>8 DEF CountInv
  <2>4. CASE UNCHANGED <<head, receives>> /\ ~\E e \in Environments, t \in Threads : Start(e, t)
    <3>1. \A e \in Environments : pc'[e] \in BeforePost => pc[e] \in BeforePost /\ job'[e] = job[e]
      BY <2>4, StillBeforePost
    <3>2. QED
      BY <1>4, <2>0, <2>4, <3>1 DEF CountInv, Thread
  <2>5. ASSUME NEW f \in Environments, Handler(f)
        PROVE  Acknowledge(f) \/ UNCHANGED <<head, receives>>
    BY <2>5, HandlerSteps DEF queueVars, Quiet
  <2>6. QED
    BY <2>1, <2>2, <2>3, <2>4, <2>5
    DEF Next, vars, queueVars, Send, Enqueue, Forget, ForgetDuplicate, Expire,
        BecomeVisible, EngagementExpires, Crash, Tick
<1>5. QED
  BY <1>3, <1>4

LEMMA CountInit == Init => CountInv
<1> SUFFICES ASSUME Init PROVE CountInv
  OBVIOUS
<1>1. \A t \in Threads : \A n \in Nat : PostsOn(posts[t], n) = {}
  BY DEF Init, PostsOn
<1>2. \A t \in Threads : \A n \in Nat : IsFiniteSet(PostsOn(posts[t], n)) /\ Count(posts[t], n) = 0
  BY <1>1, FS_EmptySet DEF Count
<1>3. /\ MaxReceiveCount \in Nat /\ head = [t \in Threads |-> 1]
      /\ receives = [t \in Threads |-> 0] /\ \A e \in Environments : pc[e] = "idle"
  BY QueueConfigAssumption DEF Init, QueueInit
<1>4. QED
  BY <1>2, <1>3 DEF CountInv, BeforePost, BeforeInvoke

(***************************************************************************)
(* A user sees at most maxReceiveCount posts about one message, whatever   *)
(* is retried, redelivered or lost (platform-stack.ts:76, bridge           *)
(* index.ts:70-205).                                                       *)
(***************************************************************************)
THEOREM PostsAreBounded == Spec => []PostsBounded
<1>1. BridgeTypeOK /\ CountInv => PostsBounded
  <2> SUFFICES ASSUME BridgeTypeOK, CountInv, NEW t \in Threads, NEW n \in 1..Len(log[t])
               PROVE  Cardinality({i \in DOMAIN posts[t] : posts[t][i].n = n}) <= MaxReceiveCount
    BY DEF PostsBounded
  <2>1. n \in Nat
    BY DEF BridgeTypeOK, QueueTypeOK
  <2>2. QED
    BY <2>1 DEF CountInv, Count, PostsOn
<1>2. QED
  BY <1>1, CountInit, CountNext, ControlCorrect, SpeechCorrect, PTL DEF Spec
-----------------------------------------------------------------------------
(* The bridge implements the safety of ThreadReplies. *)

\* What the bot spoke about, as the refinement mapping has it.
Spoken(ps) == [i \in DOMAIN ps |-> ps[i].n]

LEMMA SpokenAppend ==
  ASSUME NEW ps \in Seq(Postings), NEW p \in Postings
  PROVE  Spoken(Append(ps, p)) = Append(Spoken(ps), p.n)
<1>1. Spoken(ps) \in Seq(Nat) /\ Len(Spoken(ps)) = Len(ps)
  <2>1. DOMAIN ps = 1 .. Len(ps) /\ Len(ps) \in Nat
    OBVIOUS
  <2>2. \A i \in 1 .. Len(ps) : ps[i].n \in Nat
    <3>1. \A i \in 1 .. Len(ps) : ps[i] \in Postings
      OBVIOUS
    <3>2. QED
      BY <3>1 DEF Postings
  <2>3. Spoken(ps) \in [1 .. Len(ps) -> Nat]
    BY <2>1, <2>2 DEF Spoken
  <2>4. QED
    BY <2>1, <2>3
<1>2. /\ DOMAIN Append(ps, p) = 1 .. Len(ps) + 1
      /\ \A i \in 1 .. Len(ps) + 1 :
           Append(ps, p)[i] = IF i = Len(ps) + 1 THEN p ELSE ps[i]
  OBVIOUS
<1>3. Append(Spoken(ps), p.n) =
        [i \in 1 .. Len(ps) + 1 |-> IF i = Len(ps) + 1 THEN p.n ELSE ps[i].n]
  <2>1. p.n \in Nat
    BY DEF Postings
  <2>2. Append(Spoken(ps), p.n) =
          [i \in 1 .. Len(ps) + 1 |-> IF i = Len(ps) + 1 THEN p.n ELSE Spoken(ps)[i]]
    BY <1>1, <2>1
  <2>3. QED
    BY <2>2 DEF Spoken
<1>4. QED
  BY <1>2, <1>3 DEF Spoken

\* ThreadReplies counts as this module does.
LEMMA SameCardinality == \A S : Replies!Cardinality(S) = Cardinality(S)
BY DEF Replies!Cardinality, Cardinality

\* A post is a speech about the question that has its turn, and one of few.
LEMMA PostSpeaks ==
  ASSUME BridgeTypeOK, ControlInv, CountInv, [Next]_vars, NEW e \in Environments,
         NEW kind \in {"reply", "error"}, Post(e, kind), pc[e] \in BeforePost,
         UNCHANGED <<log, head>>, NEW t \in Threads, t = Thread(e)
  PROVE  Replies!Speak(t)
<1> DEFINE p == [n |-> job[e].n, kind |-> kind]
<1>1. /\ t \in Threads /\ p \in Postings /\ posts \in [Threads -> Seq(Postings)]
      /\ posts' = [posts EXCEPT ![t] = Append(@, p)]
      /\ head[t] \in Nat /\ receives[t] \in 0 .. MaxReceiveCount /\ MaxReceiveCount \in Nat
  BY QueueConfigAssumption DEF BridgeTypeOK, QueueTypeOK, Jobs, Postings, Post, Thread
<1>2. Running(e) /\ HoldsHead(e) /\ elapsed[e] \in Nat
  BY TimeoutAssumption DEF ControlInv, BeforePost, BeforeInvoke, Running, BridgeTypeOK
<1>3. p.n = head[t] /\ head[t] <= Len(log[t])
  BY <1>1, <1>2 DEF HoldsHead, ControlInv, QueueInv, Visible
<1> HIDE DEF p
<1>4. [u \in Threads |-> Spoken(posts'[u])] =
        [[u \in Threads |-> Spoken(posts[u])] EXCEPT ![t] = Append(@, head[t])]
  <2>1. Spoken(posts'[t]) = Append(Spoken(posts[t]), head[t])
    BY <1>1, <1>3, SpokenAppend
  <2>2. \A u \in Threads : u # t => posts'[u] = posts[u]
    BY <1>1
  <2>3. QED
    BY <1>1, <2>1, <2>2
<1>5. Count(posts[t], head[t]) < MaxReceiveCount
  <2>1. Count(posts[t], head[t]) < receives[t]
    BY DEF CountInv
  <2>2. Count(posts[t], head[t]) \in Nat
    BY <1>1, FS_CardinalityType DEF CountInv, Count
  <2>3. QED
    BY <1>1, <2>1, <2>2
<1>6. {i \in DOMAIN Spoken(posts[t]) : Spoken(posts[t])[i] = head[t]} = PostsOn(posts[t], head[t])
  BY DEF Spoken, PostsOn
<1>7. Cardinality({i \in DOMAIN Spoken(posts[t]) : Spoken(posts[t])[i] = head[t]}) < MaxReceiveCount
  BY <1>5, <1>6 DEF Count
<1>8. Replies!Open(t)
  BY <1>3 DEF Replies!Open
<1>9. Replies!SpeechesAbout(t, head[t]) < MaxReceiveCount
  <2> DEFINE tr == [u \in Threads |-> Spoken(posts[u])]
  <2>1. tr[t] = Spoken(posts[t])
    BY <1>1
  <2>2. Replies!SpeechesAbout(t, head[t]) =
          Replies!Cardinality({i \in DOMAIN tr[t] : tr[t][i] = head[t]})
    BY DEF Replies!SpeechesAbout, Spoken
  <2>3. QED
    BY <1>7, <2>1, <2>2, SameCardinality
<1>10. QED
  BY <1>1, <1>4, <1>8, <1>9 DEF Replies!Speak, Spoken

\* Posting leaves the log alone.
LEMMA PostsLeaveLog ==
  ASSUME [Next]_vars, ~UNCHANGED posts PROVE UNCHANGED log
BY DEF Next, vars, queueVars, slackVars, Send, Forget, Expire, DeadLetter,
   EngagementExpires, Start, Crash, Tick, Handler, BeginRecord, GetBotTokenFails,
   AddThinking, InvokeRuntime, RuntimeAnswers, RuntimeFails, SwapToError, SwapToDone,
   SwapReaction, PostError, PostReply, PostReplyThrows, RecordEngagement, Acknowledge,
   AcknowledgeLost

\* Every step of the bridge is a step of the conversation, or changes nothing in it.
LEMMA RepliesNext ==
  BridgeTypeOK /\ ControlInv /\ CountInv /\ [Next]_vars => [Replies!Next]_(Replies!vars)
<1> SUFFICES ASSUME BridgeTypeOK, ControlInv, CountInv, [Next]_vars
             PROVE  [Replies!Next]_(Replies!vars)
  OBVIOUS
<1>0. /\ \A t \in Threads : head[t] \in Nat /\ log[t] \in Seq(Bodies)
      /\ \A t \in Threads : age[t] # Visible => head[t] <= Len(log[t])
  BY DEF BridgeTypeOK, QueueTypeOK, ControlInv, QueueInv
<1>1. ASSUME NEW b \in Bodies, Send(b) PROVE Replies!Ask(b)
  BY <1>1 DEF Send, Enqueue, slackVars, Replies!Ask
<1>2. ASSUME NEW t \in Threads, DeadLetter(t) PROVE Replies!PassTurn(t)
  BY <1>2 DEF DeadLetter, Redrive, LeaveQueue, Receivable, HasMessage, slackVars,
     Replies!PassTurn, Replies!Open
<1>3. ASSUME NEW e \in Environments, Acknowledge(e)
      PROVE  Thread(e) \in Threads /\ Replies!PassTurn(Thread(e))
  <2>1. Thread(e) \in Threads
    BY DEF BridgeTypeOK, Jobs, Thread
  <2>2. head[Thread(e)] <= Len(log[Thread(e)])
    BY <1>0, <1>3, <2>1 DEF Acknowledge, Delete, HandleValid
  <2>3. QED
    BY <1>3, <2>1, <2>2 DEF Acknowledge, Delete, LeaveQueue, slackVars,
       Replies!PassTurn, Replies!Open
<1>4. CASE ~UNCHANGED posts
  <2>1. PICK e \in Environments, kind \in {"reply", "error"} :
          Post(e, kind) /\ UNCHANGED head /\ pc[e] \in BeforePost
    BY <1>4, WhoPosts
  <2>2. UNCHANGED log
    BY <1>4, PostsLeaveLog
  <2>3. PICK t \in Threads : t = Thread(e)
    BY DEF BridgeTypeOK, Jobs, Thread
  <2>4. Replies!Speak(t)
    BY <2>1, <2>2, <2>3, PostSpeaks
  <2>5. QED
    BY <2>4 DEF Replies!Next
<1>5. CASE UNCHANGED <<log, head, posts>>
  BY <1>5 DEF Replies!vars
<1>6. ASSUME NEW e \in Environments, Handler(e)
      PROVE  Acknowledge(e) \/ UNCHANGED <<log, head>>
  BY <1>6, HandlerSteps DEF queueVars, Quiet
<1>7. CASE UNCHANGED posts
  <2>1. \/ UNCHANGED <<log, head>>
        \/ \E b \in Bodies : Send(b)
        \/ \E t \in Threads : DeadLetter(t)
        \/ \E e \in Environments : Acknowledge(e)
    BY <1>6 DEF Next, vars, queueVars, Forget, ForgetDuplicate, Expire, BecomeVisible,
       EngagementExpires, Start, Receive, Crash, Tick
  <2>2. QED
    BY <1>1, <1>2, <1>3, <1>5, <1>7, <2>1 DEF Replies!Next
<1>8. QED
  BY <1>4, <1>7

(***************************************************************************)
(* Crashes, retries, duplicates and time included, what the bridge says in *)
(* a thread is the conversation of ThreadReplies: one question at a time,  *)
(* in order, spoken about at most maxReceiveCount times                    *)
(* (platform-stack.ts:71-77, bridge index.ts:149-165).                     *)
(***************************************************************************)
THEOREM RepliesAreSafe == Spec => Replies!Safety
<1>1. Init => Replies!Init
  BY DEF Init, QueueInit, Replies!Init
<1>2. Spec => []CountInv
  BY CountInit, CountNext, ControlCorrect, SpeechCorrect, PTL DEF Spec
<1>3. QED
  BY <1>1, <1>2, RepliesNext, ControlCorrect, PTL DEF Spec, Replies!Safety
=============================================================================
