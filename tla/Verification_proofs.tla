------------------------- MODULE Verification_proofs -------------------------
(* Safety of the verification Lambda, for every value of the constants. *)
EXTENDS Verification, TLAPS

LEMMA EventFacts ==
  ASSUME NEW b \in Bodies
  PROVE  /\ event[b] \in Event
         /\ event[b].user \in Users /\ event[b].channel \in Channels
         /\ event[b].user \in Entities /\ event[b].channel \in Entities
         /\ threadOf[b] \in Threads
         /\ FirstStop(b) \in PCs /\ Gate(b) \in {"send", "allowlist"}
<1>1. event[b] \in Event
  BY EventAssumption
<1>2. QED
  BY <1>1, ThreadOfAssumption DEF Event, FirstStop, Gate, PCs, Entities

-----------------------------------------------------------------------------
(* Type correctness *)

LEMMA InitTyped == Init => VerificationTypeOK
<1> SUFFICES ASSUME Init PROVE VerificationTypeOK
  OBVIOUS
<1>1. QueueTypeOK
  BY QueueConfigAssumption DEF Init, QueueInit, QueueTypeOK, Visible
<1>2. (CHOOSE b \in Bodies : TRUE) \in Bodies
  BY BodiesAssumption, Zenon
<1>3. body \in [Handlers -> Bodies]
  BY <1>2 DEF Init
<1>4. pc \in [Handlers -> PCs] /\ deliveries \in [Bodies -> 0..MaxDeliveries]
  BY MaxDeliveriesAssumption DEF Init, PCs
<1>5. QED
  BY <1>1, <1>3, <1>4 DEF Init, VerificationTypeOK

LEMMA EnqueueTyped ==
  ASSUME QueueTypeOK, NEW b \in Bodies, Enqueue(b)
  PROVE  QueueTypeOK'
<1>1. threadOf[b] \in Threads
  BY ThreadOfAssumption
<1>2. log' \in [Threads -> Seq(Bodies)] /\ recent' \in SUBSET Bodies
  BY <1>1 DEF QueueTypeOK, Enqueue
<1>3. UNCHANGED <<head, receives, age, dlq>>
  BY DEF Enqueue
<1>4. QED
  BY <1>2, <1>3 DEF QueueTypeOK

LEMMA HandlerTyped ==
  ASSUME VerificationTypeOK, NEW h \in Handlers, Handler(h)
  PROVE  VerificationTypeOK'
<1>1. body[h] \in Bodies
  BY DEF VerificationTypeOK
<1>2. ASSUME UNCHANGED queueVars PROVE QueueTypeOK'
  BY <1>2 DEF VerificationTypeOK, QueueTypeOK, queueVars
<1>3. CASE \E b \in Bodies : Deliver(h, b)
  <2>1. PICK b \in Bodies : Deliver(h, b)
    BY <1>3
  <2>2. QueueTypeOK'
    BY <1>2, <2>1 DEF Deliver
  <2>3. deliveries' \in [Bodies -> 0..MaxDeliveries]
    BY <2>1, MaxDeliveriesAssumption DEF Deliver, VerificationTypeOK
  <2>4. QED
    BY <2>1, <2>2, <2>3, EventFacts
    DEF Deliver, VerificationTypeOK, MayAck, tableVars
<1>4. CASE Drop(h) \/ Fail(h)
  <2>1. QueueTypeOK'
    BY <1>2, <1>4 DEF Drop, Fail
  <2>2. QED
    BY <1>1, <1>4, <2>1
    DEF Drop, Fail, Finish, MayAck, VerificationTypeOK, PCs, tableVars
<1>5. ASSUME NEW place \in PCs, Advance(h, place),
             reads' \in [Handlers -> SUBSET Entities]
      PROVE  VerificationTypeOK'
  <2>1. QueueTypeOK'
    BY <1>2, <1>5 DEF Advance
  <2>2. QED
    BY <1>5, <2>1 DEF Advance, VerificationTypeOK, tableVars
<1>6. CASE GetEngagement(h) \/ Classify(h)
  BY <1>1, <1>4, <1>5, <1>6, EventFacts
  DEF GetEngagement, Classify, PCs, VerificationTypeOK
<1>7. CASE ReadAllowlist(h)
  BY <1>4, <1>5, <1>7 DEF ReadAllowlist, PCs, VerificationTypeOK
<1>8. CASE SendMessage(h)
  <2>1. QueueTypeOK'
    BY <1>1, <1>2, <1>8, EnqueueTyped DEF SendMessage, VerificationTypeOK
  <2>2. QED
    BY <1>1, <1>8, <2>1
    DEF SendMessage, Finish, MayAck, VerificationTypeOK, PCs, tableVars
<1>9. QED
  BY <1>3, <1>4, <1>6, <1>7, <1>8 DEF Handler

LEMMA TablesTyped ==
  ASSUME VerificationTypeOK, Tables
  PROVE  VerificationTypeOK'
<1>1. QueueTypeOK'
  BY DEF Tables, Allow, Disallow, RecordEngagement, ItemExpires, TtlDelete,
     CatchUp, queueVars, VerificationTypeOK, QueueTypeOK
<1>2. ASSUME NEW x \in Managed, Allow(x) PROVE VerificationTypeOK'
  <2>1. x \in Entities
    BY EntityAssumption DEF Entities
  <2>2. QED
    BY <1>1, <1>2, <2>1 DEF Allow, VerificationTypeOK
<1>3. ASSUME NEW x \in Managed, Disallow(x) PROVE VerificationTypeOK'
  BY <1>1, <1>3 DEF Disallow, VerificationTypeOK, handlerVars
<1>4. ASSUME NEW t \in Threads,
             RecordEngagement(t) \/ ItemExpires(t) \/ TtlDelete(t)
      PROVE  VerificationTypeOK'
  BY <1>1, <1>4 DEF RecordEngagement, ItemExpires, TtlDelete,
     VerificationTypeOK, handlerVars
<1>5. ASSUME NEW x \in Entities \cup Threads, CatchUp(x)
      PROVE  VerificationTypeOK'
  BY <1>1, <1>5 DEF CatchUp, VerificationTypeOK, handlerVars
<1>6. QED
  BY <1>2, <1>3, <1>4, <1>5 DEF Tables

LEMMA NextTyped ==
  ASSUME VerificationTypeOK, [Next]_vars
  PROVE  VerificationTypeOK'
<1>1. CASE \E b \in Bodies : Forget(b)
  BY <1>1 DEF Forget, ForgetDuplicate, VerificationTypeOK, QueueTypeOK,
     handlerVars, tableVars
<1>2. CASE UNCHANGED vars
  BY <1>2 DEF vars, queueVars, handlerVars, tableVars, VerificationTypeOK,
     QueueTypeOK
<1>3. QED
  BY <1>1, <1>2, HandlerTyped, TablesTyped DEF Next

\* Every state is well typed; stale threads are engaged ones.
THEOREM VerificationTyped == Spec => []VerificationTypeOK
<1>1. VerificationTypeOK /\ [Next]_vars => VerificationTypeOK'
  BY NextTyped
<1>2. QED
  BY InitTyped, <1>1, PTL DEF Spec

-----------------------------------------------------------------------------
(* What a step does to the queue *)

QueueUnchanged == UNCHANGED <<log, recent>>

\* h accepts its body into the queue.
Sends(h) == pc[h] = "send" /\ Enqueue(body[h])

LEMMA EnqueuedLog ==
  ASSUME QueueTypeOK, NEW b \in Bodies, Enqueue(b), NEW t \in Threads
  PROVE  /\ log[t] \in Seq(Bodies) /\ log'[t] \in Seq(Bodies)
         /\ t # threadOf[b] => log'[t] = log[t]
         /\ t = threadOf[b] => /\ Len(log'[t]) = Len(log[t]) + 1
                               /\ log'[t][Len(log[t]) + 1] = b
         /\ \A i \in DOMAIN log[t] : i \in DOMAIN log'[t] /\ log'[t][i] = log[t][i]
         /\ \A i \in DOMAIN log'[t] :
              i \in DOMAIN log[t] \/ (t = threadOf[b] /\ i = Len(log[t]) + 1)
<1>1. threadOf[b] \in Threads
  BY ThreadOfAssumption
<1>2. log[t] \in Seq(Bodies)
  BY DEF QueueTypeOK
<1>3. CASE t # threadOf[b]
  <2>1. log'[t] = log[t]
    BY <1>1, <1>3 DEF Enqueue, QueueTypeOK
  <2>2. QED
    BY <1>2, <1>3, <2>1
<1>4. CASE t = threadOf[b]
  <2>1. log'[t] = Append(log[t], b)
    BY <1>1, <1>4 DEF Enqueue, QueueTypeOK
  <2>2. /\ Append(log[t], b) \in Seq(Bodies)
        /\ Len(Append(log[t], b)) = Len(log[t]) + 1
        /\ Append(log[t], b)[Len(log[t]) + 1] = b
        /\ DOMAIN log[t] = 1..Len(log[t]) /\ Len(log[t]) \in Nat
        /\ DOMAIN Append(log[t], b) = 1..(Len(log[t]) + 1)
        /\ \A i \in 1..Len(log[t]) : Append(log[t], b)[i] = log[t][i]
    BY <1>2
  <2>3. QED
    BY <1>2, <1>4, <2>1, <2>2
<1>5. QED
  BY <1>3, <1>4

\* Every step leaves the queue's content alone, forgets a body, or is a send.
LEMMA QueueSteps ==
  ASSUME VerificationTypeOK, [Next]_vars
  PROVE  \/ QueueUnchanged /\ UNCHANGED forgotten
         \/ \E h \in Handlers : Sends(h) /\ UNCHANGED <<forgotten, engaged>>
         \/ \E b \in Bodies : Forget(b)
<1>1. CASE \E h \in Handlers : Handler(h)
  BY <1>1 DEF Handler, Deliver, GetEngagement, Classify, ReadAllowlist,
     SendMessage, Fail, Drop, Advance, Sends, QueueUnchanged, queueVars,
     tableVars
<1>2. CASE Tables
  BY <1>2 DEF Tables, Allow, Disallow, RecordEngagement, ItemExpires,
     TtlDelete, CatchUp, QueueUnchanged, queueVars
<1>3. CASE UNCHANGED vars
  BY <1>3 DEF vars, QueueUnchanged, queueVars
<1>4. QED
  BY <1>1, <1>2, <1>3 DEF Next

\* The queue's log only grows.
LEMMA LogGrows ==
  ASSUME VerificationTypeOK, [Next]_vars, NEW t \in Threads
  PROVE  /\ log[t] \in Seq(Bodies) /\ log'[t] \in Seq(Bodies)
         /\ \A i \in DOMAIN log[t] : i \in DOMAIN log'[t] /\ log'[t][i] = log[t][i]
         /\ log[t] # <<>> => log'[t] # <<>> /\ log'[t][1] = log[t][1]
<1>1. log[t] \in Seq(Bodies)
  BY DEF VerificationTypeOK, QueueTypeOK
<1> DEFINE Grows ==
      /\ log'[t] \in Seq(Bodies)
      /\ \A i \in DOMAIN log[t] : i \in DOMAIN log'[t] /\ log'[t][i] = log[t][i]
<1>2. Grows
  <2>1. CASE UNCHANGED log
    BY <1>1, <2>1
  <2>2. ASSUME NEW h \in Handlers, Sends(h)
        PROVE  Grows
    BY <2>2, EnqueuedLog DEF Sends, VerificationTypeOK
  <2>3. QED
    BY <2>1, <2>2, QueueSteps
    DEF QueueUnchanged, Forget, ForgetDuplicate
<1>3. log[t] # <<>> => 1 \in DOMAIN log[t]
  BY <1>1
<1>4. 1 \in DOMAIN log'[t] => log'[t] # <<>>
  BY <1>2
<1>5. QED
  BY <1>1, <1>2, <1>3, <1>4

-----------------------------------------------------------------------------
(* Where a handler stands *)

EngagedInv == \A t \in Threads : t \in engaged \cup copy => log[t] # <<>>

\* No thread is a user or a channel.
LEMMA ThreadsApart == \A t \in Threads : t \notin Entities
  BY EntityAssumption DEF Entities

\* The body h is invoked with is a member of Bodies, its thread of Threads.
LEMMA BodyFacts ==
  ASSUME VerificationTypeOK, NEW h \in Handlers
  PROVE  /\ body[h] \in Bodies /\ threadOf[body[h]] \in Threads
         /\ User(h) \in Entities /\ Channel(h) \in Entities
<1>1. body[h] \in Bodies
  BY DEF VerificationTypeOK
<1>2. QED
  BY <1>1, EventFacts DEF User, Channel

\* A step of h moves no other handler.
LEMMA OthersStay ==
  ASSUME VerificationTypeOK, NEW h \in Handlers, Handler(h),
         NEW g \in Handlers \ {h}
  PROVE  /\ pc'[g] = pc[g] /\ body'[g] = body[g]
         /\ reads'[g] = reads[g] /\ seen'[g] = seen[g]
         /\ UNCHANGED tableVars
  BY DEF VerificationTypeOK, Handler, Deliver, GetEngagement, Classify,
     ReadAllowlist, SendMessage, Fail, Drop, Finish, Advance

\* A handler that has dropped, sent or failed is idle.
LEMMA FinishIsIdle ==
  ASSUME VerificationTypeOK, NEW h \in Handlers,
         Drop(h) \/ SendMessage(h) \/ Fail(h)
  PROVE  pc'[h] = "idle" /\ body'[h] = body[h]
  BY DEF VerificationTypeOK, Drop, SendMessage, Fail, Finish

LEMMA AdvanceFacts ==
  ASSUME VerificationTypeOK, NEW h \in Handlers, NEW place, Advance(h, place)
  PROVE  /\ pc'[h] = place /\ body'[h] = body[h] /\ seen'[h] = seen[h]
         /\ UNCHANGED <<log, acked, allowlist, engaged, copy>>
  BY DEF VerificationTypeOK, Advance, queueVars, tableVars

LEMMA StageStep ==
  ASSUME VerificationTypeOK, [Next]_vars, EngagedInv,
         \A h \in Handlers : StageInv(h), NEW h \in Handlers
  PROVE  StageInv(h)'
<1>1. StageInv(h) /\ body[h] \in Bodies /\ threadOf[body[h]] \in Threads
  BY BodyFacts
<1>2. ASSUME pc'[h] = pc[h], body'[h] = body[h] PROVE StageInv(h)'
  BY <1>1, <1>2, LogGrows DEF StageInv, User, Routable, NeedsEngagement,
     MentionMatches
<1>3. ASSUME pc'[h] = "idle" PROVE StageInv(h)'
  BY <1>3 DEF StageInv
<1>4. CASE Handler(h)
  <2>1. CASE \E b \in Bodies : Deliver(h, b)
    <3>1. PICK b \in Bodies : Deliver(h, b)
      BY <2>1
    <3>2. pc'[h] = FirstStop(b) /\ body'[h] = b
      BY <3>1 DEF Deliver, VerificationTypeOK
    <3>3. FirstStop(b) # "idle" => Routable(b)
      BY DEF FirstStop, Routable
    <3>4. FirstStop(b) = "engagement" => NeedsEngagement(b)
      BY DEF FirstStop, Gate
    <3>5. FirstStop(b) \notin {"idle", "engagement"}
            => FirstStop(b) = Gate(b) /\ ~NeedsEngagement(b)
      BY DEF FirstStop, NeedsEngagement
    <3>6. Gate(b) \in {"send", "allowlist"}
      BY EventFacts
    <3>7. Gate(b) = "allowlist" => event[b].user \notin Admins
      BY DEF Gate
    <3>8. FirstStop(b) # "classify"
      BY <3>5, <3>6
    <3>9. QED
      BY <3>2, <3>3, <3>4, <3>5, <3>6, <3>7, <3>8
      DEF StageInv, User, Routable, NeedsEngagement, MentionMatches
  <2>2. CASE GetEngagement(h)
    <3>1. CASE Drop(h)
      BY <1>3, <3>1, FinishIsIdle
    <3>2. CASE Found(threadOf[body[h]]) /\ Advance(h, "classify")
      <4>1. log[threadOf[body[h]]] # <<>>
        BY <1>1, <3>2, ThreadsApart DEF Found, Present, EngagedInv
      <4>2. NeedsEngagement(body[h]) /\ Routable(body[h])
        BY <1>1, <2>2 DEF StageInv, GetEngagement
      <4>3. QED
        BY <3>2, <4>1, <4>2, AdvanceFacts
        DEF StageInv, Routable, NeedsEngagement, MentionMatches
    <3>3. QED
      BY <2>2, <3>1, <3>2 DEF GetEngagement
  <2>3. CASE Classify(h)
    <3>1. CASE Drop(h)
      BY <1>3, <3>1, FinishIsIdle
    <3>2. CASE Advance(h, Gate(body[h]))
      <4>1. pc'[h] = Gate(body[h]) /\ body'[h] = body[h] /\ log' = log
        BY <3>2, AdvanceFacts
      <4>2. /\ NeedsEngagement(body[h]) /\ Routable(body[h])
            /\ log[threadOf[body[h]]] # <<>>
        BY <1>1, <2>3 DEF StageInv, Classify
      <4>3. Gate(body[h]) \in {"send", "allowlist"}
        BY <1>1, EventFacts
      <4>4. Gate(body[h]) = "allowlist" => User(h) \notin Admins
        BY DEF Gate, User
      <4>5. QED
        BY <4>1, <4>2, <4>3, <4>4
        DEF StageInv, User, Routable, NeedsEngagement, MentionMatches
    <3>3. QED
      BY <2>3, <3>1, <3>2 DEF Classify
  <2>4. CASE ReadAllowlist(h)
    <3>1. CASE Drop(h)
      BY <1>3, <3>1, FinishIsIdle
    <3>2. ASSUME NEW place \in {"send", "allowlist"}, Advance(h, place)
          PROVE  StageInv(h)'
      <4>1. pc'[h] = place /\ body'[h] = body[h] /\ log' = log
        BY <3>2, AdvanceFacts
      <4>2. QED
        BY <1>1, <2>4, <4>1 DEF ReadAllowlist, StageInv, User, Routable,
           NeedsEngagement, MentionMatches
    <3>3. QED
      BY <2>4, <3>1, <3>2 DEF ReadAllowlist
  <2>5. CASE SendMessage(h) \/ Fail(h)
    BY <1>3, <2>5, FinishIsIdle
  <2>6. QED
    BY <1>4, <2>1, <2>2, <2>3, <2>4, <2>5 DEF Handler
<1>5. CASE \E g \in Handlers \ {h} : Handler(g)
  BY <1>2, <1>5, OthersStay
<1>6. CASE Tables \/ UNCHANGED vars \/ \E b \in Bodies : Forget(b)
  <2>1. pc'[h] = pc[h] /\ body'[h] = body[h]
    BY <1>6 DEF Tables, Allow, Disallow, RecordEngagement, ItemExpires,
       TtlDelete, CatchUp, vars, Forget, handlerVars
  <2>2. QED
    BY <1>2, <2>1
<1>7. QED
  BY <1>4, <1>5, <1>6 DEF Next

LEMMA EngagedStep ==
  ASSUME VerificationTypeOK, [Next]_vars, EngagedInv
  PROVE  EngagedInv'
<1> SUFFICES ASSUME NEW t \in Threads, t \in engaged' \cup copy' PROVE log'[t] # <<>>
  BY DEF EngagedInv
<1>1. t \in engaged \cup copy \/ log[t] # <<>>
  <2>1. CASE \E h \in Handlers : Handler(h)
    BY <2>1 DEF Handler, Deliver, GetEngagement, Classify, ReadAllowlist,
       SendMessage, Fail, Drop, Advance, tableVars
  <2>2. CASE Tables
    <3>1. CASE \E x \in Managed : Allow(x) \/ Disallow(x)
      BY <3>1 DEF Allow, Disallow
    <3>2. CASE \E u \in Threads : RecordEngagement(u) \/ ItemExpires(u) \/ TtlDelete(u)
      BY <3>2 DEF RecordEngagement, ItemExpires, TtlDelete
    <3>3. CASE \E x \in Entities \cup Threads : CatchUp(x)
      BY <3>3, ThreadsApart DEF CatchUp, Present
    <3>4. QED
      BY <2>2, <3>1, <3>2, <3>3 DEF Tables
  <2>3. CASE UNCHANGED vars \/ \E b \in Bodies : Forget(b)
    BY <2>3 DEF vars, tableVars, Forget
  <2>4. QED
    BY <2>1, <2>2, <2>3 DEF Next
<1>2. log[t] # <<>>
  BY <1>1 DEF EngagedInv
<1>3. QED
  BY <1>2, LogGrows

-----------------------------------------------------------------------------
(* What is in the queue *)

LEMMA RoutableStable ==
  /\ \A b : Routable(b)' <=> Routable(b)
  /\ \A b : NeedsEngagement(b)' <=> NeedsEngagement(b)
BY DEF Routable, NeedsEngagement, MentionMatches

LEMMA InQueueStable ==
  ASSUME VerificationTypeOK, [Next]_vars, NEW b \in Bodies, InQueue(b)
  PROVE  InQueue(b)'
<1>1. threadOf[b] \in Threads
  BY ThreadOfAssumption
<1>2. QED
  BY <1>1, LogGrows DEF InQueue

\* A body just sent is in the queue.
LEMMA SentIsInQueue ==
  ASSUME VerificationTypeOK, NEW b \in Bodies, Enqueue(b)
  PROVE  InQueue(b)'
<1>1. threadOf[b] \in Threads
  BY ThreadOfAssumption
<1>2. /\ Len(log'[threadOf[b]]) = Len(log[threadOf[b]]) + 1
      /\ log'[threadOf[b]][Len(log[threadOf[b]]) + 1] = b
      /\ log[threadOf[b]] \in Seq(Bodies) /\ log'[threadOf[b]] \in Seq(Bodies)
  BY <1>1, EnqueuedLog DEF VerificationTypeOK
<1>3. Len(log[threadOf[b]]) + 1 \in DOMAIN log'[threadOf[b]]
  BY <1>2
<1>4. QED
  BY <1>2, <1>3 DEF InQueue

LEMMA LogStep ==
  ASSUME VerificationTypeOK, [Next]_vars, LogInv,
         \A h \in Handlers : StageInv(h)
  PROVE  LogInv'
<1>1. CASE QueueUnchanged /\ UNCHANGED forgotten
  BY <1>1 DEF QueueUnchanged, LogInv, InQueue, Routable, NeedsEngagement,
     MentionMatches
<1>2. CASE \E b \in Bodies : Forget(b)
  BY <1>2 DEF Forget, ForgetDuplicate, LogInv, InQueue, Routable,
     NeedsEngagement, MentionMatches
<1>3. ASSUME NEW h \in Handlers, Sends(h), UNCHANGED forgotten
      PROVE  LogInv'
  <2> DEFINE b == body[h]
  <2>1. b \in Bodies /\ threadOf[b] \in Threads /\ Routable(b)
    BY <1>3, BodyFacts DEF Sends, StageInv
  <2>2. Enqueue(b) /\ recent' = recent \cup {b}
    BY <1>3 DEF Sends, Enqueue
  <2> HIDE DEF b
  <2>3. ASSUME NEW t \in Threads, NEW i \in DOMAIN log'[t]
        PROVE  /\ threadOf[log'[t][i]] = t
               /\ Routable(log'[t][i])
               /\ log'[t][i] \in recent' \cup forgotten
    <3>1. CASE i \in DOMAIN log[t]
      <4>1. log'[t][i] = log[t][i]
        BY <3>1, LogGrows
      <4>2. QED
        BY <2>2, <3>1, <4>1 DEF LogInv
    <3>2. CASE t = threadOf[b] /\ i = Len(log[t]) + 1
      <4>1. log'[t][i] = b
        BY <2>1, <2>2, <3>2, EnqueuedLog DEF VerificationTypeOK
      <4>2. QED
        BY <2>1, <2>2, <3>2, <4>1
    <3>3. QED
      BY <2>1, <2>2, <2>3, <3>1, <3>2, EnqueuedLog DEF VerificationTypeOK
  <2>4. ASSUME NEW c \in recent' PROVE InQueue(c)'
    <3>1. CASE c = b
      BY <2>1, <2>2, <3>1, SentIsInQueue
    <3>2. CASE c \in recent
      <4>1. c \in Bodies /\ InQueue(c)
        BY <3>2 DEF LogInv, VerificationTypeOK, QueueTypeOK
      <4>2. QED
        BY <4>1, InQueueStable
    <3>3. QED
      BY <2>2, <2>4, <3>1, <3>2
  <2>5. QED
    BY <1>3, <2>3, <2>4, RoutableStable DEF LogInv
<1>4. QED
  BY <1>1, <1>2, <1>3, QueueSteps

\* Of two copies of a post at most one is routable.
LEMMA OneCopyRoutable ==
  ASSUME NEW b \in Bodies, NEW c \in Bodies,
         event[b].post = event[c].post, Routable(b), Routable(c)
  PROVE  b = c
BY CopiesAssumption DEF Routable, NeedsEngagement, MentionMatches

LEMMA OneMessageStep ==
  ASSUME VerificationTypeOK, [Next]_vars, LogInv, OneMessagePerPost,
         \A h \in Handlers : StageInv(h)
  PROVE  OneMessagePerPost'
<1>1. CASE QueueUnchanged /\ UNCHANGED forgotten
  BY <1>1 DEF QueueUnchanged, OneMessagePerPost
<1>2. CASE \E b \in Bodies : Forget(b)
  BY <1>2 DEF Forget, ForgetDuplicate, OneMessagePerPost
<1>3. ASSUME NEW h \in Handlers, Sends(h), UNCHANGED forgotten
      PROVE  OneMessagePerPost'
  <2> DEFINE b == body[h]
  <2>1. b \in Bodies /\ threadOf[b] \in Threads /\ Routable(b)
    BY <1>3, BodyFacts DEF Sends, StageInv
  <2>2. Enqueue(b) /\ b \notin recent
    BY <1>3 DEF Sends, Enqueue
  <2> HIDE DEF b
  <2> SUFFICES ASSUME NEW t \in Threads,
                      NEW i \in DOMAIN log'[t], NEW j \in DOMAIN log'[t],
                      i < j, event[log'[t][i]].post = event[log'[t][j]].post
               PROVE  log'[t][i] = log'[t][j] /\ log'[t][i] \in forgotten
    BY <1>3 DEF OneMessagePerPost
  <2>3. /\ log[t] \in Seq(Bodies) /\ log'[t] \in Seq(Bodies)
        /\ DOMAIN log[t] = 1..Len(log[t]) /\ DOMAIN log'[t] = 1..Len(log'[t])
    BY LogGrows
  <2>4. /\ \A k \in DOMAIN log[t] : log'[t][k] = log[t][k]
        /\ \A k \in DOMAIN log'[t] :
             k \in DOMAIN log[t] \/ (t = threadOf[b] /\ k = Len(log[t]) + 1)
    BY <2>1, <2>2, EnqueuedLog DEF VerificationTypeOK
  <2>5. CASE j \in DOMAIN log[t]
    <3>1. i \in DOMAIN log[t]
      BY <2>3, <2>5
    <3>2. QED
      BY <2>4, <2>5, <3>1 DEF OneMessagePerPost
  <2>6. CASE t = threadOf[b] /\ j = Len(log[t]) + 1
    <3>1. log'[t][j] = b
      BY <2>1, <2>2, <2>6, EnqueuedLog DEF VerificationTypeOK
    <3>2. i \in DOMAIN log[t] /\ log'[t][i] = log[t][i]
      BY <2>3, <2>4, <2>6
    <3>3. /\ log[t][i] \in Bodies /\ Routable(log[t][i])
          /\ log[t][i] \in recent \cup forgotten
      BY <2>3, <3>2 DEF LogInv
    <3>4. log[t][i] = b
      BY <2>1, <3>1, <3>2, <3>3, OneCopyRoutable
    <3>5. QED
      BY <2>2, <3>1, <3>2, <3>3, <3>4
  <2>7. QED
    BY <2>4, <2>5, <2>6
<1>4. QED
  BY <1>1, <1>2, <1>3, QueueSteps

LEMMA ThreadsOpenStep ==
  ASSUME VerificationTypeOK, [Next]_vars, ThreadsOpenWithMention,
         \A h \in Handlers : StageInv(h)
  PROVE  ThreadsOpenWithMention'
<1> SUFFICES ASSUME NEW t \in Threads, log'[t] # <<>>
             PROVE  event[log'[t][1]].type = "app_mention"
  BY DEF ThreadsOpenWithMention
<1>1. CASE log[t] # <<>>
  BY <1>1, LogGrows DEF ThreadsOpenWithMention
<1>2. CASE log[t] = <<>>
  <2>1. PICK h \in Handlers : Sends(h)
    BY <1>2, QueueSteps DEF QueueUnchanged, Forget, ForgetDuplicate
  <2>2. /\ body[h] \in Bodies /\ threadOf[body[h]] \in Threads
        /\ Enqueue(body[h]) /\ pc[h] = "send" /\ StageInv(h)
    BY <2>1, BodyFacts DEF Sends
  <2>3. t = threadOf[body[h]]
    BY <1>2, <2>2, EnqueuedLog DEF VerificationTypeOK
  <2>4. Len(log[t]) = 0
    BY <1>2
  <2>5. log'[t][1] = body[h]
    BY <2>2, <2>3, <2>4, EnqueuedLog DEF VerificationTypeOK
  <2>6. ~NeedsEngagement(body[h])
    BY <1>2, <2>2, <2>3 DEF StageInv
  <2>7. QED
    BY <2>2, <2>5, <2>6 DEF StageInv, Routable
<1>3. QED
  BY <1>1, <1>2

-----------------------------------------------------------------------------
(* What Slack was told *)

OwedToAdmin(b) ==
  event[b].type = "app_mention" /\ event[b].from = "user"
                                /\ event[b].user \in Admins

LEMMA DropOwesNothing ==
  ASSUME VerificationTypeOK, NEW h \in Handlers, StageInv(h),
         pc[h] \in {"engagement", "classify", "allowlist"}
  PROVE  ~OwedToAdmin(body[h])
BY DEF StageInv, NeedsEngagement, OwedToAdmin, User

LEMMA AckStep ==
  ASSUME VerificationTypeOK, [Next]_vars, LogInv, AcknowledgedMentionIsQueued,
         \A h \in Handlers : StageInv(h)
  PROVE  AcknowledgedMentionIsQueued'
<1> SUFFICES ASSUME NEW b \in acked', OwedToAdmin(b) PROVE InQueue(b)'
  BY DEF AcknowledgedMentionIsQueued, OwedToAdmin, InQueue
<1>1. CASE b \in acked
  <2>1. b \in Bodies /\ InQueue(b)
    BY <1>1 DEF AcknowledgedMentionIsQueued, OwedToAdmin, InQueue,
       VerificationTypeOK
  <2>2. QED
    BY <2>1, InQueueStable
<1>2. CASE b \notin acked
  <2>1. PICK h \in Handlers : Handler(h)
    BY <1>2 DEF Next, Tables, Allow, Disallow, RecordEngagement, ItemExpires,
       TtlDelete, CatchUp, Forget, vars, handlerVars
  <2>2. StageInv(h) /\ body[h] \in Bodies
    BY BodyFacts
  <2>3. CASE Drop(h) /\ pc[h] \in {"engagement", "classify", "allowlist"}
    <3>1. b = body[h]
      BY <1>2, <2>3 DEF Drop, MayAck
    <3>2. QED
      BY <2>2, <2>3, <3>1, DropOwesNothing
  <2>4. CASE \E c \in Bodies : Deliver(h, c)
    <3>1. FirstStop(b) = "idle"
      BY <1>2, <2>4 DEF Deliver, MayAck
    <3>2. QED
      BY <3>1 DEF FirstStop, Gate, OwedToAdmin
  <2>5. CASE SendMessage(h)
    <3>1. b = body[h]
      BY <1>2, <2>5 DEF SendMessage, MayAck
    <3>2. CASE Enqueue(b)
      BY <2>2, <3>1, <3>2, SentIsInQueue
    <3>3. CASE b \in recent
      <4>1. InQueue(b)
        BY <3>3 DEF LogInv
      <4>2. QED
        BY <2>2, <3>1, <4>1, InQueueStable
    <3>4. QED
      BY <2>5, <3>1, <3>2, <3>3 DEF SendMessage
  <2>6. CASE Fail(h)
    BY <1>2, <2>6 DEF Fail
  <2>7. CASE UNCHANGED acked
    BY <1>2, <2>7
  <2>8. QED
    BY <2>1, <2>3, <2>4, <2>5, <2>6, <2>7 DEF Handler, GetEngagement, Classify,
       ReadAllowlist, Advance
<1>3. QED
  BY <1>1, <1>2

-----------------------------------------------------------------------------
(* What the allowlist reads saw *)

LEMMA SeenStep ==
  ASSUME VerificationTypeOK, [Next]_vars, NEW h \in Handlers, StageInv(h),
         SeenInv(h)
  PROVE  SeenInv(h)'
<1> DEFINE Held == allowlist \cup (copy \cap Entities)
<1>1. body[h] \in Bodies /\ User(h) \in Entities /\ Channel(h) \in Entities
  BY BodyFacts
<1>2. ASSUME pc'[h] = "idle" PROVE SeenInv(h)'
  BY <1>2 DEF SeenInv
<1>3. ASSUME /\ pc'[h] = pc[h] /\ body'[h] = body[h] /\ reads'[h] = reads[h]
             /\ seen'[h] = seen[h]
             /\ Held' \subseteq Held
      PROVE  SeenInv(h)'
  BY <1>3 DEF SeenInv, User, Channel
<1>4. CASE Handler(h)
  <2>1. CASE \E b \in Bodies : Deliver(h, b)
    <3>1. PICK b \in Bodies : Deliver(h, b)
      BY <2>1
    <3>2. pc'[h] = FirstStop(b) /\ body'[h] = b /\ UNCHANGED <<allowlist, copy>>
      BY <3>1 DEF Deliver, VerificationTypeOK, tableVars
    <3>3. CASE FirstStop(b) = "idle"
      BY <1>2, <3>2, <3>3
    <3>4. CASE FirstStop(b) # "idle"
      <4>1. /\ reads'[h] = {event[b].user, event[b].channel}
            /\ seen'[h] = Held
        BY <3>1, <3>4 DEF Deliver, VerificationTypeOK
      <4>2. FirstStop(b) = "send" => event[b].user \in Admins
        BY DEF FirstStop, Gate
      <4>3. QED
        BY <3>2, <4>1, <4>2 DEF SeenInv, User, Channel
    <3>5. QED
      BY <3>3, <3>4
  <2>2. CASE Drop(h) \/ SendMessage(h) \/ Fail(h)
    BY <1>2, <2>2, FinishIsIdle
  <2>3. CASE GetEngagement(h) \/ Classify(h)
    <3>1. ASSUME NEW place, Advance(h, place), UNCHANGED reads,
                 place \in {"classify", Gate(body[h])}
          PROVE  SeenInv(h)'
      <4>1. /\ pc'[h] = place /\ body'[h] = body[h] /\ seen'[h] = seen[h]
            /\ UNCHANGED <<allowlist, copy>>
        BY <3>1, AdvanceFacts
      <4>2. Gate(body[h]) \in {"send", "allowlist"}
        BY <1>1, EventFacts
      <4>3. Gate(body[h]) = "send" => User(h) \in Admins
        BY DEF Gate, User
      <4>4. pc[h] \in {"engagement", "classify"}
        BY <2>3 DEF GetEngagement, Classify
      <4>5. QED
        BY <3>1, <4>1, <4>2, <4>3, <4>4 DEF SeenInv, User, Channel
    <3>2. QED
      BY <2>2, <2>3, <3>1 DEF GetEngagement, Classify
  <2>4. CASE ReadAllowlist(h)
    <3>1. CASE Drop(h)
      BY <2>2, <3>1
    <3>2. ASSUME NEW x \in reads[h], Found(x),
                 reads' = [reads EXCEPT ![h] = @ \ {x}],
                 Advance(h, IF reads[h] = {x} THEN "send" ELSE "allowlist")
          PROVE  SeenInv(h)'
      <4>1. /\ pc'[h] = (IF reads[h] = {x} THEN "send" ELSE "allowlist")
            /\ body'[h] = body[h] /\ seen'[h] = seen[h]
            /\ UNCHANGED <<allowlist, copy>>
        BY <3>2, AdvanceFacts
      <4>2. reads'[h] = reads[h] \ {x}
        BY <3>2 DEF VerificationTypeOK
      <4>3. /\ {User(h), Channel(h)} \subseteq reads[h] \cup seen[h]
            /\ Held \subseteq seen[h]
        BY <2>4 DEF SeenInv, ReadAllowlist
      <4>4. x \in seen[h]
        BY <3>2, <4>3, ThreadsApart DEF Found, Present, VerificationTypeOK
      <4>5. {User(h), Channel(h)} \subseteq (reads[h] \ {x}) \cup seen[h]
        BY <4>3, <4>4
      <4>6. reads[h] = {x} => {User(h), Channel(h)} \subseteq seen[h]
        BY <4>5
      <4>7. QED
        BY <4>1, <4>2, <4>3, <4>5, <4>6 DEF SeenInv, User, Channel
    <3>3. QED
      BY <2>4, <3>1, <3>2 DEF ReadAllowlist
  <2>5. QED
    BY <1>4, <2>1, <2>2, <2>3, <2>4 DEF Handler
<1>5. CASE \E g \in Handlers \ {h} : Handler(g)
  BY <1>3, <1>5, OthersStay DEF tableVars
<1>6. CASE \E x \in Managed : Allow(x)
  <2>1. PICK x \in Managed : Allow(x)
    BY <1>6
  <2>2. /\ pc'[h] = pc[h] /\ body'[h] = body[h] /\ reads'[h] = reads[h]
        /\ Held' = Held \cup {x}
        /\ pc[h] # "idle" => seen'[h] = seen[h] \cup {x}
    BY <2>1 DEF Allow
  <2>3. CASE pc[h] = "idle"
    BY <1>2, <2>2, <2>3
  <2>4. CASE pc[h] # "idle"
    BY <2>2, <2>4 DEF SeenInv, User, Channel
  <2>5. QED
    BY <2>3, <2>4
<1>7. CASE Tables /\ ~\E x \in Managed : Allow(x)
  <2>1. Held' \subseteq Held
    <3>1. CASE \E x \in Managed : Disallow(x)
      BY <3>1 DEF Disallow
    <3>2. CASE \E t \in Threads : RecordEngagement(t) \/ ItemExpires(t) \/ TtlDelete(t)
      BY <3>2 DEF RecordEngagement, ItemExpires, TtlDelete
    <3>3. CASE \E x \in Entities \cup Threads : CatchUp(x)
      BY <3>3, ThreadsApart DEF CatchUp, Present
    <3>4. QED
      BY <1>7, <3>1, <3>2, <3>3 DEF Tables
  <2>2. UNCHANGED handlerVars
    BY <1>7 DEF Tables, Disallow, RecordEngagement, ItemExpires, TtlDelete, CatchUp
  <2>3. QED
    BY <1>3, <2>1, <2>2 DEF handlerVars
<1>8. CASE UNCHANGED vars \/ \E b \in Bodies : Forget(b)
  BY <1>3, <1>8 DEF vars, Forget, handlerVars, tableVars
<1>9. QED
  BY <1>4, <1>5, <1>6, <1>7, <1>8 DEF Next

-----------------------------------------------------------------------------
(* The inductive invariant and what follows from it *)

LEMMA InitInv == Init => VerificationInv
<1> SUFFICES ASSUME Init PROVE VerificationInv
  OBVIOUS
<1>1. \A t \in Threads : log[t] = <<>> /\ DOMAIN log[t] = {}
  <2>1. \A t \in Threads : log[t] = <<>>
    BY DEF Init, QueueInit
  <2>2. Len(<<>>) = 0 /\ DOMAIN <<>> = {}
    OBVIOUS
  <2>3. QED
    BY <2>1, <2>2
<1>2. \A h \in Handlers : pc[h] = "idle"
  BY DEF Init
<1>3. LogInv /\ OneMessagePerPost /\ ThreadsOpenWithMention
  BY <1>1 DEF Init, QueueInit, LogInv, OneMessagePerPost,
     ThreadsOpenWithMention
<1>4. \A h \in Handlers : StageInv(h) /\ SeenInv(h)
  BY <1>2 DEF StageInv, SeenInv
<1>5. AcknowledgedMentionIsQueued /\ EngagedInv
  BY DEF Init, AcknowledgedMentionIsQueued, EngagedInv
<1>6. QED
  BY InitTyped, <1>3, <1>4, <1>5 DEF VerificationInv, EngagedInv

LEMMA NextInv == VerificationInv /\ [Next]_vars => VerificationInv'
<1> SUFFICES ASSUME VerificationInv, [Next]_vars PROVE VerificationInv'
  OBVIOUS
<1>1. /\ VerificationTypeOK /\ LogInv /\ EngagedInv /\ OneMessagePerPost
      /\ AcknowledgedMentionIsQueued /\ ThreadsOpenWithMention
      /\ \A h \in Handlers : StageInv(h)
      /\ \A h \in Handlers : SeenInv(h)
  BY DEF VerificationInv, EngagedInv
<1>2. VerificationTypeOK' /\ EngagedInv'
  BY <1>1, NextTyped, EngagedStep
<1>3. LogInv' /\ OneMessagePerPost'
  BY <1>1, LogStep, OneMessageStep
<1>4. AcknowledgedMentionIsQueued' /\ ThreadsOpenWithMention'
  BY <1>1, AckStep, ThreadsOpenStep
<1>5. \A h \in Handlers : StageInv(h)' /\ SeenInv(h)'
  BY <1>1, StageStep, SeenStep
<1>6. QED
  BY <1>2, <1>3, <1>4, <1>5 DEF VerificationInv, EngagedInv

\* The invariant that the runs check holds in every state (verification index.ts:55-129).
THEOREM InvHolds == Spec => []VerificationInv
BY InitInv, NextInv, PTL DEF Spec

\* One queue message per post, but for a retry after the dedup interval.
THEOREM OneMessage == Spec => []OneMessagePerPost
<1>1. VerificationInv => OneMessagePerPost
  BY DEF VerificationInv
<1>2. QED
  BY <1>1, InvHolds, PTL

\* An acknowledged mention by an admin is in the queue.
THEOREM AcknowledgedIsQueued == Spec => []AcknowledgedMentionIsQueued
<1>1. VerificationInv => AcknowledgedMentionIsQueued
  BY DEF VerificationInv
<1>2. QED
  BY <1>1, InvHolds, PTL

\* The first queued message of a thread mentions the bot.
THEOREM OpensWithMention == Spec => []ThreadsOpenWithMention
<1>1. VerificationInv => ThreadsOpenWithMention
  BY DEF VerificationInv
<1>2. QED
  BY <1>1, InvHolds, PTL

\* A non-admin's message is sent only with both entries held meanwhile by some copy of
\* the allowlist (allowlist-check.ts:28-50).
THEOREM AllowedMeanwhile == Spec => QueuedOnlyIfAllowedMeanwhile
<1> DEFINE Step == \A h \in Handlers :
      SendMessage(h) /\ User(h) \notin Admins
        => {User(h), Channel(h)} \subseteq seen[h]
<1>1. VerificationInv => Step
  BY DEF VerificationInv, SeenInv, SendMessage
<1>2. VerificationInv /\ [Next]_vars => [Step]_vars
  BY <1>1
<1>3. QED
  BY <1>2, InvHolds, PTL DEF Spec, QueuedOnlyIfAllowedMeanwhile
=============================================================================
