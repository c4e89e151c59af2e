-------------------------- MODULE GatewayTools_proofs --------------------------
(* The token cache of the Gateway for any number of invocations and any times. *)
EXTENDS GatewayTools, FiniteSetTheorems, TLAPS

\* The time an invocation read is not after the present, and a token in flight was
\* issued no earlier than the owner of the lock read its time.
IInv ==
  /\ GatewayTypeOK
  /\ clock <= MaxClock
  /\ \A i \in Invocations : now[i] <= clock
  /\ \A i \in Invocations : pc[i] = "fetch" <=> lock = i
  /\ \A i \in Invocations : lock = i /\ issued # NotIssued => now[i] <= issued
  /\ ExpiryIsConservative

LEMMA InitInv == Init => IInv
BY GatewayAssumption DEF Init, IInv, GatewayTypeOK, ExpiryIsConservative, NotIssued

LEMMA StepInv == IInv /\ [Next]_vars => IInv'
<1> SUFFICES ASSUME IInv, [Next]_vars PROVE IInv'
  OBVIOUS
<1> USE GatewayAssumption DEF IInv, GatewayTypeOK, ExpiryIsConservative, NotIssued, Goto
<1>1. ASSUME NEW i \in Invocations, ReadClock(i) PROVE IInv'
  BY <1>1 DEF ReadClock
<1>2. ASSUME NEW i \in Invocations, Acquire(i) PROVE IInv'
  BY <1>2 DEF Acquire
<1>3. ASSUME NEW i \in Invocations, Fetched(i) PROVE IInv'
  <2> DEFINE t == [ends |-> issued + Ttl, expires_at |-> now[i] + StatedTtl]
  <2>1. /\ pc[i] = "fetch" /\ lock = i /\ issued # NotIssued /\ now[i] <= issued
        /\ cache' = t /\ token' = [token EXCEPT ![i] = t]
        /\ lock' = NoInvocation /\ pc' = [pc EXCEPT ![i] = "connect"]
        /\ UNCHANGED <<clock, now, issued, started, session>>
    BY <1>3 DEF Fetched, ExpiresAt
  <2>2. t \in Token /\ t.expires_at <= t.ends
    BY <2>1 DEF Token
  <2> HIDE DEF t
  <2> QED
    BY <2>1, <2>2
<1>4. ASSUME NEW i \in Invocations, FetchFails(i) PROVE IInv'
  BY <1>4 DEF FetchFails
<1>5. ASSUME NEW i \in Invocations, Connect(i) PROVE IInv'
  BY <1>5 DEF Connect
<1>6. ASSUME NEW i \in Invocations, Leave(i) PROVE IInv'
  BY <1>6 DEF Leave
<1>7. CASE Tick
  BY <1>7 DEF Tick
<1>8. CASE Issue
  BY <1>8 DEF Issue
<1>9. CASE UNCHANGED vars
  BY <1>9 DEF vars
<1> QED
  BY <1>1, <1>2, <1>3, <1>4, <1>5, <1>6, <1>7, <1>8, <1>9 DEF Next, Step

LEMMA Invariance == Spec => []IInv
BY InitInv, StepInv, PTL DEF Spec

\* Every variable keeps its type, and an MCP session is open only while its agent runs.
THEOREM GatewayTyped == Spec => []GatewayTypeOK
<1>1. IInv => GatewayTypeOK
  BY DEF IInv
<1> QED
  BY <1>1, Invariance, PTL

\* However many invocations wait for the lock and for however long, the cache dates no
\* token later than the IdP does.
THEOREM Conservative == Spec => []ExpiryIsConservative
<1>1. IInv => ExpiryIsConservative
  BY DEF IInv
<1> QED
  BY <1>1, Invariance, PTL
-----------------------------------------------------------------------------
(* When a token is fresh. An invocation judges the cached token by a time from  *)
(* before its wait for the lock; what saves it is that a token it finds there   *)
(* was fetched during the wait, or the wait took no time at all.                *)

\* An entry that was not fetched while the invocation was there.
Old(entry, i) == entry.ends + MaxFetch < now[i] + Ttl

\* The request in flight was sent since its owner looked at the cache and found nothing
\* to use, and no longer ago than a request can take.
RequestInv ==
  \A m \in Invocations : lock = m =>
    /\ ~Usable(cache, now[m])
    /\ started <= clock /\ clock <= started + MaxFetch
    /\ issued # NotIssued => started <= issued

\* An old entry that one who waits could use is one that everybody could: the lock is
\* free, and no time has passed.
WaitingInv ==
  \A i \in Invocations :
    pc[i] = "lock" /\ Usable(cache, now[i]) /\ Old(cache, i)
      => clock = now[i] /\ lock = NoInvocation

\* The same of a token an invocation is about to use.
ConnectingInv ==
  \A i \in Invocations :
    pc[i] = "connect" /\ token[i] # NoToken /\ Old(token[i], i)
      => /\ clock = now[i] /\ lock = NoInvocation
         /\ token[i] = cache /\ Usable(cache, now[i])

FreshInv == RequestInv /\ WaitingInv /\ ConnectingInv

LEMMA InitFresh == Init => FreshInv
BY GatewayAssumption DEF Init, FreshInv, RequestInv, WaitingInv, ConnectingInv

LEMMA StepFresh == IInv /\ FreshInv /\ [Next]_vars => FreshInv'
<1> SUFFICES ASSUME IInv, FreshInv, [Next]_vars PROVE FreshInv'
  OBVIOUS
<1> USE GatewayAssumption
<1>t. /\ clock \in Nat /\ issued \in Nat /\ started \in Nat /\ cache \in Token \cup {NoToken}
      /\ now \in [Invocations -> Nat] /\ token \in [Invocations -> Token \cup {NoToken}]
      /\ pc \in [Invocations -> {"start", "lock", "fetch", "connect", "agent", "done"}]
      /\ lock \in Invocations \cup {NoInvocation}
      /\ \A i \in Invocations : now[i] <= clock
      /\ \A i \in Invocations : pc[i] = "fetch" <=> lock = i
  BY DEF IInv, GatewayTypeOK
<1> USE <1>t DEF FreshInv, RequestInv, WaitingInv, ConnectingInv, Old, Usable, Token, Goto, NotIssued
<1>1. ASSUME NEW i \in Invocations, ReadClock(i) PROVE FreshInv'
  BY <1>1 DEF ReadClock
<1>2. ASSUME NEW i \in Invocations, Acquire(i) PROVE FreshInv'
  BY <1>2 DEF Acquire
<1>3. ASSUME NEW i \in Invocations, Fetched(i) PROVE FreshInv'
  <2> DEFINE t == [ends |-> issued + Ttl, expires_at |-> now[i] + StatedTtl]
  <2>1. /\ pc[i] = "fetch" /\ lock = i /\ issued # NotIssued
        /\ cache' = t /\ token' = [token EXCEPT ![i] = t]
        /\ lock' = NoInvocation /\ pc' = [pc EXCEPT ![i] = "connect"]
        /\ UNCHANGED <<clock, now, issued, started, session>>
    BY <1>3 DEF Fetched, ExpiresAt
  <2>2. t.ends \in Nat /\ clock + Ttl <= t.ends + MaxFetch
    BY <2>1
  <2>3. \A j \in Invocations : ~(t.ends + MaxFetch < now[j] + Ttl)
    BY <2>2
  <2> HIDE DEF t
  <2>4. RequestInv' /\ WaitingInv'
    BY <2>1, <2>3
  <2>5. ASSUME NEW j \in Invocations, pc'[j] = "connect", token'[j] # NoToken, Old(token[j], j)'
        PROVE  FALSE
    BY <2>1, <2>3, <2>5
  <2> QED
    BY <2>4, <2>5
<1>4. ASSUME NEW i \in Invocations, FetchFails(i) PROVE FreshInv'
  BY <1>4 DEF FetchFails
<1>5. ASSUME NEW i \in Invocations, Connect(i) PROVE FreshInv'
  BY <1>5 DEF Connect
<1>6. ASSUME NEW i \in Invocations, Leave(i) PROVE FreshInv'
  BY <1>6 DEF Leave
<1>7. CASE Tick
  BY <1>7 DEF Tick
<1>8. CASE Issue
  BY <1>8 DEF Issue
<1>9. CASE UNCHANGED vars
  BY <1>9 DEF vars
<1> QED
  BY <1>1, <1>2, <1>3, <1>4, <1>5, <1>6, <1>7, <1>8, <1>9 DEF Next, Step

LEMMA FreshInvariance == Spec => [](IInv /\ FreshInv)
BY InitInv, StepInv, InitFresh, StepFresh, PTL DEF Spec

\* Only who waited longer than a token lasts, less the buffer and one request, connects
\* with a token that is within the buffer of its end (gateway_tools.py:86-106).
RefreshedUnlessStarved ==
  \A i \in Invocations :
    pc[i] = "connect" /\ token[i] # NoToken =>
      clock + Buffer < token[i].ends \/ now[i] + Ttl <= clock + Buffer + MaxFetch

LEMMA FreshImplies == IInv /\ FreshInv => RefreshedUnlessStarved
<1> SUFFICES ASSUME IInv, FreshInv,
                    NEW i \in Invocations, pc[i] = "connect", token[i] # NoToken
             PROVE  clock + Buffer < token[i].ends \/ now[i] + Ttl <= clock + Buffer + MaxFetch
  BY DEF RefreshedUnlessStarved
<1>1. /\ clock \in Nat /\ now[i] \in Nat /\ token[i] \in Token /\ token[i].ends \in Nat
  BY DEF IInv, GatewayTypeOK, Token
<1>2. CASE Old(token[i], i)
  <2>1. clock = now[i] /\ token[i] = cache /\ Usable(cache, now[i])
    BY <1>2 DEF FreshInv, ConnectingInv
  <2>2. cache.expires_at <= cache.ends /\ cache.expires_at \in Nat
    BY <1>1, <2>1 DEF IInv, ExpiryIsConservative, Token
  <2> QED
    BY <1>1, <2>1, <2>2, GatewayAssumption DEF Usable
<1>3. CASE ~Old(token[i], i)
  BY <1>1, <1>3, GatewayAssumption DEF Old
<1> QED
  BY <1>2, <1>3

THEOREM RefreshedInTime == Spec => []RefreshedUnlessStarved
BY FreshImplies, FreshInvariance, PTL
-----------------------------------------------------------------------------
(* How long an invocation can wait: each of the others sends at most one request *)

Queue == {j \in Invocations : pc[j] \in {"start", "lock"}}

\* When the request in flight is over at the latest.
Over == IF lock = NoInvocation THEN clock ELSE started + MaxFetch

WaitBounded ==
  \A i \in Invocations : pc[i] \in {"lock", "fetch", "connect"} =>
    Over + MaxFetch * Cardinality(Queue) <= now[i] + MaxFetch * Cardinality(Invocations)

\* The requests of all invocations, one after the other, and one more fit into the life
\* of a token less the buffer.
ContentionBound ==
  /\ IsFiniteSet(Invocations)
  /\ (Cardinality(Invocations) + 1) * MaxFetch + Buffer < Ttl

LEMMA Products ==
  ASSUME NEW n \in Nat \ {0} PROVE MaxFetch * (n - 1) = MaxFetch * n - MaxFetch
BY GatewayAssumption

LEMMA QueueFinite ==
  ASSUME IsFiniteSet(Invocations)
  PROVE  /\ Cardinality(Queue) \in Nat /\ Cardinality(Invocations) \in Nat
         /\ IsFiniteSet(Queue) /\ Cardinality(Queue) <= Cardinality(Invocations)
BY FS_Subset, FS_CardinalityType DEF Queue

\* Of the invocations, the one that holds the lock is not in the queue.
LEMMA QueueWithoutOwner ==
  ASSUME IsFiniteSet(Invocations), IInv, lock # NoInvocation
  PROVE  Cardinality(Queue) <= Cardinality(Invocations) - 1
<1>1. lock \in Invocations /\ lock \notin Queue
  BY DEF IInv, GatewayTypeOK, Queue
<1>2. Queue \subseteq Invocations \ {lock}
  BY <1>1 DEF Queue
<1>3. /\ IsFiniteSet(Invocations \ {lock})
      /\ Cardinality(Invocations \ {lock}) = Cardinality(Invocations) - 1
  BY <1>1, FS_RemoveElement
<1> QED
  BY <1>2, <1>3, FS_Subset

LEMMA Monotone ==
  ASSUME NEW m \in Nat, NEW n \in Nat, m <= n PROVE MaxFetch * m <= MaxFetch * n
BY GatewayAssumption

\* An invocation that comes now has its wait still before it.
LEMMA RoomForAll ==
  ASSUME IsFiniteSet(Invocations), IInv, RequestInv
  PROVE  Over + MaxFetch * Cardinality(Queue) <= clock + MaxFetch * Cardinality(Invocations)
<1> DEFINE q == Cardinality(Queue)
           n == Cardinality(Invocations)
           qs == MaxFetch * q
           ns == MaxFetch * n
<1>1. q \in Nat /\ n \in Nat /\ q <= n
  BY QueueFinite
<1>2. clock \in Nat /\ started \in Nat /\ MaxFetch \in Nat /\ qs \in Nat /\ ns \in Nat
  BY <1>1, GatewayAssumption DEF IInv, GatewayTypeOK
<1>3. CASE lock = NoInvocation
  <2>1. qs <= ns
    BY <1>1, Monotone
  <2> HIDE DEF qs, ns
  <2>2. clock + qs <= clock + ns
    BY <1>2, <2>1
  <2> QED
    BY <1>3, <2>2 DEF Over, qs, ns
<1>4. CASE lock # NoInvocation
  <2>1. q <= n - 1 /\ n - 1 \in Nat /\ n \in Nat \ {0}
    BY <1>1, <1>4, QueueWithoutOwner
  <2>2. qs <= MaxFetch * (n - 1) /\ MaxFetch * (n - 1) = ns - MaxFetch
    BY <1>1, <2>1, Monotone, Products
  <2>3. started <= clock
    BY <1>4 DEF IInv, GatewayTypeOK, RequestInv
  <2> HIDE DEF q, n, qs, ns
  <2>4. (started + MaxFetch) + qs <= clock + ns
    BY <1>2, <2>2, <2>3
  <2> QED
    BY <1>4, <2>4 DEF Over, q, n, qs, ns
<1> QED
  BY <1>3, <1>4

\* Who leaves the queue takes one request's time with it.
LEMMA QueueShrinks ==
  ASSUME IsFiniteSet(Invocations), NEW i \in Queue, Queue' = Queue \ {i}
  PROVE  MaxFetch * Cardinality(Queue') = MaxFetch * Cardinality(Queue) - MaxFetch
<1>1. IsFiniteSet(Queue) /\ Cardinality(Queue) \in Nat
  BY QueueFinite
<1>2. Cardinality(Queue') = Cardinality(Queue) - 1
  BY <1>1, FS_RemoveElement
<1>3. Cardinality(Queue) \in Nat \ {0}
  BY <1>1, FS_EmptySet
<1> QED
  BY <1>2, <1>3, Products

LEMMA StepWait ==
  ASSUME IsFiniteSet(Invocations), IInv, RequestInv, WaitBounded, [Next]_vars
  PROVE  WaitBounded'
<1> DEFINE q == MaxFetch * Cardinality(Queue)
           n == MaxFetch * Cardinality(Invocations)
           waits(j) == pc[j] \in {"lock", "fetch", "connect"}
           Bounded == \A j \in Invocations : waits(j) => Over + q <= now[j] + n
<1>t. /\ clock \in Nat /\ started \in Nat /\ MaxFetch \in Nat
      /\ now \in [Invocations -> Nat] /\ q \in Nat /\ n \in Nat
      /\ pc \in [Invocations -> {"start", "lock", "fetch", "connect", "agent", "done"}]
      /\ \A i \in Invocations : pc[i] = "fetch" <=> lock = i
      /\ lock \in Invocations \cup {NoInvocation} /\ NoInvocation \notin Invocations
  BY QueueFinite, GatewayAssumption DEF IInv, GatewayTypeOK
<1>b. Bounded
  BY DEF WaitBounded
<1>r. Over + q <= clock + n
  BY RoomForAll
<1>h. lock # NoInvocation => clock <= started + MaxFetch
  BY <1>t DEF RequestInv
<1>i. Over \in Nat
  BY <1>t DEF Over
<1>k. ASSUME NEW i \in Queue, Queue' = Queue \ {i} PROVE q' = q - MaxFetch
  BY <1>k, QueueShrinks
<1>l. Queue' = Queue => q' = q
  OBVIOUS
<1> HIDE DEF q, n
<1>1. ASSUME NEW i \in Invocations, ReadClock(i) PROVE Bounded'
  <2>1. Queue' = Queue /\ Over' = Over
    BY <1>t, <1>1 DEF ReadClock, Goto, Queue, Over
  <2> QED
    BY <1>t, <1>b, <1>r, <1>i, <1>l, <1>1, <2>1 DEF ReadClock, Goto
<1>2. ASSUME NEW i \in Invocations, Acquire(i) PROVE Bounded'
  <2>1. i \in Queue /\ Queue' = Queue \ {i} /\ Over = clock /\ Over' <= clock + MaxFetch
    BY <1>t, <1>2 DEF Acquire, Goto, Queue, Over
  <2>2. q' = q - MaxFetch
    BY <1>k, <2>1
  <2> QED
    BY <1>t, <1>b, <1>2, <2>1, <2>2 DEF Acquire, Goto, Over
<1>3. ASSUME NEW i \in Invocations, Fetched(i) \/ FetchFails(i) PROVE Bounded'
  <2>1. Queue' = Queue /\ Over' = clock /\ Over' <= Over
    BY <1>t, <1>h, <1>3 DEF Fetched, FetchFails, Goto, Queue, Over
  <2> QED
    BY <1>t, <1>b, <1>i, <1>l, <1>3, <2>1 DEF Fetched, FetchFails, Goto
<1>4. ASSUME NEW i \in Invocations, Connect(i) \/ Leave(i) PROVE Bounded'
  <2>1. Queue' = Queue /\ Over' = Over
    BY <1>t, <1>4 DEF Connect, Leave, Goto, Queue, Over
  <2> QED
    BY <1>t, <1>b, <1>l, <1>4, <2>1 DEF Connect, Leave, Goto
<1>5. ASSUME Tick PROVE Bounded'
  <2>1. Queue' = Queue /\ (lock # NoInvocation => Over' = Over)
    BY <1>5 DEF Tick, Queue, Over
  <2>2. lock = NoInvocation => \A j \in Invocations : ~waits(j)
    BY <1>t, <1>5 DEF Tick
  <2> QED
    BY <1>t, <1>b, <1>l, <1>5, <2>1, <2>2 DEF Tick
<1>6. ASSUME Issue \/ UNCHANGED vars PROVE Bounded'
  <2>1. Queue' = Queue /\ Over' = Over
    BY <1>6 DEF Issue, vars, Queue, Over
  <2> QED
    BY <1>t, <1>b, <1>l, <1>6, <2>1 DEF Issue, vars
<1> QED
  <2>1. Bounded'
    BY <1>1, <1>2, <1>3, <1>4, <1>5, <1>6 DEF Next, Step
  <2> QED
    BY <2>1 DEF WaitBounded, q, n

\* "Refresh an OAuth token this many seconds before it actually expires"
\* (gateway_tools.py:51), though each invocation judges the cached token by the time from
\* before its wait for the lock: it holds where the requests of all the invocations, sent
\* one after the other, fit into the life of a token less the buffer.
THEOREM RefreshedBefore == ASSUME ContentionBound PROVE Spec => []RefreshedBeforeExpiry
<1>1. Init => WaitBounded
  BY DEF Init, WaitBounded
<1>2. IInv /\ FreshInv /\ WaitBounded /\ [Next]_vars => WaitBounded'
  BY StepWait DEF ContentionBound, FreshInv
<1>3. IInv /\ FreshInv /\ WaitBounded => RefreshedBeforeExpiry
  <2> SUFFICES ASSUME IInv, FreshInv, WaitBounded,
                      NEW i \in Invocations, pc[i] = "connect", token[i] # NoToken
               PROVE  clock + Buffer < token[i].ends
    BY DEF RefreshedBeforeExpiry
  <2> DEFINE q == MaxFetch * Cardinality(Queue)
             n == MaxFetch * Cardinality(Invocations)
  <2>1. /\ clock \in Nat /\ started \in Nat /\ now[i] \in Nat /\ token[i].ends \in Nat
        /\ MaxFetch \in Nat /\ Buffer \in Nat /\ Ttl \in Nat /\ q \in Nat /\ n \in Nat
    BY QueueFinite, GatewayAssumption DEF ContentionBound, IInv, GatewayTypeOK, Token
  <2>2. n + MaxFetch + Buffer < Ttl
    BY QueueFinite, GatewayAssumption DEF ContentionBound
  <2>3. Over + q <= now[i] + n
    BY DEF WaitBounded
  <2>4. clock <= Over
    BY <2>1 DEF Over, FreshInv, RequestInv, IInv, GatewayTypeOK
  <2>5. Over \in Nat
    BY <2>1 DEF Over
  <2>6. clock + Buffer < token[i].ends \/ now[i] + Ttl <= clock + Buffer + MaxFetch
    BY FreshImplies DEF RefreshedUnlessStarved
  <2> HIDE DEF q, n
  <2> QED
    BY <2>1, <2>2, <2>3, <2>4, <2>5, <2>6
<1> QED
  BY <1>1, <1>2, <1>3, FreshInvariance, PTL DEF Spec
=============================================================================
