----------------------- MODULE CapabilitySessions_proofs -----------------------
(* Safety of get_session for any number of threads, capabilities and envs. *)
EXTENDS CapabilitySessions, TLAPS

Cached(k) == cache[k] # NoSession =>
                 cache[k].role = RoleOf(k) /\ cache[k].expires_at = cache[k].ends

\* The owner of the lock is the thread that parses, a registry that is loaded stays
\* so, and a session, cached or on its way to the cache, is for the role of its key.
IInv ==
  /\ SessionsTypeOK
  /\ \A t \in Threads : pc[t] = "parse" => lock = t /\ ~loaded
  /\ file # Malformed => (~loaded => parses = 0) /\ parses <= 1
  /\ \A k \in Keys : Cached(k)
  /\ \A t \in Threads : session[t] # NoSession /\ pc[t] \in {"store", "returned"} =>
        session[t].role = RoleOf(request[t])
  /\ \A t \in Threads : session[t] # NoSession => pc[t] \in {"store", "returned"}
  /\ \A t \in Threads : pc[t] = "store" => session[t] # NoSession
  /\ \A t \in Threads : pc[t] = "assume" => RoleOf(request[t]) \in Roles

LEMMA InitInv == Init => IInv
<1> SUFFICES ASSUME Init PROVE IInv
  OBVIOUS
<1>1. \A t \in Threads : request[t] \in Keys
  <2>1. PICK c : c \in Capabilities
    BY SessionsAssumption
  <2>2. <<c, NoEnv>> \in Keys
    BY <2>1 DEF Keys
  <2>3. (CHOOSE k \in Keys : TRUE) \in Keys
    BY <2>2, Zenon
  <2> QED
    BY <2>3 DEF Init
<1>2. SessionsTypeOK
  BY <1>1 DEF Init, SessionsTypeOK
<1> QED
  BY <1>2 DEF Init, IInv, Cached

LEMMA StepInv == IInv /\ [Next]_vars => IInv'
<1> SUFFICES ASSUME IInv, [Next]_vars PROVE IInv'
  OBVIOUS
<1> USE DEF IInv, SessionsTypeOK
<1>1. ASSUME NEW t \in Threads, Call(t) PROVE IInv'
  BY <1>1 DEF Call, Goto, Cached, RoleOf
<1>2. ASSUME NEW t \in Threads, Acquire(t) PROVE IInv'
  <2>1. \A u \in Threads : pc[u] # "parse"
    BY <1>2, SessionsAssumption DEF Acquire
  <2> QED
    BY <1>2, <2>1 DEF Acquire, Goto, Cached, RoleOf
<1>3. ASSUME NEW t \in Threads, Parse(t) PROVE IInv'
  <2>1. /\ pc[t] = "parse" /\ ~loaded /\ UNCHANGED <<file, clock, cache, request, session>>
        /\ \A u \in Threads : pc[u] = "parse" => u = t
    BY <1>3 DEF Parse
  <2>2. \A k \in Keys : Cached(k)'
    BY <2>1 DEF Cached, RoleOf
  <2>3. parses' \in Nat /\ (parses = 0 => parses' <= 1)
    BY <1>3, SessionsAssumption DEF Parse
  <2>4. CASE file = Malformed
    BY <1>3, <2>1, <2>2, <2>3, <2>4 DEF Parse, Goto, RoleOf
  <2>5. CASE file # Malformed
    BY <1>3, <2>1, <2>2, <2>3, <2>5 DEF Parse, Goto, RoleOf
  <2> QED
    BY <2>4, <2>5
<1>4. ASSUME NEW t \in Threads, Lookup(t) PROVE IInv'
  <2>1. UNCHANGED <<file, clock, loaded, lock, cache, request, parses>> /\ pc[t] = "resolve"
    BY <1>4 DEF Lookup
  <2>2. request[t] \in Keys /\ \A k \in Keys : Cached(k)'
    BY <2>1 DEF Cached, RoleOf
  <2>3. CASE UNCHANGED session /\ pc' = [pc EXCEPT ![t] = "returned"]
    BY <2>1, <2>2, <2>3 DEF RoleOf
  <2>4. CASE UNCHANGED session /\ pc' = [pc EXCEPT ![t] = "raised"]
    BY <2>1, <2>2, <2>4 DEF RoleOf
  <2>5. CASE UNCHANGED session /\ pc' = [pc EXCEPT ![t] = "assume"] /\ RoleOf(request[t]) \in Roles
    BY <2>1, <2>2, <2>5 DEF RoleOf
  <2>6. CASE /\ session' = [session EXCEPT ![t] = cache[request[t]]]
             /\ cache[request[t]] # NoSession
             /\ pc' = [pc EXCEPT ![t] = "returned"]
    BY <2>1, <2>2, <2>6 DEF RoleOf, Cached
  <2> QED
    BY <1>4, <2>3, <2>4, <2>5, <2>6 DEF Lookup, Goto, CacheKey
<1>5. ASSUME NEW t \in Threads, AssumeRole(t) PROVE IInv'
  <2>1. /\ UNCHANGED <<file, clock, loaded, lock, cache, request, parses>>
        /\ pc[t] = "assume" /\ RoleOf(request[t]) \in Roles
    BY <1>5 DEF AssumeRole
  <2>2. \A k \in Keys : Cached(k)'
    BY <2>1 DEF Cached, RoleOf
  <2> DEFINE fresh == [role |-> RoleOf(request[t]), ends |-> clock + Duration, expires_at |-> 0]
  <2>3. fresh \in Session /\ fresh # NoSession /\ fresh.role = RoleOf(request[t])
    BY <2>1, SessionsAssumption DEF Session
  <2>4. CASE UNCHANGED session /\ pc' = [pc EXCEPT ![t] = "raised"]
    BY <2>1, <2>2, <2>4 DEF RoleOf
  <2>5. CASE session' = [session EXCEPT ![t] = fresh] /\ pc' = [pc EXCEPT ![t] = "store"]
    <3> HIDE DEF fresh
    <3> QED BY <2>1, <2>2, <2>3, <2>5 DEF RoleOf
  <2> QED
    BY <1>5, <2>4, <2>5 DEF AssumeRole, Goto
<1>6. ASSUME NEW t \in Threads, Store(t) PROVE IInv'
  <2> DEFINE entry == CacheEntry(session[t])
  <2>1. /\ UNCHANGED <<file, clock, loaded, lock, request, session, parses>>
        /\ pc[t] = "store" /\ pc' = [pc EXCEPT ![t] = "returned"]
        /\ cache' = [cache EXCEPT ![request[t]] = entry]
    BY <1>6 DEF Store, Goto, CacheKey
  <2>2. session[t] \in Session /\ session[t].role = RoleOf(request[t]) /\ request[t] \in Keys
    BY <2>1
  <2>3. entry \in Session /\ entry.role = RoleOf(request[t]) /\ entry.expires_at = entry.ends
    BY <2>2 DEF CacheEntry, Session
  <2> HIDE DEF entry
  <2>4. cache' \in [Keys -> Session \cup {NoSession}] /\ \A k \in Keys : Cached(k)'
    BY <2>1, <2>2, <2>3 DEF Cached, RoleOf
  <2> QED
    BY <2>1, <2>4 DEF RoleOf
<1>7. CASE Tick
  BY <1>7, SessionsAssumption DEF Tick, Cached, RoleOf
<1>8. CASE UNCHANGED vars
  BY <1>8 DEF vars, Cached, RoleOf
<1> QED
  BY <1>1, <1>2, <1>3, <1>4, <1>5, <1>6, <1>7, <1>8 DEF Next, Step

LEMMA Invariance == Spec => []IInv
BY InitInv, StepInv, PTL DEF Spec

\* Every variable keeps its type; only sessions of real roles are handed out or cached.
THEOREM SessionsTyped == Spec => []SessionsTypeOK
<1>1. IInv => SessionsTypeOK
  BY DEF IInv
<1> QED
  BY <1>1, Invariance, PTL

\* With any number of threads filling the cache at once, a tool is handed a session of
\* the role that its own capability and env resolve to.
THEOREM SessionsMatch == Spec => []SessionsMatchRequests
<1>1. IInv => SessionsMatchRequests
  BY DEF IInv, SessionsMatchRequests
<1> QED
  BY <1>1, Invariance, PTL

\* A well-formed registry is read to its end at most once.
THEOREM RegistryParsedOnce == Spec => []ParsedOnce
<1>1. IInv => ParsedOnce
  BY DEF IInv, ParsedOnce
<1> QED
  BY <1>1, Invariance, PTL

\* A session out of the cache has more than the refresh buffer left.
THEOREM CachedLive == Spec => CachedSessionsLive
<1>1. IInv /\ [Next]_vars =>
        [\A t \in Threads :
            pc[t] = "resolve" /\ session'[t] # NoSession => clock + Buffer < session'[t].ends]_vars
  <2> SUFFICES ASSUME IInv, Next, NEW t \in Threads,
                      pc[t] = "resolve", session'[t] # NoSession
               PROVE  clock + Buffer < session'[t].ends
    OBVIOUS
  <2>1. session[t] = NoSession
    BY DEF IInv
  <2>2. session \in [Threads -> Session \cup {NoSession}]
    BY DEF IInv, SessionsTypeOK
  <2>3. Lookup(t)
    <3>1. ~UNCHANGED session
      BY <2>1
    <3>2. \A u \in Threads : ~Acquire(u) /\ ~Parse(u) /\ ~Store(u) /\ ~Tick
      BY <3>1 DEF Acquire, Parse, Store, Tick
    <3>3. \A u \in Threads : ~Call(u)
      BY <2>1, <2>2 DEF Call
    <3>4. \A u \in Threads : AssumeRole(u) => u # t
      BY DEF AssumeRole
    <3>5. \A u \in Threads : ~AssumeRole(u)
      BY <2>1, <2>2, <3>4 DEF AssumeRole
    <3>6. \A u \in Threads : Lookup(u) => u = t
      BY <2>1, <2>2 DEF Lookup
    <3> QED
      BY <3>2, <3>3, <3>5, <3>6 DEF Next, Step
  <2>4. request[t] \in Keys /\ Cached(request[t])
    BY DEF IInv, SessionsTypeOK
  <2>5. /\ session'[t] = cache[request[t]] /\ cache[request[t]] # NoSession
        /\ clock + Buffer < cache[request[t]].expires_at
    BY <2>1, <2>2, <2>3 DEF Lookup, CacheKey
  <2> QED
    BY <2>4, <2>5 DEF Cached
<1> QED
  BY <1>1, Invariance, PTL DEF Spec, CachedSessionsLive
=============================================================================
