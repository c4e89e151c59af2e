-------------------------- MODULE CapabilitySessions --------------------------
(* get_session (agent-runtime/capabilities.py) called by the tools of several   *)
(* threads of one container: the registry behind a double-checked lock, and the *)
(* cache of assumed sessions, which is read and written without it.             *)
EXTENDS CapabilityRegistry, Naturals

CONSTANTS
    Threads,
    Files, Malformed,  \* registry contents that load, and one that does not
    Duration,          \* of an assumed session (_DEFAULT_SESSION_DURATION_S)
    Buffer,            \* _REFRESH_BUFFER_S
    NoThread, NoSession,
    MaxClock, MaxParses  \* bounds of the exploration

\* What a tool gets: the role the session is for, the time STS ends it, and the
\* time the entry of the cache says.
Session == [role : Roles, ends : Nat, expires_at : Nat]

ASSUME SessionsAssumption ==
    /\ Capabilities # {}
    /\ Files \subseteq RegistryFile
    /\ Malformed \notin Files
    /\ Duration \in Nat /\ Buffer \in Nat
    /\ NoThread \notin Threads
    /\ NoSession \notin Session
    /\ MaxClock \in Nat /\ MaxParses \in Nat \ {0}

VARIABLES
    file,              \* the registry file in the container image
    clock,             \* time.time()
    loaded,            \* _registry_cache is not None
    lock,              \* owner of _lock
    cache,             \* _session_cache: key to [role, ends, expires_at]
    pc, request,       \* per thread: where it is, and the capability and env asked for
    session,           \* per thread: the session it was handed or has from STS
    parses             \* times the file was read to its end (history)

vars == <<file, clock, loaded, lock, cache, pc, request, session, parses>>

Keys == Capabilities \X (Envs \cup {NoEnv})

-----------------------------------------------------------------------------
Init ==
    /\ file \in Files \cup {Malformed}
    /\ clock = 0
    /\ loaded = FALSE
    /\ lock = NoThread
    /\ cache = [k \in Keys |-> NoSession]
    /\ pc = [t \in Threads |-> "idle"]
    /\ request = [t \in Threads |-> CHOOSE k \in Keys : TRUE]
    /\ session = [t \in Threads |-> NoSession]
    /\ parses = 0

Goto(t, l) == pc' = [pc EXCEPT ![t] = l]

\* A tool calls get_session; _load_registry's first test is outside the lock.
Call(t) ==
    /\ pc[t] \in {"idle", "returned", "raised"}
    /\ \E k \in Keys : request' = [request EXCEPT ![t] = k]
    /\ session' = [session EXCEPT ![t] = NoSession]
    /\ Goto(t, IF loaded THEN "resolve" ELSE "lock")
    /\ UNCHANGED <<file, clock, loaded, lock, cache, parses>>

\* Bug: the test inside the lock is missing.
Bug_NoSecondTest(t) ==
    /\ pc[t] = "lock" /\ lock = NoThread
    /\ Goto(t, "parse") /\ lock' = t
    /\ UNCHANGED <<file, clock, loaded, cache, request, session, parses>>

\* with _lock: the test again, now inside.
Acquire(t) ==
    /\ pc[t] = "lock" /\ lock = NoThread
    /\ IF loaded
       THEN Goto(t, "resolve") /\ UNCHANGED lock
       ELSE Goto(t, "parse") /\ lock' = t
    /\ UNCHANGED <<file, clock, loaded, cache, request, session, parses>>

\* Bug: acquire and release without a finally.
Bug_LockKeptOnRaise(t) ==
    /\ pc[t] = "parse"
    /\ IF file = Malformed
       THEN Goto(t, "raised") /\ UNCHANGED <<loaded, lock>>
       ELSE Goto(t, "resolve") /\ loaded' = TRUE /\ lock' = NoThread
    /\ parses' = IF parses < MaxParses THEN parses + 1 ELSE parses
    /\ UNCHANGED <<file, clock, cache, request, session>>

\* The file is read; a file that is no mapping raises, and leaving the with block
\* releases the lock.
Parse(t) ==
    /\ pc[t] = "parse"
    /\ IF file = Malformed
       THEN Goto(t, "raised") /\ UNCHANGED loaded
       ELSE Goto(t, "resolve") /\ loaded' = TRUE
    /\ parses' = IF parses < MaxParses THEN parses + 1 ELSE parses
    /\ lock' = NoThread
    /\ UNCHANGED <<file, clock, cache, request, session>>

\* Bug: the key of the cache has no env.
Bug_KeyWithoutEnv(k) == <<k[1], NoEnv>>

\* cache_key
CacheKey(k) == k

RoleOf(k) == AssumedRole(file, k[1], k[2])

\* Bug: sts is called without a role when none is bound.
Bug_NoRoleAssumed(t) ==
    LET entry == cache[CacheKey(request[t])]
    IN  /\ pc[t] = "resolve"
        /\ IF entry # NoSession /\ clock + Buffer < entry.expires_at
           THEN Goto(t, "returned") /\ session' = [session EXCEPT ![t] = entry]
           ELSE Goto(t, "assume") /\ UNCHANGED session
        /\ UNCHANGED <<file, clock, loaded, lock, cache, request, parses>>

\* From the resolution of the role to the return of a cached session: nothing here
\* waits, so `now` is the time of the lookup. A capability without a role raises,
\* or uses the hub's session, which no cache holds.
Lookup(t) ==
    LET entry == cache[CacheKey(request[t])]
    IN  /\ pc[t] = "resolve"
        /\ IF RoleOf(request[t]) \notin Roles
           THEN /\ Goto(t, IF UsesHubSession(file, request[t][1]) THEN "returned" ELSE "raised")
                /\ UNCHANGED session
           ELSE IF entry # NoSession /\ clock + Buffer < entry.expires_at
           THEN Goto(t, "returned") /\ session' = [session EXCEPT ![t] = entry]
           ELSE Goto(t, "assume") /\ UNCHANGED session
        /\ UNCHANGED <<file, clock, loaded, lock, cache, request, parses>>

\* Bug: the entry is dated when it is stored, not by STS.
Bug_DatedOnStore(s) == [s EXCEPT !.expires_at = clock + Duration]

\* The entry of the cache: int(creds["Expiration"].timestamp()).
CacheEntry(s) == [s EXCEPT !.expires_at = s.ends]

\* sts.assume_role answers, or fails and get_session raises.
AssumeRole(t) ==
    /\ pc[t] = "assume"
    /\ \/ /\ session' = [session EXCEPT ![t] = [role |-> RoleOf(request[t]),
                                                ends |-> clock + Duration,
                                                expires_at |-> 0]]
          /\ Goto(t, "store")
       \/ Goto(t, "raised") /\ UNCHANGED session
    /\ UNCHANGED <<file, clock, loaded, lock, cache, request, parses>>

\* The session is put into the cache, over whatever another thread put there.
Store(t) ==
    /\ pc[t] = "store"
    /\ cache' = [cache EXCEPT ![CacheKey(request[t])] = CacheEntry(session[t])]
    /\ Goto(t, "returned")
    /\ UNCHANGED <<file, clock, loaded, lock, request, session, parses>>

Tick ==
    /\ clock' = IF clock < MaxClock THEN clock + 1 ELSE clock
    /\ UNCHANGED <<file, loaded, lock, cache, pc, request, session, parses>>

Step(t) == Acquire(t) \/ Parse(t) \/ Lookup(t) \/ AssumeRole(t) \/ Store(t)

Next == Tick \/ \E t \in Threads : Call(t) \/ Step(t)

Spec == Init /\ [][Next]_vars

\* Threads are scheduled, boto3 calls end, and nobody starves at a lock.
FairSpec == Spec /\ \A t \in Threads : WF_vars(Step(t)) /\ SF_vars(Acquire(t))
-----------------------------------------------------------------------------
(* Properties *)

\* Every variable keeps its type: whatever is cached or returned as assumed is a
\* session of a role.
SessionsTypeOK ==
    /\ file \in Files \cup {Malformed}
    /\ clock \in Nat /\ parses \in Nat
    /\ loaded \in BOOLEAN
    /\ lock \in Threads \cup {NoThread}
    /\ cache \in [Keys -> Session \cup {NoSession}]
    /\ pc \in [Threads -> {"idle", "lock", "parse", "resolve", "assume", "store", "returned", "raised"}]
    /\ request \in [Threads -> Keys]
    /\ session \in [Threads -> Session \cup {NoSession}]

\* Whatever other threads ask for at the same time, a tool is handed a session of
\* the role its own capability and env resolve to (capabilities.py:168).
SessionsMatchRequests ==
    \A t \in Threads :
        pc[t] = "returned" /\ session[t] # NoSession => session[t].role = RoleOf(request[t])

\* The registry is read once however many threads ask first (capabilities.py:67).
ParsedOnce == file # Malformed => parses <= 1

\* A session that comes out of the cache has more than the buffer left by STS's own
\* account (capabilities.py:171 and 197), whichever thread stored it last.
CachedSessionsLive ==
    [][\A t \in Threads :
        pc[t] = "resolve" /\ session'[t] # NoSession => clock + Buffer < session'[t].ends]_vars

\* Every call ends, also where the file is malformed and the lock's owner raises.
EveryCallEnds ==
    \A t \in Threads : pc[t] = "lock" ~> pc[t] \in {"returned", "raised"}
=============================================================================
