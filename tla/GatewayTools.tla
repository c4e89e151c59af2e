----------------------------- MODULE GatewayTools -----------------------------
(* agent-runtime/gateway_tools.py: every invocation of a container opens a      *)
(* session to the Gateway before its agent runs, with a bearer token from a     *)
(* cache that all of them share under one lock. Time passes only while somebody *)
(* waits for the network.                                                       *)
EXTENDS Naturals

CONSTANTS
    Invocations,
    NoInvocation,
    Ttl,               \* how long a token of the IdP lasts
    StatedTtl,         \* expires_in of the IdP's answer, or 3600 if it has none
    Buffer,            \* _TOKEN_REFRESH_BUFFER_S
    MaxFetch,          \* how long the request for a token can take (the timeout of 10 s
                       \* in the code is for each operation on the socket)
    NoToken,
    MaxClock           \* bound of the exploration

Token == [ends : Nat, expires_at : Nat]

\* The IdP keeps its word; one that leaves expires_in out has tokens that last an hour.
ASSUME GatewayAssumption ==
    /\ NoInvocation \notin Invocations
    /\ Ttl \in Nat /\ StatedTtl \in Nat /\ StatedTtl <= Ttl
    /\ Buffer \in Nat /\ MaxFetch \in Nat /\ MaxClock \in Nat
    /\ NoToken \notin Token

VARIABLES
    clock,
    lock,              \* owner of _token_lock
    cache,             \* _token_cache["entry"]: when the token ends, and when it is said to
    pc,
    now,               \* per invocation: the time it read before the lock
    issued,            \* of the request in flight: when the IdP issued the token
    started,           \* when the request in flight was sent
    token,             \* per invocation: the token it uses
    session            \* invocations whose MCP session is open

vars == <<clock, lock, cache, pc, now, issued, started, token, session>>

NotIssued == MaxClock + 1

Init ==
    /\ clock = 0 /\ lock = NoInvocation /\ cache = NoToken
    /\ pc = [i \in Invocations |-> "start"]
    /\ now = [i \in Invocations |-> 0]
    /\ issued = NotIssued /\ started = 0
    /\ token = [i \in Invocations |-> NoToken]
    /\ session = {}

Goto(i, l) == pc' = [pc EXCEPT ![i] = l]

\* _bearer_token up to the lock.
ReadClock(i) ==
    /\ pc[i] = "start"
    /\ now' = [now EXCEPT ![i] = clock]
    /\ Goto(i, "lock")
    /\ UNCHANGED <<clock, lock, cache, issued, started, token, session>>

\* Bug: the buffer is forgotten.
Bug_NoBuffer(entry, t) == entry # NoToken /\ t < entry.expires_at

Usable(entry, t) == entry # NoToken /\ t + Buffer < entry.expires_at

\* Under the lock: a cached token is judged by the time read before it, or a request
\* for a new one is sent.
Acquire(i) ==
    /\ pc[i] = "lock" /\ lock = NoInvocation
    /\ IF Usable(cache, now[i])
       THEN /\ token' = [token EXCEPT ![i] = cache]
            /\ Goto(i, "connect")
            /\ UNCHANGED <<lock, issued, started>>
       ELSE /\ lock' = i /\ Goto(i, "fetch")
            /\ issued' = NotIssued /\ started' = clock
            /\ UNCHANGED token
    /\ UNCHANGED <<clock, cache, now, session>>

\* The IdP issues the token while its answer is still to come.
Issue ==
    /\ lock # NoInvocation /\ issued = NotIssued
    /\ issued' = clock
    /\ UNCHANGED <<clock, lock, cache, pc, now, started, token, session>>

\* Bug: the token is dated by the time its answer arrives.
Bug_DatedOnArrival(i) == clock + StatedTtl

ExpiresAt(i) == now[i] + StatedTtl

Fetched(i) ==
    /\ pc[i] = "fetch" /\ issued # NotIssued
    /\ LET t == [ends |-> issued + Ttl, expires_at |-> ExpiresAt(i)]
       IN  cache' = t /\ token' = [token EXCEPT ![i] = t]
    /\ lock' = NoInvocation
    /\ Goto(i, "connect")
    /\ UNCHANGED <<clock, now, issued, started, session>>

\* Bug: the token is fetched outside the try.
Bug_FetchRaises(i) ==
    /\ pc[i] = "fetch"
    /\ lock' = NoInvocation
    /\ Goto(i, "done")
    /\ UNCHANGED <<clock, cache, now, issued, started, token, session>>

\* The request fails or times out: the lock is released and the turn degrades.
FetchFails(i) ==
    /\ pc[i] = "fetch"
    /\ lock' = NoInvocation
    /\ Goto(i, "agent")
    /\ UNCHANGED <<clock, cache, now, issued, started, token, session>>

\* enter_context(client) and list_tools_sync: the session opens and lists its tools, or
\* it opens and listing fails, or it does not open. The last two leave the tools empty.
Connect(i) ==
    /\ pc[i] = "connect"
    /\ Goto(i, "agent")
    /\ session' \in {session, session \cup {i}}
    /\ UNCHANGED <<clock, lock, cache, now, issued, started, token>>

\* Bug: the client is entered without the exit stack.
Bug_SessionLeftOpen(i) ==
    /\ pc[i] = "agent"
    /\ Goto(i, "done")
    /\ UNCHANGED <<clock, lock, cache, now, issued, started, token, session>>

\* The agent is done, and leaving the with block closes the session.
Leave(i) ==
    /\ pc[i] = "agent"
    /\ Goto(i, "done")
    /\ session' = session \ {i}
    /\ UNCHANGED <<clock, lock, cache, now, issued, started, token>>

\* A request has its timeout, and a thread that can go on does so at once.
Tick ==
    /\ clock < MaxClock
    /\ lock = NoInvocation => \A i \in Invocations : pc[i] \notin {"lock", "connect"}
    /\ lock # NoInvocation => clock < started + MaxFetch
    /\ clock' = clock + 1
    /\ UNCHANGED <<lock, cache, pc, now, issued, started, token, session>>

Step(i) == ReadClock(i) \/ Acquire(i) \/ Fetched(i) \/ FetchFails(i) \/ Connect(i) \/ Leave(i)

Next == Tick \/ Issue \/ \E i \in Invocations : Step(i)

Spec == Init /\ [][Next]_vars

\* Threads are scheduled, and a request for a token ends one way or the other.
FairSpec == Spec /\ \A i \in Invocations : WF_vars(Step(i))
-----------------------------------------------------------------------------
(* Properties *)

\* Every variable keeps its type, and an MCP session is open only while its agent runs.
GatewayTypeOK ==
    /\ clock \in Nat /\ issued \in Nat /\ started \in Nat
    /\ lock \in Invocations \cup {NoInvocation}
    /\ cache \in Token \cup {NoToken}
    /\ pc \in [Invocations -> {"start", "lock", "fetch", "connect", "agent", "done"}]
    /\ now \in [Invocations -> Nat]
    /\ token \in [Invocations -> Token \cup {NoToken}]
    /\ session \subseteq {i \in Invocations : pc[i] = "agent"}

\* The cache never believes a token to last longer than the IdP does, however long its
\* invocation waited for the lock and for the answer (gateway_tools.py:100 and 106).
ExpiryIsConservative == cache # NoToken => cache.expires_at <= cache.ends

\* "Refresh an OAuth token this many seconds before it actually expires"
\* (gateway_tools.py:51): an invocation connects with a token that has more than the
\* buffer left, though the time it judges the token by is from before its wait for the
\* lock, and others may have held the lock and failed in between.
RefreshedBeforeExpiry ==
    \A i \in Invocations :
        pc[i] = "connect" /\ token[i] # NoToken => clock + Buffer < token[i].ends

\* "A missing or misconfigured Gateway never takes the agent down"
\* (gateway_tools.py:24): whatever fails, every invocation gets to run its agent.
EveryAgentRuns == \A i \in Invocations : pc[i] = "lock" ~> pc[i] = "agent"
=============================================================================
