---------------------------- MODULE MCAgentRuntime ----------------------------
(* Small instances of the agent runtime. Principal u1 is an admin and confirms;  *)
(* u2 is neither, and each of them also calls without the flag or the id.        *)
EXTENDS AgentRuntime

CONSTANTS t1, t2, u1, u2

Call(thread, principal, admin, confirmed) ==
    [thread |-> thread, principal |-> principal, admin |-> admin, confirmed |-> confirmed]

MixedRequests ==
    {Call(t1, u1, TRUE, TRUE), Call(t1, u2, FALSE, FALSE),
     Call(t2, u2, TRUE, FALSE), Call(t2, NoPrincipal, TRUE, FALSE)}

PlainRequests == {Call(t1, u1, FALSE, FALSE)}
=============================================================================
