------------------------------- MODULE FrontDoor -------------------------------
(* The HTTP front door: one API with a route to the Slack verification Lambda      *)
(* and one to the webhook Lambda. Each Lambda caches its signing secret for the    *)
(* life of an execution environment and verifies a keyed signature and its time    *)
(* stamp; the webhook Lambda then calls the agent runtime and returns the reply.   *)
(* What the Slack door does with an event it accepts is in Verification.           *)
EXTENDS Integers

CONSTANTS
    Envs, DoorOf,      \* execution environments, and the Lambda each belongs to
    Requests,          \* HTTP requests that callers send, and send again
    Skew,              \* MAX_TIMESTAMP_SKEW_SECONDS
    Timeout,           \* per door: the Lambda's timeout
    ApiLimit,          \* how long an HTTP API waits for an integration
    MaxSecret, MaxTime, MaxCalls    \* bounds: secret values, clock, requests received

Door == {"slack", "webhook"}

\* A request to a route. "scheme" is the version prefix it was signed with ("v0" for
\* Slack, "v1" for the webhook), or "none" when a header is missing or malformed.
\* Secrets are numbered in the order in which operators generate them.
Request ==
    [door : Door, scheme : Door \cup {"none"}, secret : 1 .. MaxSecret, stamp : Int,
     body : {"empty", "not_json", "challenge", "incomplete", "complete"}]

ASSUME FrontDoorAssumption ==
    /\ DoorOf \in [Envs -> Door]
    /\ Requests \subseteq Request /\ Requests # {}
    /\ Skew \in Nat /\ Timeout \in [Door -> Nat] /\ ApiLimit \in Nat
    /\ MaxSecret \in Nat \ {0} /\ MaxTime \in Nat /\ MaxCalls \in Nat

VARIABLES
    clock, calls,
    stored,            \* per door: the secret in Secrets Manager
    cached,            \* per environment: cachedSigningSecret, 0 when undefined
    oldest,            \* per environment: the door's secret when it started (history)
    pc, call, started, \* per environment: where it is, in which request, since when
    open,              \* per environment: the API still waits for it
    accepted,          \* requests whose signature was accepted, and the acceptor's
                       \* oldest (history)
    returned, answered \* requests for which the runtime returned a reply, and for
                       \* which the caller got one (history)

vars == <<clock, calls, stored, cached, oldest, pc, call, started, open, accepted, returned, answered>>

Init ==
    /\ clock = 0 /\ calls = 0
    /\ stored \in [Door -> 1 .. MaxSecret]
    /\ cached = [e \in Envs |-> 0]
    /\ oldest = [e \in Envs |-> stored[DoorOf[e]]]
    /\ pc = [e \in Envs |-> "idle"]
    /\ call = [e \in Envs |-> CHOOSE r \in Requests : TRUE]
    /\ started = [e \in Envs |-> 0]
    /\ open = [e \in Envs |-> FALSE]
    /\ accepted = {} /\ returned = {} /\ answered = {}

Goto(e, l) == pc' = [pc EXCEPT ![e] = l]

\* Bug: stamps of the future are never too far away.
Bug_NoAbs(now, stamp) == now - stamp <= Skew

Fresh(now, stamp) == -Skew <= now - stamp /\ now - stamp <= Skew

\* Bug: during a rotation the previous secret is accepted as well.
Bug_PreviousSecretToo(door, r, secret, now) ==
    r.scheme = door /\ Fresh(now, r.stamp) /\ r.secret \in {secret, secret - 1}

\* verifySlackSignature and verifyWebhookSignature: the signature is over the version
\* prefix, the stamp and the body, so it matches for one scheme and one secret.
Verify(door, r, secret, now) ==
    r.scheme = door /\ Fresh(now, r.stamp) /\ r.secret = secret

\* Requests that are answered before any secret is read.
Unsigned(r) ==
    \/ r.body = "empty"
    \/ r.door = "slack" /\ r.body \in {"not_json", "challenge"}

\* A request reaches an environment of its route's Lambda.
Post(e, r) ==
    /\ pc[e] = "idle" /\ r.door = DoorOf[e] /\ calls < MaxCalls
    /\ calls' = calls + 1
    /\ Goto(e, IF Unsigned(r) THEN "idle" ELSE "secret")
    /\ call' = [call EXCEPT ![e] = r]
    /\ started' = [started EXCEPT ![e] = clock]
    /\ open' = [open EXCEPT ![e] = ~Unsigned(r)]
    /\ UNCHANGED <<clock, stored, cached, oldest, accepted, returned, answered>>

\* getSigningSecret: the cache, else the answer of Secrets Manager.
getSigningSecret(e) == IF cached[e] # 0 THEN cached[e] ELSE stored[DoorOf[e]]

\* The rest of the handler up to its next await: 401, 400, or a call of the runtime.
\* At the Slack door the accepted event goes its way, and the call is over here.
Check(e) ==
    /\ pc[e] = "secret"
    /\ LET r  == call[e]
           ok == Verify(DoorOf[e], r, getSigningSecret(e), clock)
           invokes == ok /\ DoorOf[e] = "webhook" /\ r.body = "complete"
       IN  /\ cached' = [cached EXCEPT ![e] = getSigningSecret(e)]
           /\ accepted' = IF ok THEN accepted \cup {[request |-> r, oldest |-> oldest[e]]} ELSE accepted
           /\ Goto(e, IF invokes THEN "invoke" ELSE "idle")
           /\ open' = [open EXCEPT ![e] = invokes /\ open[e]]
    /\ UNCHANGED <<clock, calls, stored, oldest, call, started, returned, answered>>

\* Bug: a reply without a body is returned as a 200.
Bug_EmptyReplyIs200(e) ==
    /\ pc[e] = "secret" => cached[e] = 0
    /\ pc[e] # "idle"
    /\ Goto(e, "idle")
    /\ answered' = IF open[e] THEN answered \cup {call[e]} ELSE answered
    /\ open' = [open EXCEPT ![e] = FALSE]
    /\ UNCHANGED <<clock, calls, stored, cached, oldest, call, started, accepted, returned>>

\* Secrets Manager fails and the handler throws, or the runtime fails or returns no
\* body and the handler answers 502.
Fail(e) ==
    /\ pc[e] = "secret" => cached[e] = 0
    /\ pc[e] # "idle"
    /\ Goto(e, "idle")
    /\ open' = [open EXCEPT ![e] = FALSE]
    /\ UNCHANGED <<clock, calls, stored, cached, oldest, call, started, accepted, returned, answered>>

\* The runtime's reply becomes the 200 of the call, if the API still waits for it.
Reply(e) ==
    /\ pc[e] = "invoke"
    /\ returned' = returned \cup {call[e]}
    /\ answered' = IF open[e] THEN answered \cup {call[e]} ELSE answered
    /\ Goto(e, "idle")
    /\ open' = [open EXCEPT ![e] = FALSE]
    /\ UNCHANGED <<clock, calls, stored, cached, oldest, call, started, accepted>>

\* The API gives up and answers 503; the Lambda runs on.
GiveUp(e) ==
    /\ open[e] /\ clock - started[e] >= ApiLimit
    /\ open' = [open EXCEPT ![e] = FALSE]
    /\ UNCHANGED <<clock, calls, stored, cached, oldest, pc, call, started, accepted, returned, answered>>

\* An environment ends: idle for long, or killed at the Lambda's timeout. The next one
\* in its place has an empty cache.
Expired(e) == pc[e] # "idle" /\ clock - started[e] >= Timeout[DoorOf[e]]

Recycle(e) ==
    /\ pc[e] = "idle" \/ Expired(e)
    /\ cached' = [cached EXCEPT ![e] = 0]
    /\ oldest' = [oldest EXCEPT ![e] = stored[DoorOf[e]]]
    /\ Goto(e, "idle")
    /\ open' = [open EXCEPT ![e] = FALSE]
    /\ UNCHANGED <<clock, calls, stored, call, started, accepted, returned, answered>>

\* An operator stores a secret newer than the door's last; it may be the other door's.
Rotate(d) ==
    /\ \E s \in 1 .. MaxSecret : s > stored[d] /\ stored' = [stored EXCEPT ![d] = s]
    /\ UNCHANGED <<clock, calls, cached, oldest, pc, call, started, open, accepted, returned, answered>>

\* Time passes; limits that are reached are enforced first.
Tick ==
    /\ clock < MaxTime
    /\ \A e \in Envs : ~Expired(e) /\ (open[e] => clock - started[e] < ApiLimit)
    /\ clock' = clock + 1
    /\ UNCHANGED <<calls, stored, cached, oldest, pc, call, started, open, accepted, returned, answered>>

Next ==
    \/ Tick
    \/ \E d \in Door : Rotate(d)
    \/ \E e \in Envs :
          \/ \E r \in Requests : Post(e, r)
          \/ Check(e) \/ Fail(e) \/ Reply(e) \/ GiveUp(e) \/ Recycle(e)

Spec == Init /\ [][Next]_vars
-----------------------------------------------------------------------------
(* Properties *)

\* Every variable keeps its type, only calls in progress are waited for, and a caller
\* gets a 200 only with a reply of the runtime.
FrontDoorTypeOK ==
    /\ clock \in 0 .. MaxTime /\ calls \in 0 .. MaxCalls
    /\ stored \in [Door -> 1 .. MaxSecret]
    /\ cached \in [Envs -> 0 .. MaxSecret]
    /\ oldest \in [Envs -> 1 .. MaxSecret]
    /\ pc \in [Envs -> {"idle", "secret", "invoke"}]
    /\ call \in [Envs -> Requests]
    /\ started \in [Envs -> 0 .. MaxTime]
    /\ open \in [Envs -> BOOLEAN]
    /\ accepted \subseteq [request : Requests, oldest : 1 .. MaxSecret]
    /\ answered \subseteq returned /\ returned \subseteq Requests
    /\ \A e \in Envs : open[e] => pc[e] # "idle"

\* A secret that was replaced before an environment started is never accepted by it:
\* after a rotation the old secret dies with the environments that have cached it
\* (webhook index.ts:14, verification index.ts:15).
RetiredSecretRefused == \A a \in accepted : a.request.secret >= a.oldest

\* However often a signed request is sent again, no invocation for it is in progress
\* later than the replay window and the Lambda's timeout allow, nor before the window
\* opens, wherever the handler had to wait for the secret
\* (signature.ts:41, platform-stack.ts:189).
TurnsNearTheirStamp ==
    \A e \in Envs : pc[e] = "invoke" =>
        /\ call[e].stamp - Skew <= clock
        /\ clock <= call[e].stamp + Skew + Timeout["webhook"]

\* "we verify, invoke the runtime, return the reply inline" (platform-stack.ts:176):
\* the caller gets every reply that the runtime returns.
RepliesAreReturned == returned \subseteq answered
=============================================================================
