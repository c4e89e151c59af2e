------------------------------ MODULE MCFrontDoor ------------------------------
(* One Slack and one webhook environment, two secrets, and requests of either      *)
(* scheme and secret, stamped before the instance's span of time and at its end.   *)
EXTENDS FrontDoor

CONSTANTS s1, w1

MCDoorOf == [e \in Envs |-> IF e = s1 THEN "slack" ELSE "webhook"]
MCTimeout == [d \in Door |-> IF d = "slack" THEN 1 ELSE 2]

\* Signed requests that are complete, and others that go wrong in one way.
MCRequests ==
    [door : Door, scheme : Door, secret : {1, 2}, stamp : {-1, 4}, body : {"complete"}]
        \cup [door : Door, scheme : {"webhook"}, secret : {1}, stamp : {0},
              body : {"empty", "not_json", "challenge", "incomplete"}]
        \cup [door : Door, scheme : {"none"}, secret : {1}, stamp : {0}, body : {"complete"}]
=============================================================================
