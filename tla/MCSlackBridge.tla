--------------------------- MODULE MCSlackBridge ---------------------------
(* Small instances of SlackBridge for TLC. *)
EXTENDS SlackBridge, TLC

\* Two bodies in one thread: order, retries and duplicates.
OneThread == {"t1"}
TwoBodies == {"ask", "blank"}
OneThreadOf == [b \in TwoBodies |-> "t1"]

Blanks == {"blank"}

CONSTANTS e1, e2
EnvironmentSet == {e1, e2}
OneEnvironment == {e1}
EnvironmentSymmetry == Permutations(EnvironmentSet)
=============================================================================
