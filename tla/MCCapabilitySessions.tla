------------------------- MODULE MCCapabilitySessions -------------------------
(* Two threads ask for a read capability, whose session is the hub's, and for a  *)
(* write capability, bound to a role for dev and with or without another role    *)
(* for a call that names no env.                                                  *)
EXTENDS CapabilitySessions

CONSTANTS iotRead, iotWrite, dev, prod, devRole, prodRole

MCFiles ==
    {[flag |-> "true", envs |-> {}, capabilities |->
        [c \in Capabilities |->
            [kind |-> "mapping", role |-> r,
             envs |-> [n \in Envs |-> IF n = dev THEN devRole ELSE prodRole]]]]
        : r \in {NoRole, prodRole}}
=============================================================================
