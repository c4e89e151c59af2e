---------------------------- MODULE MCGatewayTools ----------------------------
(* Three invocations share one token; the cfg gives the times.                   *)
EXTENDS GatewayTools
=============================================================================
