----------------------------- MODULE GatewayMC -----------------------------
(* The gateway with one sensor of one area, which may claim another.         *)
EXTENDS Gateway

CONSTANTS s1, s2, here, there

Registered == [s \in Sensors |-> here]
=============================================================================
