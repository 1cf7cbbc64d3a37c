---------------------------- MODULE MCUdpForward ----------------------------
(* Two flows over the proxy that share its association; b is a DNS flow, whose *)
(* answers can name the destination of either.                                 *)
EXTENDS UdpForward

CONSTANTS a, b, gw, t, u

MCDest == [f \in Flows |-> IF f = a THEN t ELSE u]

=============================================================================
