--------------------------- MODULE MCInterception ---------------------------
(* Interception for TLC: two connections, two CAs, and a host that is also *)
(* spelled with a trailing dot, which the pins drop and the leaves keep.   *)
EXTENDS Interception, TLC

CONSTANTS a, aDot

MCPinName == (a :> a) @@ (aDot :> a)

MCLeafName == (a :> a) @@ (aDot :> aDot)

MCSymmetry == Permutations(Conns) \cup Permutations(Prints)
=============================================================================
