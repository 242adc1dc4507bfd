------------------------------ MODULE MCRouting ------------------------------
(* Connection routing for TLC: two connections and one reset of the pinned *)
(* hosts; names normalise to a host, to the same host and to nothing.      *)
EXTENDS Routing, TLC

CONSTANTS a, aDot, dot

MCNames == {a, aDot, dot}

MCNormalize == (a :> a) @@ (aDot :> a) @@ (dot :> NoHost)

MCSymmetry == Permutations(Conns)
=============================================================================
