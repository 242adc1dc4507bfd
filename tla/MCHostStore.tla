----------------------------- MODULE MCHostStore -----------------------------
(* The pinned-host store for TLC: three tasks, two hosts; one host is also *)
(* spelled with capitals and a trailing dot, one name normalises to "".    *)
EXTENDS HostStore, TLC

CONSTANTS a, b, aDot, dot

MCNames == {a, b, aDot, dot}

MCNormalize == (a :> a) @@ (b :> b) @@ (aDot :> a) @@ (dot :> NoHost)

MCSymmetry == Permutations(Tasks)
=============================================================================
