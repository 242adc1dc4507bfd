--------------------------- MODULE MCFilterLists ---------------------------
(* Filter lists for TLC: two URLs with a local file between them. *)
EXTENDS FilterLists, TLC

MCSources == <<"u1", "local", "u2">>

MCFilename == ("u1" :> "f1") @@ ("u2" :> "f2")
=============================================================================
