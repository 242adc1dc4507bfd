------------------------------- MODULE PinList -------------------------------
(***************************************************************************)
(* What the pinned-host store promises, without tasks, locks or temporary  *)
(* files: a set in memory, and a saved copy that is only ever replaced by  *)
(* the whole set as memory holds it at that moment. A restart brings back  *)
(* the saved copy. Where the file system cannot replace a file in one      *)
(* step the saved copy may also be lost.                                   *)
(***************************************************************************)
CONSTANTS Hosts, AtomicReplace

VARIABLES running, live, saved

vars == <<running, live, saved>>

Init ==
    /\ running = TRUE
    /\ saved \in SUBSET Hosts
    /\ live = saved

Pin(h) ==
    /\ running
    /\ h \notin live
    /\ live' = live \cup {h}
    /\ UNCHANGED <<running, saved>>

Reset ==
    /\ running
    /\ live' = {}
    /\ UNCHANGED <<running, saved>>

Save ==
    /\ running
    /\ saved' = live
    /\ UNCHANGED <<running, live>>

Lose ==
    /\ running
    /\ ~AtomicReplace
    /\ saved' = {}
    /\ UNCHANGED <<running, live>>

Stop ==
    /\ running
    /\ running' = FALSE
    /\ live' = {}
    /\ UNCHANGED saved

Start ==
    /\ ~running
    /\ running' = TRUE
    /\ live' = saved
    /\ UNCHANGED saved

Next ==
    \/ \E h \in Hosts : Pin(h)
    \/ Reset
    \/ Save
    \/ Lose
    \/ Stop
    \/ Start

Spec == Init /\ [][Next]_vars
=============================================================================
