----------------------------- MODULE MCReceipts -----------------------------
(* The receipt store for TLC, with every file operation that may fail. *)
EXTENDS Receipts

MCFaults == FaultKinds

MCLastWrite == {"last_write"}
=============================================================================
