------------------------------ MODULE Receipts ------------------------------
(***************************************************************************)
(* The receipt store of src/receipts.rs and the flush task of src/main.rs. *)
(* Connection tasks update the map in memory and raise a dirty flag; every *)
(* tick of the flush task lowers the flag, prunes hosts unseen for six     *)
(* hours, copies the map and hands the copy to a blocking thread that is   *)
(* not awaited. That thread writes path.with_extension("tmp") and renames  *)
(* it. Writers of two ticks therefore share one temporary file: opening it *)
(* again truncates what is being written, and a file that is renamed while *)
(* it is written keeps its writer.                                         *)
(***************************************************************************)
EXTENDS Naturals

CONSTANTS
    Hosts,      \* normalised, non-empty host names
    Quiet,      \* bound: the hosts that may be unseen for six hours
    Writers,    \* bound: the writers of how many flushes may be at work at once
    MaxCount,   \* where a counter saturates
    Faults      \* the file operations that may fail

FaultKinds == {"create", "write", "last_write", "refused", "rename"}

ASSUME ReceiptsAssumption ==
    /\ Quiet \subseteq Hosts
    /\ MaxCount \in Nat \ {0}
    /\ Faults \subseteq FaultKinds

VARIABLES
    up,      \* the process is running
    hosts,   \* ReceiptStore::hosts: the updates counted per host, 0 for no entry
    old,     \* the hosts whose last_seen_unix is more than six hours ago
    dirty,   \* ReceiptStore::dirty
    flush,   \* where the flush task is in flush_if_dirty
    wpc,     \* where each writer is in persist_receipts
    snap,    \* the copy each writer was given
    fd,      \* the name that what each writer has open goes by
    disk,    \* what is at ReceiptStore::path, "file", and beside it, "tmp"
    mixed,   \* the names of what two writers have been writing to at once
    failed,  \* ghost: the last writer to finish did not replace the file
    copied,  \* ghost: the map last copied for a writer, or loaded
    spoiled  \* ghost: since the start of the process a writer was spawned while
             \* another was at work, or the error of a last write was lost

storeVars == <<hosts, old, dirty, flush>>
writerVars == <<wpc, snap, fd>>
diskVars == <<disk, mixed>>
vars == <<up, storeVars, writerVars, diskVars, failed, copied, spoiled>>

Maps == [Hosts -> 0..MaxCount]

Empty == [h \in Hosts |-> 0]

(* A name stands for nothing, for part of a document, or for all of it. *)
Absent == [is |-> "absent", hosts |-> Empty]

Torn == [is |-> "torn", hosts |-> Empty]

Whole(m) == [is |-> "whole", hosts |-> m]

Contents == [is : {"absent", "torn", "whole"}, hosts : Maps]

Names == {"file", "tmp"}

(* What load_receipts returns where it does not fail. *)
Loaded == disk["file"].hosts

TypeOK ==
    /\ up \in BOOLEAN
    /\ hosts \in Maps
    /\ old \in SUBSET Hosts
    /\ dirty \in BOOLEAN
    /\ flush \in {"idle", "swapped", "pruned"}
    /\ wpc \in [Writers -> {"idle", "create", "write", "rename", "rename_again"}]
    /\ snap \in [Writers -> Maps]
    /\ fd \in [Writers -> Names \cup {"none", "unlinked"}]
    /\ disk \in [Names -> Contents]
    /\ mixed \in SUBSET Names
    /\ failed \in BOOLEAN
    /\ copied \in Maps
    /\ spoiled \in BOOLEAN

Init ==
    /\ up = TRUE
    /\ hosts = Empty
    /\ old = {}
    /\ dirty = FALSE
    /\ flush = "idle"
    /\ wpc = [w \in Writers |-> "idle"]
    /\ snap = [w \in Writers |-> Empty]
    /\ fd = [w \in Writers |-> "none"]
    /\ disk = [n \in Names |-> Absent]
    /\ mixed = {}
    /\ failed = FALSE
    /\ copied = Empty
    /\ spoiled = FALSE

-----------------------------------------------------------------------------
(* The connection tasks and the clock *)

(* Mutant: an update that creates the entry does not raise the flag. *)
record_unflagged(h) ==
    /\ up
    /\ hosts' = [hosts EXCEPT ![h] = IF @ < MaxCount THEN @ + 1 ELSE @]
    /\ old' = old \ {h}
    /\ dirty' = (dirty \/ hosts[h] > 0)
    /\ UNCHANGED <<up, flush, writerVars, diskVars, failed, copied, spoiled>>

(* touch() or a counter update: the entry counts up, saturating, is seen   *)
(* now, and the flag is raised, all under the write lock. The lock is never *)
(* kept across another step, so it is not a variable.                      *)
record(h) ==
    /\ up
    /\ hosts' = [hosts EXCEPT ![h] = IF @ < MaxCount THEN @ + 1 ELSE @]
    /\ old' = old \ {h}
    /\ dirty' = TRUE
    /\ UNCHANGED <<up, flush, writerVars, diskVars, failed, copied, spoiled>>

(* Six hours pass without an update of the host. *)
Ages(h) ==
    /\ up
    /\ h \in Quiet \ old
    /\ hosts[h] > 0
    /\ old' = old \cup {h}
    /\ UNCHANGED <<up, hosts, dirty, flush, writerVars, diskVars, failed, copied, spoiled>>

-----------------------------------------------------------------------------
(* The flush task *)

Busy(w) == wpc[w] # "idle"

(* A tick that finds the flag raised lowers it first; one that does not    *)
(* returns Ok(false) and changes nothing.                                  *)
flush_if_dirty ==
    /\ up
    /\ flush = "idle"
    /\ dirty
    /\ \E w \in Writers : ~Busy(w)
    /\ dirty' = FALSE
    /\ flush' = "swapped"
    /\ UNCHANGED <<up, hosts, old, writerVars, diskVars, failed, copied, spoiled>>

(* Mutant: a flush with nothing to prune stops there. *)
prune_or_stop ==
    /\ flush = "swapped"
    /\ hosts' = [h \in Hosts |-> IF h \in old THEN 0 ELSE hosts[h]]
    /\ flush' = IF old = {} THEN "idle" ELSE "pruned"
    /\ old' = {}
    /\ UNCHANGED <<up, dirty, writerVars, diskVars, failed, copied, spoiled>>

prune_stale_hosts ==
    /\ flush = "swapped"
    /\ hosts' = [h \in Hosts |-> IF h \in old THEN 0 ELSE hosts[h]]
    /\ old' = {}
    /\ flush' = "pruned"
    /\ UNCHANGED <<up, dirty, writerVars, diskVars, failed, copied, spoiled>>

(* The map is copied under the read lock and the writer is spawned. *)
Snapshot(w) ==
    /\ flush = "pruned"
    /\ ~Busy(w)
    /\ snap' = [snap EXCEPT ![w] = hosts]
    /\ copied' = hosts
    /\ spoiled' = (spoiled \/ \E v \in Writers : Busy(v))
    /\ wpc' = [wpc EXCEPT ![w] = "create"]
    /\ flush' = "idle"
    /\ UNCHANGED <<up, hosts, old, dirty, fd, diskVars, failed>>

-----------------------------------------------------------------------------
(* persist_receipts in a blocking thread *)

(* The writer returns; it is the next tick that may start it again. *)
WriterEnds(w, f) ==
    /\ wpc' = [wpc EXCEPT ![w] = "idle"]
    /\ snap' = [snap EXCEPT ![w] = Empty]
    /\ fd' = [fd EXCEPT ![w] = "none"]
    /\ failed' = f

(* File::create: the temporary file that is there is truncated, whoever is *)
(* still writing to it; otherwise there is a new one.                      *)
Create(w) ==
    /\ wpc[w] = "create"
    /\ fd' = [fd EXCEPT ![w] = "tmp"]
    /\ disk' = [disk EXCEPT !["tmp"] = Torn]
    /\ mixed' = IF \E v \in Writers : wpc[v] = "write" /\ fd[v] = "tmp"
                  THEN mixed \cup {"tmp"}
                  ELSE mixed \ {"tmp"}
    /\ wpc' = [wpc EXCEPT ![w] = "write"]
    /\ UNCHANGED <<up, storeVars, snap, failed, copied, spoiled>>

CreateFails(w) ==
    /\ "create" \in Faults
    /\ wpc[w] = "create"
    /\ WriterEnds(w, TRUE)
    /\ UNCHANGED <<up, storeVars, diskVars, copied, spoiled>>

(* What a writer has open gets contents c. *)
Put(w, c) == [n \in Names |-> IF n = fd[w] THEN c ELSE disk[n]]

(* The whole document is written and the file closed. Two writers of one   *)
(* file, each at its own offset, may leave either document or a mixture.   *)
Write(w) ==
    /\ wpc[w] = "write"
    /\ \E c \in {Whole(snap[w])} \cup (IF fd[w] \in mixed THEN {Torn} ELSE {}) :
          disk' = Put(w, c)
    /\ fd' = [fd EXCEPT ![w] = "none"]
    /\ wpc' = [wpc EXCEPT ![w] = "rename"]
    /\ UNCHANGED <<up, storeVars, snap, mixed, failed, copied, spoiled>>

(* Mutant: the error of a write is ignored. *)
WriteErrorIgnored(w) ==
    /\ "write" \in Faults
    /\ wpc[w] = "write"
    /\ disk' = Put(w, Torn)
    /\ fd' = [fd EXCEPT ![w] = "none"]
    /\ wpc' = [wpc EXCEPT ![w] = "rename"]
    /\ UNCHANGED <<up, storeVars, snap, mixed, failed, copied, spoiled>>

(* A write inside to_writer_pretty fails and `?` returns it. *)
WriteFails(w) ==
    /\ "write" \in Faults
    /\ wpc[w] = "write"
    /\ disk' = Put(w, Torn)
    /\ WriterEnds(w, TRUE)
    /\ UNCHANGED <<up, storeVars, mixed, copied, spoiled>>

(* The last buffer is only written when to_writer_pretty drops the         *)
(* BufWriter, and a drop cannot report an error.                           *)
LastWriteFails(w) ==
    /\ "last_write" \in Faults
    /\ wpc[w] = "write"
    /\ disk' = Put(w, Torn)
    /\ fd' = [fd EXCEPT ![w] = "none"]
    /\ wpc' = [wpc EXCEPT ![w] = "rename"]
    /\ spoiled' = TRUE
    /\ UNCHANGED <<up, storeVars, snap, mixed, failed, copied>>

(* Mutant: the flag is lowered once the file is in place. *)
RenameLowersFlag(w) ==
    /\ wpc[w] \in {"rename", "rename_again"}
    /\ disk["tmp"] # Absent
    /\ disk' = [n \in Names |-> IF n = "file" THEN disk["tmp"] ELSE Absent]
    /\ mixed' = {}
    /\ dirty' = FALSE
    /\ WriterEnds(w, FALSE)
    /\ UNCHANGED <<up, hosts, old, flush, copied, spoiled>>

(* fs::rename moves whatever the temporary name stands for by now, with    *)
(* those who write to it.                                                  *)
Rename(w) ==
    /\ wpc[w] \in {"rename", "rename_again"}
    /\ disk["tmp"] # Absent
    /\ disk' = [n \in Names |-> IF n = "file" THEN disk["tmp"] ELSE Absent]
    /\ mixed' = IF "tmp" \in mixed THEN {"file"} ELSE {}
    /\ fd' = [v \in Writers |-> CASE fd[v] = "tmp" -> "file"
                                  [] fd[v] = "file" -> "unlinked"
                                  [] OTHER -> fd[v]]
    /\ wpc' = [wpc EXCEPT ![w] = "idle"]
    /\ snap' = [snap EXCEPT ![w] = Empty]
    /\ failed' = FALSE
    /\ UNCHANGED <<up, storeVars, copied, spoiled>>

(* It fails where another writer has already moved the file. *)
RenameFails(w) ==
    /\ wpc[w] \in {"rename", "rename_again"}
    /\ disk["tmp"] = Absent \/ "rename" \in Faults
    /\ WriterEnds(w, TRUE)
    /\ UNCHANGED <<up, storeVars, diskVars, copied, spoiled>>

(* AlreadyExists or PermissionDenied: the refused rename changes nothing;   *)
(* the destination is removed, if it can be, before the rename is tried    *)
(* again.                                                                  *)
RemoveDestination(w) ==
    /\ "refused" \in Faults
    /\ wpc[w] = "rename"
    /\ \/ UNCHANGED <<fd, diskVars>>
       \/ /\ disk' = [disk EXCEPT !["file"] = Absent]
          /\ fd' = [v \in Writers |-> IF fd[v] = "file" THEN "unlinked" ELSE fd[v]]
          /\ mixed' = mixed \ {"file"}
    /\ wpc' = [wpc EXCEPT ![w] = "rename_again"]
    /\ UNCHANGED <<up, storeVars, snap, failed, copied, spoiled>>

-----------------------------------------------------------------------------
(* The process *)

(* There is no flush on the way out: every end of the process is this one. *)
Crash ==
    /\ up
    /\ up' = FALSE
    /\ hosts' = Empty
    /\ old' = {}
    /\ dirty' = FALSE
    /\ flush' = "idle"
    /\ wpc' = [w \in Writers |-> "idle"]
    /\ snap' = [w \in Writers |-> Empty]
    /\ fd' = [w \in Writers |-> "none"]
    /\ failed' = FALSE
    /\ copied' = Empty
    /\ mixed' = {}
    /\ UNCHANGED <<disk, spoiled>>

(* ReceiptStore::load: a document that does not parse stops the program. *)
load ==
    /\ ~up
    /\ disk["file"] # Torn
    /\ up' = TRUE
    /\ hosts' = Loaded
    /\ copied' = Loaded
    /\ spoiled' = FALSE
    /\ old' \in SUBSET {h \in Quiet : Loaded[h] > 0}
    /\ UNCHANGED <<dirty, flush, writerVars, diskVars, failed>>

WriterStep(w) ==
    \/ Create(w)
    \/ CreateFails(w)
    \/ Write(w)
    \/ WriteFails(w)
    \/ LastWriteFails(w)
    \/ Rename(w)
    \/ RenameFails(w)
    \/ RemoveDestination(w)

FlushTask ==
    \/ flush_if_dirty
    \/ prune_stale_hosts
    \/ \E w \in Writers : Snapshot(w)

Next ==
    \/ \E h \in Hosts : record(h) \/ Ages(h)
    \/ FlushTask
    \/ \E w \in Writers : WriterStep(w)
    \/ Crash
    \/ load

Spec == Init /\ [][Next]_vars

(* The interval timer keeps ticking and a blocking thread runs to its end. *)
FairSpec == Spec /\ WF_vars(FlushTask) /\ \A w \in Writers : WF_vars(WriterStep(w))

-----------------------------------------------------------------------------
(* Properties *)

(* The receipts file, at any moment a crash may fall on, is a document     *)
(* that load_receipts parses: this is what the temporary file and the      *)
(* rename of persist_receipts are for.                                     *)
FileAtomic == disk["file"] # Torn

(* While the flush task waits for its next tick, a lowered dirty flag      *)
(* means that memory is exactly what was last copied for a writer: an      *)
(* update between the swap, the pruning and the copy of a flush is in that *)
(* copy or raises the flag again. This needs no assumption on the writers. *)
FlagCoversMemory == up /\ ~dirty /\ flush = "idle" => hosts = copied

(* The same, as long as no two writers of flush_if_dirty have been at work *)
(* at once and no last write was lost: what a writer is still writing, or  *)
(* left cut off when it failed, never gets the name of the receipts file.  *)
FileWhole == ~spoiled => FileAtomic

(* While no flush is under way, a lowered dirty flag means that the file   *)
(* holds every update in memory, unless the last writer failed: an update  *)
(* between the swap, the pruning, the copy and the rename of a flush is    *)
(* either in the copy or raises the flag for the next tick.                *)
CleanMeansSaved ==
    up /\ ~dirty /\ flush = "idle" /\ (\A w \in Writers : ~Busy(w)) /\ ~failed /\ ~spoiled
        => Loaded = hosts

(* An update is in the file sooner or later, however updates of this and   *)
(* of other hosts, and the pruning of others, interleave with the swap,    *)
(* the copy and the writer of each flush, unless the entry is pruned as    *)
(* stale, a writer fails, flushes overlap or the process ends first.       *)
UpdatesReachFile ==
    \A h \in Hosts, n \in 1..MaxCount :
        (up /\ hosts[h] = n)
            ~> (~up \/ Loaded[h] >= n \/ hosts[h] = 0 \/ failed \/ spoiled)

(* The writer at work, alone: it has the temporary file, and what is ready *)
(* to be renamed is the whole of the map last copied.                      *)
WriterAlone(w) ==
    /\ \A v \in Writers : Busy(v) => v = w
    /\ wpc[w] = "write" => fd[w] = "tmp" /\ "tmp" \notin mixed
    /\ wpc[w] \in {"rename", "rename_again"} => disk["tmp"] = Whole(snap[w])
    /\ snap[w] = copied

(* The inductive invariant. *)
ReceiptsInv ==
    /\ TypeOK
    /\ ~up => flush = "idle" /\ \A w \in Writers : ~Busy(w)
    /\ FlagCoversMemory
    /\ FileWhole
    /\ CleanMeansSaved
    /\ ~spoiled => \A w \in Writers : Busy(w) => WriterAlone(w)
=============================================================================
