--------------------------- MODULE ReceiptsProofs ---------------------------
(***************************************************************************)
(* The dirty flag covers every update, for any number of writers and any   *)
(* faults; and as long as the write of one flush ends before the next      *)
(* begins and no last write of a document is lost, the receipts file is    *)
(* whole and, when the flag is low, current.                               *)
(***************************************************************************)
EXTENDS Receipts, TLAPS

(* While the flush task waits, a lowered flag means that memory is what    *)
(* was last copied for a writer, whatever the writers of flush_if_dirty do *)
(* with the temporary file and however many of them there are.             *)
THEOREM FlagCovers == Spec => []FlagCoversMemory
<1>1. Init => FlagCoversMemory
  BY Zenon DEF Init, FlagCoversMemory
<1>2. FlagCoversMemory /\ [Next]_vars => FlagCoversMemory'
  <2> SUFFICES ASSUME FlagCoversMemory, [Next]_vars PROVE FlagCoversMemory'
    BY Zenon
  <2>1. CASE UNCHANGED vars
    BY <2>1, Zenon DEF FlagCoversMemory, vars, storeVars
  <2>2. CASE \E h \in Hosts : record(h) \/ Ages(h)
    <3>1. dirty' \/ UNCHANGED <<up, dirty, flush, hosts, copied>>
      BY <2>2, Zenon DEF record, Ages
    <3> QED BY <3>1, Zenon DEF FlagCoversMemory
  <2>3. CASE FlushTask
    BY <2>3, Zenon DEF FlagCoversMemory, FlushTask, flush_if_dirty, prune_stale_hosts, Snapshot
  <2>4. CASE \E w \in Writers : WriterStep(w)
    <3>1. UNCHANGED <<up, storeVars, copied>>
      BY <2>4, Zenon DEF WriterStep, Create, CreateFails, Write, WriteFails, LastWriteFails,
                  Rename, RenameFails, RemoveDestination
    <3> QED BY <3>1, Zenon DEF FlagCoversMemory, storeVars
  <2>5. CASE Crash
    BY <2>5, Zenon DEF FlagCoversMemory, Crash
  <2>6. CASE load
    BY <2>6, Zenon DEF FlagCoversMemory, load
  <2> QED BY <2>1, <2>2, <2>3, <2>4, <2>5, <2>6, Zenon DEF Next
<1> QED BY <1>1, <1>2, PTL DEF Spec

-----------------------------------------------------------------------------
(* What a file may hold. *)
LEMMA ContentsFacts ==
    /\ Empty \in Maps
    /\ Torn \in Contents /\ Absent \in Contents /\ Torn # Absent
    /\ \A m \in Maps : /\ Whole(m) \in Contents
                       /\ Whole(m) # Torn /\ Whole(m) # Absent /\ Whole(m).hosts = m
BY ReceiptsAssumption DEF Empty, Maps, Torn, Absent, Contents, Whole

(* What a restart would load is a map of receipts. *)
LEMMA LoadedType == ASSUME TypeOK PROVE Loaded \in Maps
BY Zenon DEF TypeOK, Loaded, Contents, Names

(* ReceiptStore::load starts from no file, with nothing to flush. *)
LEMMA ReceiptsInit == Init => ReceiptsInv
<1> SUFFICES ASSUME Init PROVE ReceiptsInv
  BY Zenon
<1>1. TypeOK
  BY ContentsFacts, Zenon DEF Init, TypeOK
<1>2. Loaded = Empty /\ disk["file"] # Torn
  BY ContentsFacts, Zenon DEF Init, Loaded, Absent, Names
<1> QED BY <1>1, <1>2, Zenon DEF Init, ReceiptsInv, FileAtomic, FileWhole, FlagCoversMemory,
                          CleanMeansSaved, Busy

(* The types, whichever writers share the temporary file. *)
LEMMA ReceiptsTypes == ASSUME TypeOK, [Next]_vars PROVE TypeOK'
<1> USE ContentsFacts
<1>1. CASE UNCHANGED vars
  BY <1>1, Zenon DEF vars, storeVars, writerVars, diskVars, TypeOK
<1>2. ASSUME NEW h \in Hosts, record(h) \/ Ages(h) PROVE TypeOK'
  <2>1. hosts' \in Maps
    BY <1>2, ReceiptsAssumption DEF record, Ages, TypeOK, Maps
  <2> QED BY <1>2, <2>1, Zenon DEF record, Ages, TypeOK, writerVars, diskVars
<1>3. CASE FlushTask
  <2>1. hosts' \in Maps
    BY <1>3, ReceiptsAssumption
       DEF FlushTask, flush_if_dirty, prune_stale_hosts, Snapshot, TypeOK, Maps
  <2> QED BY <1>3, <2>1, Zenon DEF FlushTask, flush_if_dirty, prune_stale_hosts, Snapshot, TypeOK,
                            writerVars, diskVars
<1>4. ASSUME NEW w \in Writers, WriterStep(w) PROVE TypeOK'
  <2>1. \A c \in Contents : Put(w, c) \in [Names -> Contents]
    BY Zenon DEF Put, TypeOK
  <2>2. CASE Create(w)
    BY <2>2, Zenon DEF Create, TypeOK, storeVars, Names
  <2>3. CASE CreateFails(w) \/ RenameFails(w)
    <3>1. WriterEnds(w, TRUE) /\ UNCHANGED <<up, storeVars, diskVars, copied, spoiled>>
      BY <2>3, Zenon DEF CreateFails, RenameFails
    <3>2. wpc' \in [Writers -> {"idle", "create", "write", "rename", "rename_again"}]
      BY <3>1, Zenon DEF WriterEnds, TypeOK
    <3>3. snap' \in [Writers -> Maps] /\ fd' \in [Writers -> Names \cup {"none", "unlinked"}]
      BY <3>1, Zenon DEF WriterEnds, TypeOK
    <3> QED BY <3>1, <3>2, <3>3, Zenon DEF WriterEnds, TypeOK, storeVars, diskVars
  <2>4. CASE Write(w)
    BY <2>1, <2>4 DEF Write, TypeOK, storeVars
  <2>5. CASE WriteFails(w)
    BY <2>1, <2>5, Zenon DEF WriteFails, WriterEnds, TypeOK, storeVars
  <2>9. CASE LastWriteFails(w)
    BY <2>1, <2>9, Zenon DEF LastWriteFails, TypeOK, storeVars
  <2>6. CASE Rename(w)
    BY <2>6, Zenon DEF Rename, TypeOK, storeVars, Names
  <2>8. CASE RemoveDestination(w)
    <3>1. /\ disk' \in [Names -> Contents]
          /\ mixed' \in SUBSET Names
          /\ fd' \in [Writers -> Names \cup {"none", "unlinked"}]
      BY <2>8 DEF RemoveDestination, TypeOK, diskVars
    <3>2. wpc' \in [Writers -> {"idle", "create", "write", "rename", "rename_again"}]
      BY <2>8, Zenon DEF RemoveDestination, TypeOK
    <3> QED BY <2>8, <3>1, <3>2, Zenon DEF RemoveDestination, TypeOK, storeVars
  <2> QED BY <1>4, <2>2, <2>3, <2>4, <2>5, <2>6, <2>8, <2>9, Zenon DEF WriterStep
<1>5. CASE Crash
  BY <1>5, Zenon DEF Crash, TypeOK
<1>6. CASE load
  <2>1. old' \in SUBSET Hosts
    BY <1>6, ReceiptsAssumption, Zenon DEF load
  <2> QED BY <1>6, <2>1, LoadedType, Zenon DEF load, TypeOK, writerVars, diskVars
<1> QED BY <1>1, <1>2, <1>3, <1>4, <1>5, <1>6, Zenon DEF Next

(* Updates, the clock and the flush task leave the disk alone; a writer    *)
(* that is spawned while no other is at work has the last copy.            *)
LEMMA StoreStepInv ==
    ASSUME ReceiptsInv, TypeOK', FlagCoversMemory',
           (\E h \in Hosts : record(h) \/ Ages(h)) \/ FlushTask
    PROVE  ReceiptsInv'
<1> USE DEF ReceiptsInv, FileWhole, FileAtomic, WriterAlone, Busy, writerVars, diskVars
<1>1. Loaded' = Loaded
  BY Zenon DEF record, Ages, FlushTask, flush_if_dirty, prune_stale_hosts, Snapshot, Loaded
<1>2. ASSUME NEW h \in Hosts, record(h) \/ Ages(h) PROVE ReceiptsInv'
  <2>1. CleanMeansSaved'
    BY <1>1, <1>2, Zenon DEF record, Ages, CleanMeansSaved
  <2> QED BY <1>2, <2>1, Zenon DEF record, Ages
<1>3. CASE flush_if_dirty \/ prune_stale_hosts
  BY <1>3 DEF flush_if_dirty, prune_stale_hosts, CleanMeansSaved
<1>4. ASSUME NEW w \in Writers, Snapshot(w) PROVE ReceiptsInv'
  <2>1. CleanMeansSaved'
    BY <1>4 DEF Snapshot, CleanMeansSaved, TypeOK
  <2> QED BY <1>4, <2>1 DEF Snapshot, TypeOK
<1> QED BY <1>2, <1>3, <1>4, Zenon DEF FlushTask

(* A writer alone with the temporary file: a cut-off document stays under  *)
(* the temporary name, and what is renamed is the writer's whole copy.     *)
LEMMA WriterStepInv ==
    ASSUME ReceiptsInv, TypeOK', FlagCoversMemory',
           NEW w \in Writers, WriterStep(w)
    PROVE  ReceiptsInv'
<1> USE DEF ReceiptsInv, FileWhole, FileAtomic, Busy
<1>1. /\ UNCHANGED <<up, storeVars, copied>>
      /\ Busy(w)
      /\ ~spoiled' => ~spoiled
      /\ \A v \in Writers : v # w => wpc'[v] = wpc[v]
  BY Zenon DEF WriterStep, Create, CreateFails, Write, WriteFails, LastWriteFails, Rename,
         RenameFails, RemoveDestination, WriterEnds, TypeOK
<1>2. CASE spoiled'
  BY <1>1, <1>2, Zenon DEF storeVars, CleanMeansSaved
<1>3. CASE ~spoiled'
  <2>1. WriterAlone(w) /\ ~spoiled /\ disk["file"] # Torn
    BY <1>1, <1>3, Zenon
  <2>2. \A v \in Writers : wpc'[v] # "idle" => v = w
    BY <1>1, <2>1, Zenon DEF WriterAlone
  <2>3. /\ disk'["file"] # Torn
        /\ wpc'[w] # "idle" => WriterAlone(w)'
        /\ wpc'[w] = "idle" => failed' \/ Loaded' = copied
    <3>1. CASE Create(w)
      <4>1. /\ wpc'[w] = "write" /\ fd'[w] = "tmp" /\ snap'[w] = copied'
            /\ disk'["file"] = disk["file"]
        BY <2>1, <3>1 DEF Create, WriterAlone, TypeOK, Names
      <4>2. \A v \in Writers : wpc[v] # "write"
        BY <2>1, <3>1, Zenon DEF Create, WriterAlone
      <4>3. "tmp" \notin mixed'
        BY <3>1, <4>2, Zenon DEF Create
      <4> QED BY <2>1, <2>2, <4>1, <4>3, Zenon DEF WriterAlone
    <3>2. CASE CreateFails(w) \/ RenameFails(w)
      BY <2>1, <3>2, Zenon DEF CreateFails, RenameFails, WriterEnds, TypeOK, diskVars
    <3>3. CASE Write(w)
      BY <2>1, <2>2, <3>3 DEF Write, Put, WriterAlone, TypeOK, Names
    <3>4. CASE WriteFails(w)
      BY <2>1, <3>4 DEF WriteFails, WriterEnds, Put, WriterAlone, TypeOK, Names
    <3>5. CASE LastWriteFails(w)
      BY <1>3, <3>5, Zenon DEF LastWriteFails
    <3>6. CASE Rename(w)
      <4>1. disk'["file"] = Whole(copied) /\ wpc'[w] = "idle"
        BY <2>1, <3>6 DEF Rename, WriterAlone, TypeOK, Names
      <4>2. copied \in Maps
        BY Zenon DEF TypeOK
      <4> QED BY <4>1, <4>2, ContentsFacts, Zenon DEF Loaded
    <3>8. CASE RemoveDestination(w)
      BY <2>1, <2>2, <3>8, ContentsFacts
         DEF RemoveDestination, WriterAlone, TypeOK, diskVars, Names
    <3> QED BY <3>1, <3>2, <3>3, <3>4, <3>5, <3>6, <3>8, Zenon DEF WriterStep
  <2>4. CleanMeansSaved'
    BY <1>1, <2>3, Zenon DEF CleanMeansSaved, FlagCoversMemory, storeVars
  <2> QED BY <1>1, <2>1, <2>2, <2>3, <2>4, Zenon DEF storeVars
<1> QED BY <1>2, <1>3, Zenon

(* As long as flushes do not overlap and the error of a last write is not  *)
(* lost, the receipts file that persist_receipts leaves is a whole         *)
(* document at every step, and with the flag low it holds what memory      *)
(* holds, through crashes and every other failure.                         *)
THEOREM ReceiptsSafe == Spec => [](FileWhole /\ CleanMeansSaved)
<1>1. ReceiptsInv /\ [Next]_vars /\ FlagCoversMemory' => ReceiptsInv'
  <2> SUFFICES ASSUME ReceiptsInv, [Next]_vars, FlagCoversMemory' PROVE ReceiptsInv'
    BY Zenon
  <2>1. TypeOK'
    BY ReceiptsTypes, Zenon DEF ReceiptsInv
  <2>2. CASE UNCHANGED vars
    BY <2>2, Zenon DEF vars, storeVars, writerVars, diskVars, ReceiptsInv, TypeOK, FileWhole,
                FileAtomic, FlagCoversMemory, CleanMeansSaved, WriterAlone, Loaded, Busy
  <2>3. CASE (\E h \in Hosts : record(h) \/ Ages(h)) \/ FlushTask
    BY <2>1, <2>3, StoreStepInv, Zenon
  <2>4. CASE \E w \in Writers : WriterStep(w)
    BY <2>1, <2>4, WriterStepInv, Zenon
  <2>5. CASE Crash
    BY <2>1, <2>5, Zenon DEF Crash, ReceiptsInv, FileWhole, FileAtomic, CleanMeansSaved, Busy
  <2>6. CASE load
    BY <2>1, <2>6, Zenon DEF load, writerVars, diskVars, Loaded, ReceiptsInv, FileWhole,
                      FileAtomic, CleanMeansSaved, Busy
  <2> QED BY <2>2, <2>3, <2>4, <2>5, <2>6, Zenon DEF Next
<1>2. ReceiptsInv => FileWhole /\ CleanMeansSaved
  BY Zenon DEF ReceiptsInv
<1> QED BY ReceiptsInit, FlagCovers, <1>1, <1>2, PTL DEF Spec

(* The first half: what persist_receipts is still writing, or left cut     *)
(* off, never gets the name of the receipts file unless flushes overlap or *)
(* the error of a last write is lost.                                      *)
THEOREM FileStaysWhole == Spec => []FileWhole
BY ReceiptsSafe, PTL

(* The second half: with no flush under way, no failed writer and the file *)
(* not spoiled, a lowered dirty flag means that the file holds every       *)
(* update in memory.                                                       *)
THEOREM CleanIsSaved == Spec => []CleanMeansSaved
BY ReceiptsSafe, PTL
=============================================================================
