------------------------------ MODULE CertPins ------------------------------
(***************************************************************************)
(* The trust-on-first-use certificate pins of src/cert_pin.rs: the finger- *)
(* print of the first certificate each upstream host showed, in memory     *)
(* behind an RwLock and mirrored to a JSON file under the write lock. A    *)
(* check reads under the read lock, drops it, and takes the write lock to  *)
(* note the match or to insert the first pin; checks of several            *)
(* connections interleave, file operations fail, the process crashes.      *)
(* Times and hit counts are left out: nothing is decided by them.          *)
(***************************************************************************)
EXTENDS Naturals, FiniteSets

CONSTANTS
    Checks,          \* the connections that check a certificate
    PinHosts,        \* host names as cert_pin.rs normalises them
    Prints,          \* certificate fingerprints
    None,            \* no entry for a host; no host yet
    NoCheck,         \* nobody holds the write lock
    RenameReplaces   \* rename() overwrites an existing destination

ASSUME PinsAssumption ==
    /\ None \notin Prints \cup PinHosts
    /\ NoCheck \notin Checks
    /\ RenameReplaces \in BOOLEAN

VARIABLES
    running,  \* the process runs
    pins,     \* CertPinDb::pins
    pinLock,  \* the check that holds the write half of the RwLock
    pinFile,  \* the file at CertPinDb::path
    pinTmp,   \* the file at path.with_extension("tmp")
    stage,    \* where each call of check_and_update is
    shown,    \* the host and the fingerprint it was called with
    outcome,  \* what it returns, once it is known
    kept      \* ghost: fingerprints a check reported as recorded, ever

pinDisk == <<pinFile, pinTmp>>
checkVars == <<stage, shown, outcome>>
pinVars == <<running, pins, pinLock, pinDisk, checkVars, kept>>

Pins == [PinHosts -> Prints \cup {None}]

NoPins == [h \in PinHosts |-> None]

PinFiles == [kind : {"absent", "pins", "torn"}, pins : Pins]

AbsentPins == [kind |-> "absent", pins |-> NoPins]

TornPins == [kind |-> "torn", pins |-> NoPins]

FileOf(p) == [kind |-> "pins", pins |-> p]

Points == {"idle", "read", "touch", "insert", "write", "rename", "remove", "rename_again", "done"}

Outcomes == {"none", "first_seen", "match", "mismatch", "error"}

Shown == [host : PinHosts, print : Prints]

NothingShown == [host |-> None, print |-> None]

PinsTypeOK ==
    /\ running \in BOOLEAN
    /\ pins \in Pins
    /\ pinLock \in Checks \cup {NoCheck}
    /\ pinFile \in PinFiles
    /\ pinTmp \in PinFiles
    /\ stage \in [Checks -> Points]
    /\ shown \in [Checks -> Shown \cup {NothingShown}]
    /\ outcome \in [Checks -> Outcomes]
    /\ kept \in SUBSET (PinHosts \X Prints)

(* The program has not run yet, or left pins behind. *)
PinsInit ==
    /\ running = FALSE
    /\ pins = NoPins
    /\ pinLock = NoCheck
    /\ pinFile \in {AbsentPins} \cup {FileOf(p) : p \in Pins}
    /\ pinTmp = AbsentPins
    /\ stage = [c \in Checks |-> "idle"]
    /\ shown = [c \in Checks |-> NothingShown]
    /\ outcome = [c \in Checks |-> "none"]
    /\ kept = {}

-----------------------------------------------------------------------------
At(c, p) == stage[c] = p

HostShown(c) == shown[c].host

CertShown(c) == shown[c].print

(* The call returns r; a write guard it holds is dropped.                  *)
PinReturn(c, r) ==
    /\ stage' = [stage EXCEPT ![c] = "done"]
    /\ outcome' = [outcome EXCEPT ![c] = r]
    /\ pinLock' = IF pinLock = c THEN NoCheck ELSE pinLock

(* check_and_update is called with a host and the upstream's certificate.  *)
check_and_update(c, h, f) ==
    /\ running
    /\ At(c, "idle")
    /\ stage' = [stage EXCEPT ![c] = "read"]
    /\ shown' = [shown EXCEPT ![c] = [host |-> h, print |-> f]]
    /\ UNCHANGED <<running, pins, pinLock, pinDisk, outcome, kept>>

(* The fast path under the read lock: a different pin is a mismatch at     *)
(* once, the same pin and no pin go on to wait for the write lock.         *)
ReadPins(c) ==
    LET pinned == pins[HostShown(c)] IN
    /\ At(c, "read")
    /\ pinLock = NoCheck
    /\ IF pinned \notin {None, CertShown(c)}
         THEN PinReturn(c, "mismatch")
         ELSE /\ stage' = [stage EXCEPT ![c] = IF pinned = None THEN "insert" ELSE "touch"]
              /\ UNCHANGED <<pinLock, outcome>>
    /\ UNCHANGED <<running, pins, pinDisk, shown, kept>>

(* The write lock is granted to a match, which persists its hit. *)
TouchLocked(c) ==
    /\ At(c, "touch")
    /\ pinLock = NoCheck
    /\ pinLock' = c
    /\ stage' = [stage EXCEPT ![c] = "write"]
    /\ outcome' = [outcome EXCEPT ![c] = "match"]
    /\ UNCHANGED <<running, pins, pinDisk, shown, kept>>

(* Mutant: the second look takes a pin that is there for a match. *)
InsertAnyPrint(c) ==
    /\ At(c, "insert")
    /\ pinLock = NoCheck
    /\ IF pins[HostShown(c)] # None
         THEN /\ PinReturn(c, "match")
              /\ UNCHANGED pins
         ELSE /\ pins' = [pins EXCEPT ![HostShown(c)] = CertShown(c)]
              /\ pinLock' = c
              /\ stage' = [stage EXCEPT ![c] = "write"]
              /\ outcome' = [outcome EXCEPT ![c] = "first_seen"]
    /\ UNCHANGED <<running, pinDisk, shown, kept>>

(* The write lock is granted to a first sighting, which looks again: a pin *)
(* inserted in between decides, and nothing is persisted.                  *)
InsertLocked(c) ==
    LET pinned == pins[HostShown(c)] IN
    /\ At(c, "insert")
    /\ pinLock = NoCheck
    /\ IF pinned # None
         THEN /\ PinReturn(c, IF pinned = CertShown(c) THEN "match" ELSE "mismatch")
              /\ UNCHANGED pins
         ELSE /\ pins' = [pins EXCEPT ![HostShown(c)] = CertShown(c)]
              /\ pinLock' = c
              /\ stage' = [stage EXCEPT ![c] = "write"]
              /\ outcome' = [outcome EXCEPT ![c] = "first_seen"]
    /\ UNCHANGED <<running, pinDisk, shown, kept>>

(* persist: the document is written to the temporary file. *)
WritePins(c) ==
    /\ At(c, "write")
    /\ pinTmp' = FileOf(pins)
    /\ stage' = [stage EXCEPT ![c] = "rename"]
    /\ UNCHANGED <<running, pins, pinLock, pinFile, shown, outcome, kept>>

(* The directory or the file cannot be written; memory keeps the pin. *)
WritePinsFails(c) ==
    /\ At(c, "write")
    /\ pinTmp' \in {pinTmp, TornPins}
    /\ PinReturn(c, "error")
    /\ UNCHANGED <<running, pins, pinFile, shown, kept>>

(* Mutant: the call returns although the rename failed. *)
RenamePinsUnreported(c) ==
    /\ At(c, "rename") \/ At(c, "rename_again")
    /\ PinReturn(c, outcome[c])
    /\ kept' = kept \cup {<<HostShown(c), CertShown(c)>>}
    /\ UNCHANGED <<running, pins, pinDisk, shown>>

(* fs::rename succeeds, at the first or at the second attempt. *)
RenamePins(c) ==
    /\ At(c, "rename") \/ At(c, "rename_again")
    /\ pinFile' = pinTmp
    /\ pinTmp' = AbsentPins
    /\ PinReturn(c, outcome[c])
    /\ kept' = kept \cup {<<HostShown(c), CertShown(c)>>}
    /\ UNCHANGED <<running, pins, shown>>

(* The first rename answers AlreadyExists or PermissionDenied. *)
RenamePinsRefused(c) ==
    /\ At(c, "rename")
    /\ stage' = [stage EXCEPT ![c] = "remove"]
    /\ UNCHANGED <<running, pins, pinLock, pinDisk, shown, outcome, kept>>

(* The destination is removed, the result ignored. Where rename() replaces *)
(* the refusal was one of permission, and remove_file meets it too.        *)
RemovePins(c) ==
    /\ At(c, "remove")
    /\ pinFile' \in IF RenameReplaces THEN {pinFile} ELSE {pinFile, AbsentPins}
    /\ stage' = [stage EXCEPT ![c] = "rename_again"]
    /\ UNCHANGED <<running, pins, pinLock, pinTmp, shown, outcome, kept>>

(* Another error of the first rename, or any error of the second. *)
RenamePinsFails(c) ==
    /\ At(c, "rename") \/ At(c, "rename_again")
    /\ PinReturn(c, "error")
    /\ UNCHANGED <<running, pins, pinDisk, shown, kept>>

CheckStep(c) ==
    \/ ReadPins(c)
    \/ TouchLocked(c)
    \/ InsertLocked(c)
    \/ WritePins(c)
    \/ WritePinsFails(c)
    \/ RenamePins(c)
    \/ RenamePinsRefused(c)
    \/ RemovePins(c)
    \/ RenamePinsFails(c)

(* The process dies; a temporary file being written is left cut off. *)
PinsCrash ==
    /\ running
    /\ running' = FALSE
    /\ pins' = NoPins
    /\ pinLock' = NoCheck
    /\ pinTmp' \in IF \E c \in Checks : At(c, "write") THEN {pinTmp, TornPins} ELSE {pinTmp}
    /\ stage' = [c \in Checks |-> "idle"]
    /\ shown' = [c \in Checks |-> NothingShown]
    /\ outcome' = [c \in Checks |-> "none"]
    /\ UNCHANGED <<pinFile, kept>>

(* CertPinDb::load: no file is no pins, a document that does not parse     *)
(* stops the program.                                                      *)
PinsLoad ==
    /\ ~running
    /\ pinFile.kind # "torn"
    /\ running' = TRUE
    /\ pins' = pinFile.pins
    /\ UNCHANGED <<pinLock, pinDisk, checkVars, kept>>

PinsNext ==
    \/ \E c \in Checks :
          \/ \E h \in PinHosts, f \in Prints : check_and_update(c, h, f)
          \/ CheckStep(c)
    \/ PinsCrash
    \/ PinsLoad

PinsSpec == PinsInit /\ [][PinsNext]_pinVars

-----------------------------------------------------------------------------
(* Properties *)

PinPersisting == {"write", "rename", "remove", "rename_again"}

(* A fingerprint that check_and_update reported as recorded or matched     *)
(* after persisting is the one a restart loads, whatever failed or crashed *)
(* since (on a file system whose rename() replaces), and the file a start  *)
(* reads always parses.                                                    *)
PinsDurable ==
    /\ pinFile.kind # "torn"
    /\ RenameReplaces => \A p \in kept : pinFile.pins[p[1]] = p[2]

(* A check that ended without reporting a change saw the certificate that  *)
(* is pinned: the pin of a host is never replaced, by however many first   *)
(* sightings at once.                                                      *)
QuietMeansPinned ==
    \A c \in Checks :
        At(c, "done") /\ outcome[c] # "mismatch" => pins[HostShown(c)] = CertShown(c)

(* The inductive invariant: who holds the lock, what the temporary file    *)
(* holds, and that memory has every pin that was ever kept.                *)
PinsInv ==
    /\ PinsTypeOK
    /\ \A c \in Checks : stage[c] \in PinPersisting <=> pinLock = c
    /\ \A c \in Checks : stage[c] \in PinPersisting \ {"write"} => pinTmp = FileOf(pins)
    /\ \A c \in Checks : stage[c] # "idle" =>
            running /\ shown[c] \in Shown
    /\ \A c \in Checks : stage[c] \in PinPersisting \cup {"touch"}
                            => pins[HostShown(c)] = CertShown(c)
    /\ \A c \in Checks : stage[c] \in PinPersisting => outcome[c] \in {"first_seen", "match"}
    /\ RenameReplaces /\ running => \A p \in kept : pins[p[1]] = p[2]
    /\ PinsDurable
    /\ QuietMeansPinned
=============================================================================
