------------------------------ MODULE HostStore ------------------------------
(***************************************************************************)
(* The pinned-host store of src/host_store.rs: the set of hosts that must  *)
(* not be intercepted, kept in memory behind an RwLock and mirrored to a   *)
(* JSON file by writing a temporary file and renaming it over the old one. *)
(* Tasks (connection tasks that auto-pin a host, dashboard requests that   *)
(* reset the list) call it concurrently; file operations may fail and the  *)
(* process may crash between any two of them.                              *)
(***************************************************************************)
EXTENDS Naturals, FiniteSets

CONSTANTS
    Tasks,           \* the tasks that may call the store
    Hosts,           \* normalised host names
    Names,           \* host names as callers spell them
    normalize_host,  \* [Names -> Hosts \cup {NoHost}]
    NoHost,          \* the empty normalised name
    NoTask,          \* nobody holds the write lock
    RenameReplaces   \* rename() overwrites an existing destination

ASSUME StoreAssumption ==
    /\ NoHost \notin Hosts
    /\ NoTask \notin Tasks
    /\ normalize_host \in [Names -> Hosts \cup {NoHost}]
    /\ RenameReplaces \in BOOLEAN

VARIABLES
    up,      \* the process is running
    hosts,   \* PinnedHosts::hosts
    grace,   \* created_at.elapsed() < AUTO_PIN_GRACE_PERIOD_SECS
    lock,    \* the task holding the write half of the RwLock, or NoTask
    file,    \* the file at PinnedHosts::path
    tmp,     \* the file at path.with_extension("tmp")
    pc,      \* where each task is in its call
    call,    \* the operation each task called
    ret,     \* what the last call of each task returned
    acked,   \* ghost: hosts whose pinning was reported, since the last reset
    stale    \* ghost: the last persist of this process failed

diskVars == <<file, tmp>>
callVars == <<pc, call, ret>>
ghostVars == <<acked, stale>>
storeVars == <<up, hosts, grace, lock, diskVars, callVars, ghostVars>>

(* A file is missing, holds a complete list, or was cut off while written. *)
File == [kind : {"absent", "list", "torn"}, hosts : SUBSET Hosts]

NoFile == [kind |-> "absent", hosts |-> {}]

TornFile == [kind |-> "torn", hosts |-> {}]

ListFile(S) == [kind |-> "list", hosts |-> S]

Steps == {"idle", "wait", "write", "rename", "remove", "rename_again", "done"}

Calls == [op : {"add", "clear"}, host : Hosts \cup {NoHost}]

NoCall == [op |-> "clear", host |-> NoHost]

Results == {"none", "true", "false", "removed", "error"}

StoreTypeOK ==
    /\ up \in BOOLEAN
    /\ hosts \in SUBSET Hosts
    /\ grace \in BOOLEAN
    /\ lock \in Tasks \cup {NoTask}
    /\ file \in File
    /\ tmp \in File
    /\ pc \in [Tasks -> Steps]
    /\ call \in [Tasks -> Calls]
    /\ ret \in [Tasks -> Results]
    /\ acked \in SUBSET Hosts
    /\ stale \in BOOLEAN

(* The program starts on whatever list an earlier run left behind. *)
StoreInit ==
    /\ up = TRUE
    /\ file \in {NoFile} \cup {ListFile(S) : S \in SUBSET Hosts}
    /\ tmp \in {NoFile, TornFile}
    /\ hosts = file.hosts
    /\ grace = TRUE
    /\ lock = NoTask
    /\ pc = [t \in Tasks |-> "idle"]
    /\ call = [t \in Tasks |-> NoCall]
    /\ ret = [t \in Tasks |-> "none"]
    /\ acked = {}
    /\ stale = FALSE

-----------------------------------------------------------------------------
(* PinnedHosts::contains takes the read lock, which a writer excludes. *)
Readable == up /\ lock = NoTask

contains(n) == normalize_host[n] \in hosts

in_grace_period == grace

(* The call returns r to task t and the write guard, if any, is dropped. *)
Return(t, r) ==
    /\ pc' = [pc EXCEPT ![t] = "done"]
    /\ ret' = [ret EXCEPT ![t] = r]
    /\ lock' = IF lock = t THEN NoTask ELSE lock

(* add_and_persist is called: an empty name returns before the lock. *)
add_and_persist(t, n) ==
    LET h == normalize_host[n] IN
    /\ up
    /\ pc[t] = "idle"
    /\ call' = [call EXCEPT ![t] = [op |-> "add", host |-> h]]
    /\ IF h = NoHost
         THEN Return(t, "false")
         ELSE /\ pc' = [pc EXCEPT ![t] = "wait"]
              /\ UNCHANGED <<ret, lock>>
    /\ UNCHANGED <<up, hosts, grace, diskVars, ghostVars>>

(* clear_and_persist is called and waits for the lock. *)
clear_and_persist(t) ==
    /\ up
    /\ pc[t] = "idle"
    /\ call' = [call EXCEPT ![t] = NoCall]
    /\ pc' = [pc EXCEPT ![t] = "wait"]
    /\ UNCHANGED <<up, hosts, grace, lock, diskVars, ret, ghostVars>>

(* Mutant: the host is persisted again although it is already there. *)
AddUnchecked(t) ==
    /\ pc[t] = "wait"
    /\ call[t].op = "add"
    /\ lock = NoTask
    /\ hosts' = hosts \cup {call[t].host}
    /\ lock' = t
    /\ pc' = [pc EXCEPT ![t] = "write"]
    /\ UNCHANGED <<up, grace, diskVars, call, ret, ghostVars>>

(* Mutant: the guard is dropped before the list is persisted. *)
AddUnguarded(t) ==
    /\ pc[t] = "wait"
    /\ call[t].op = "add"
    /\ lock = NoTask
    /\ call[t].host \notin hosts
    /\ hosts' = hosts \cup {call[t].host}
    /\ pc' = [pc EXCEPT ![t] = "write"]
    /\ UNCHANGED <<up, grace, lock, diskVars, call, ret, ghostVars>>

(* The write lock is granted and the set in memory changes; a host that is *)
(* already there returns at once, everything else goes on to persist.      *)
AddLocked(t) ==
    /\ pc[t] = "wait"
    /\ call[t].op = "add"
    /\ lock = NoTask
    /\ IF call[t].host \in hosts
         THEN /\ Return(t, "false")
              /\ UNCHANGED hosts
         ELSE /\ hosts' = hosts \cup {call[t].host}
              /\ lock' = t
              /\ pc' = [pc EXCEPT ![t] = "write"]
              /\ UNCHANGED ret
    /\ UNCHANGED <<up, grace, diskVars, call, ghostVars>>

(* Mutant: the reset is not persisted. *)
ClearInMemory(t) ==
    /\ pc[t] = "wait"
    /\ call[t].op = "clear"
    /\ lock = NoTask
    /\ hosts' = {}
    /\ acked' = {}
    /\ Return(t, "removed")
    /\ UNCHANGED <<up, grace, diskVars, call, stale>>

ClearLocked(t) ==
    /\ pc[t] = "wait"
    /\ call[t].op = "clear"
    /\ lock = NoTask
    /\ hosts' = {}
    /\ lock' = t
    /\ pc' = [pc EXCEPT ![t] = "write"]
    /\ acked' = {}
    /\ UNCHANGED <<up, grace, diskVars, call, ret, stale>>

(* persist_pinned_hosts: create the directory, write the temporary file. *)
WriteTmp(t) ==
    /\ pc[t] = "write"
    /\ tmp' = ListFile(hosts)
    /\ pc' = [pc EXCEPT ![t] = "rename"]
    /\ UNCHANGED <<up, hosts, grace, lock, file, call, ret, ghostVars>>

(* Mutant: a failed write is renamed all the same. *)
WriteErrorIgnored(t) ==
    /\ pc[t] = "write"
    /\ tmp' = TornFile
    /\ pc' = [pc EXCEPT ![t] = "rename"]
    /\ UNCHANGED <<up, hosts, grace, lock, file, call, ret, ghostVars>>

(* Mutant: a failed write takes the change of memory back. *)
WriteFailsRollsBack(t) ==
    /\ pc[t] = "write"
    /\ hosts' = hosts \ {call[t].host}
    /\ Return(t, "error")
    /\ stale' = TRUE
    /\ UNCHANGED <<up, grace, diskVars, call, acked>>

(* Any of those fails: `?` returns the error and drops the guard. *)
WriteFails(t) ==
    /\ pc[t] = "write"
    /\ tmp' \in {tmp, TornFile}
    /\ Return(t, "error")
    /\ stale' = TRUE
    /\ UNCHANGED <<up, hosts, grace, file, call, acked>>

(* fs::rename succeeds, at the first attempt or at the second. *)
Rename(t) ==
    /\ pc[t] \in {"rename", "rename_again"}
    /\ file' = tmp
    /\ tmp' = NoFile
    /\ Return(t, IF call[t].op = "add" THEN "true" ELSE "removed")
    /\ acked' = IF call[t].op = "add" THEN acked \cup {call[t].host} ELSE acked
    /\ stale' = FALSE
    /\ UNCHANGED <<up, hosts, grace, call>>

(* The first fs::rename answers AlreadyExists or PermissionDenied. *)
RenameRefused(t) ==
    /\ pc[t] = "rename"
    /\ pc' = [pc EXCEPT ![t] = "remove"]
    /\ UNCHANGED <<up, hosts, grace, lock, diskVars, call, ret, ghostVars>>

(* Mutant: the destination is removed on every platform. *)
RemoveAlways(t) ==
    /\ pc[t] = "remove"
    /\ file' = NoFile
    /\ pc' = [pc EXCEPT ![t] = "rename_again"]
    /\ UNCHANGED <<up, hosts, grace, lock, tmp, call, ret, ghostVars>>

(* The destination is removed and the result ignored. Where rename() over- *)
(* writes, the refusal was one of permission and remove_file meets it too. *)
RemoveDestination(t) ==
    /\ pc[t] = "remove"
    /\ file' \in IF RenameReplaces THEN {file} ELSE {file, NoFile}
    /\ pc' = [pc EXCEPT ![t] = "rename_again"]
    /\ UNCHANGED <<up, hosts, grace, lock, tmp, call, ret, ghostVars>>

(* Any other error of the first rename, or any error of the second. *)
RenameFails(t) ==
    /\ pc[t] \in {"rename", "rename_again"}
    /\ Return(t, "error")
    /\ stale' = TRUE
    /\ UNCHANGED <<up, hosts, grace, diskVars, call, acked>>

StoreStep(t) ==
    \/ AddLocked(t)
    \/ ClearLocked(t)
    \/ WriteTmp(t)
    \/ WriteFails(t)
    \/ Rename(t)
    \/ RenameRefused(t)
    \/ RemoveDestination(t)
    \/ RenameFails(t)

(* The caller goes on with the result. *)
Resume(t) ==
    /\ pc[t] = "done"
    /\ pc' = [pc EXCEPT ![t] = "idle"]
    /\ ret' = [ret EXCEPT ![t] = "none"]
    /\ call' = [call EXCEPT ![t] = NoCall]
    /\ UNCHANGED <<up, hosts, grace, lock, diskVars, ghostVars>>

GraceEnds ==
    /\ up
    /\ grace
    /\ grace' = FALSE
    /\ UNCHANGED <<up, hosts, lock, diskVars, callVars, ghostVars>>

(* The process dies. A temporary file being written may be left cut off.   *)
Crash ==
    /\ up
    /\ up' = FALSE
    /\ hosts' = {}
    /\ lock' = NoTask
    /\ pc' = [t \in Tasks |-> "idle"]
    /\ ret' = [t \in Tasks |-> "none"]
    /\ tmp' \in IF \E t \in Tasks : pc[t] = "write" THEN {tmp, TornFile} ELSE {tmp}
    /\ stale' = FALSE
    /\ call' = [t \in Tasks |-> NoCall]
    /\ UNCHANGED <<grace, file, acked>>

(* PinnedHosts::load at startup: no file is an empty list, a file that is  *)
(* not a JSON list stops the program.                                      *)
load ==
    /\ ~up
    /\ file.kind # "torn"
    /\ up' = TRUE
    /\ hosts' = file.hosts
    /\ grace' = TRUE
    /\ UNCHANGED <<lock, diskVars, callVars, ghostVars>>

StoreNext ==
    \/ \E t \in Tasks :
          \/ \E n \in Names : add_and_persist(t, n)
          \/ clear_and_persist(t)
          \/ StoreStep(t)
          \/ Resume(t)
    \/ GraceEnds
    \/ Crash
    \/ load

StoreSpec == StoreInit /\ [][StoreNext]_storeVars

-----------------------------------------------------------------------------
(* Properties *)

Persisting == {"write", "rename", "remove", "rename_again"}

(* PinnedHosts::load never meets a file it cannot parse: whatever fails or *)
(* crashes in persist_pinned_hosts, a cut-off write stays in the temporary *)
(* file and never becomes the list that the next start reads.              *)
FileLoadable == file.kind # "torn"

(* A host for which add_and_persist returned Ok(true) is on disk from then *)
(* until a reset, through later failed persists, crashes and restarts, on  *)
(* a file system whose rename() replaces.                                  *)
AckedDurable == RenameReplaces => acked \subseteq file.hosts

(* Whenever the write lock is free and the last persist of this process    *)
(* did not report an error, memory and file hold the same list: nothing a  *)
(* reader of contains() can see would be forgotten by a restart.           *)
FileMatchesMemory == up /\ lock = NoTask /\ ~stale => file.hosts = hosts

(* Of all the tasks that pin one host, concurrently or one after another   *)
(* and on both sides of a restart, add_and_persist answers Ok(true) to one *)
(* only, until a reset: this is what counts host_auto_pinned_total.        *)
PinnedOnce ==
    [][RenameReplaces =>
         \A t \in Tasks :
            ret[t] # "true" /\ ret'[t] = "true" => call[t].host \notin acked]_storeVars

(* The inductive invariant: who holds the lock, that the temporary file is *)
(* the whole list until it is renamed, and how the file trails memory.     *)
StoreInv ==
    /\ StoreTypeOK
    /\ \A t \in Tasks : pc[t] \in Persisting <=> lock = t
    /\ \A t \in Tasks : pc[t] \in Persisting \ {"write"} => tmp = ListFile(hosts)
    /\ ~up => pc = [t \in Tasks |-> "idle"] /\ hosts = {}
    /\ \A t \in Tasks : pc[t] = "wait" /\ call[t].op = "add" => call[t].host \in Hosts
    /\ \A t \in Tasks : pc[t] \in Persisting /\ call[t].op = "add"
                            => /\ call[t].host \in hosts
                               /\ RenameReplaces => call[t].host \notin acked
    /\ FileLoadable
    /\ file.kind = "absent" => file.hosts = {}
    /\ AckedDurable
    /\ RenameReplaces /\ up => acked \subseteq hosts
    /\ FileMatchesMemory

(* The store implements its promise: memory is live, the list a restart    *)
(* would read is saved.                                                    *)
List == INSTANCE PinList WITH
    AtomicReplace <- RenameReplaces,
    running <- up,
    live <- hosts,
    saved <- file.hosts

(* Every step of the store is a step of PinList: the file only ever takes  *)
(* the value memory has in full, and a restart returns it.                 *)
ImplementsPinList == List!Spec
=============================================================================
