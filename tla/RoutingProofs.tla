---------------------------- MODULE RoutingProofs ----------------------------
(***************************************************************************)
(* The pinned-host store and connection routing, for any number of tasks,  *)
(* connections, hosts and resets.                                          *)
(***************************************************************************)
EXTENDS Routing, TLAPS

-----------------------------------------------------------------------------
(* The pinned-host store. *)

(* The program starts in a state that satisfies the inductive invariant.   *)
LEMMA StoreInvInit == StoreInit => StoreInv
<1> SUFFICES ASSUME StoreInit PROVE StoreInv
  BY Zenon
<1>1. NoFile \in File /\ TornFile \in File /\ file \in File /\ file.hosts \in SUBSET Hosts
  BY DEF StoreInit, File, NoFile, TornFile, ListFile
<1>2. StoreTypeOK
  BY <1>1, Zenon DEF StoreInit, StoreTypeOK, Steps, Calls, NoCall, Results
<1>3. file.kind # "torn" /\ (file.kind = "absent" => file.hosts = {})
  BY DEF StoreInit, NoFile, ListFile
<1> QED
  BY <1>2, <1>3, StoreAssumption, Zenon
     DEF StoreInit, StoreInv, Persisting, FileLoadable, AckedDurable, FileMatchesMemory

(* Every step of the store keeps the inductive invariant.                  *)
LEMMA StoreInvStep == StoreInv /\ [StoreNext]_storeVars => StoreInv'
<1> SUFFICES ASSUME StoreInv, [StoreNext]_storeVars PROVE StoreInv'
  BY Zenon
<1> USE StoreAssumption
<1> USE DEF StoreInv, StoreTypeOK, Persisting, FileLoadable, AckedDurable,
            FileMatchesMemory, diskVars, callVars, ghostVars
<1>1. ASSUME NEW t \in Tasks, NEW n \in Names, add_and_persist(t, n) PROVE StoreInv'
  <2> DEFINE h == normalize_host[n]
  <2>1. h \in Hosts \cup {NoHost} /\ [op |-> "add", host |-> h] \in Calls
    BY Zenon DEF Calls
  <2>2. CASE h = NoHost
    <3>1. StoreTypeOK'
      BY <1>1, <2>1, <2>2 DEF add_and_persist, Return, Steps, Results
    <3> QED
      BY <1>1, <2>2, <3>1 DEF add_and_persist, Return
  <2>3. CASE h # NoHost
    <3>1. StoreTypeOK'
      BY <1>1, <2>1, <2>3, Zenon DEF add_and_persist, Steps
    <3> QED
      BY <1>1, <2>1, <2>3, <3>1 DEF add_and_persist
  <2> QED
    BY <2>2, <2>3, Zenon
<1>2. ASSUME NEW t \in Tasks, clear_and_persist(t) PROVE StoreInv'
  BY <1>2, Zenon DEF clear_and_persist, Steps, Calls, NoCall
<1>3. ASSUME NEW t \in Tasks, AddLocked(t) PROVE StoreInv'
  <2>1. CASE call[t].host \in hosts
    BY <1>3, <2>1 DEF AddLocked, Return, Steps, Results
  <2>2. CASE call[t].host \notin hosts
    BY <1>3, <2>2 DEF AddLocked, Steps
  <2> QED
    BY <2>1, <2>2, Zenon
<1>4. ASSUME NEW t \in Tasks, ClearLocked(t) PROVE StoreInv'
  BY <1>4, Zenon DEF ClearLocked, Steps, Calls
<1>5. ASSUME NEW t \in Tasks, WriteTmp(t) PROVE StoreInv'
  BY <1>5, Zenon DEF WriteTmp, Steps, ListFile, File
<1>6. ASSUME NEW t \in Tasks, WriteFails(t) PROVE StoreInv'
  BY <1>6 DEF WriteFails, Return, Steps, Results, TornFile, File
<1>7. ASSUME NEW t \in Tasks, Rename(t) PROVE StoreInv'
  <2>1. lock = t /\ up /\ tmp = ListFile(hosts)
    BY <1>7, Zenon DEF Rename
  <2>2. file' = ListFile(hosts) /\ file'.hosts = hosts /\ file'.kind = "list" /\ file' \in File
    BY <1>7, <2>1, Zenon DEF Rename, ListFile, File
  <2>3. lock' = NoTask /\ pc' = [pc EXCEPT ![t] = "done"] /\ UNCHANGED <<up, hosts, grace, call>>
    BY <1>7, <2>1, Zenon DEF Rename, Return
  <2>4. acked' \subseteq hosts \/ ~RenameReplaces
    BY <1>7, <2>1, Zenon DEF Rename
  <2>5. StoreTypeOK'
    <3>1. tmp' \in File
      BY <1>7, Zenon DEF Rename, NoFile, File
    <3>2. ret' \in [Tasks -> Results]
      BY <1>7, Zenon DEF Rename, Return, Results
    <3>3. acked' \in SUBSET Hosts
      BY <1>7, Zenon DEF Rename
    <3>4. stale' \in BOOLEAN
      BY <1>7, Zenon DEF Rename
    <3> QED
      BY <2>2, <2>3, <3>1, <3>2, <3>3, <3>4, Zenon DEF Steps
  <2>6. \A u \in Tasks : pc'[u] \notin Persisting
    BY <2>1, <2>3, Zenon DEF Steps
  <2> QED
    BY <2>1, <2>2, <2>3, <2>4, <2>5, <2>6, Zenon
<1>8. ASSUME NEW t \in Tasks, RenameRefused(t) PROVE StoreInv'
  BY <1>8, Zenon DEF RenameRefused, Steps
<1>9. ASSUME NEW t \in Tasks, RemoveDestination(t) PROVE StoreInv'
  BY <1>9 DEF RemoveDestination, Steps, NoFile, File
<1>10. ASSUME NEW t \in Tasks, RenameFails(t) PROVE StoreInv'
  BY <1>10, Zenon DEF RenameFails, Return, Steps, Results
<1>11. ASSUME NEW t \in Tasks, Resume(t) PROVE StoreInv'
  BY <1>11, Zenon DEF Resume, Steps, Results, Calls, NoCall
<1>12. CASE GraceEnds
  BY <1>12, Zenon DEF GraceEnds
<1>13. CASE Crash
  <2>1. tmp' \in File
    BY <1>13 DEF Crash, TornFile, File
  <2>2. StoreTypeOK'
    BY <1>13, <2>1, Zenon DEF Crash, Steps, Results, Calls, NoCall
  <2> QED
    BY <1>13, <2>2, Zenon DEF Crash
<1>14. CASE load
  BY <1>14, Zenon DEF load, File
<1>15. CASE UNCHANGED storeVars
  BY <1>15, Zenon DEF storeVars
<1> QED
  BY <1>1, <1>2, <1>3, <1>4, <1>5, <1>6, <1>7, <1>8, <1>9, <1>10, <1>11,
     <1>12, <1>13, <1>14, <1>15, Zenon DEF StoreNext, StoreStep

(* The inductive invariant holds in every reachable state.                 *)
THEOREM StoreInvariant == StoreSpec => []StoreInv
BY StoreInvInit, StoreInvStep, PTL DEF StoreSpec

(* PinnedHosts::load can always parse the file a crash left behind.        *)
THEOREM FileAlwaysLoadable == StoreSpec => []FileLoadable
<1>1. StoreInv => FileLoadable
  BY Zenon DEF StoreInv
<1> QED
  BY <1>1, StoreInvariant, PTL

(* A host reported as pinned stays on disk until a reset.                  *)
THEOREM AckedAlwaysDurable == StoreSpec => []AckedDurable
<1>1. StoreInv => AckedDurable
  BY Zenon DEF StoreInv
<1> QED
  BY <1>1, StoreInvariant, PTL

(* With the lock free and no failed persist, file and memory agree.        *)
THEOREM FileAlwaysMatchesMemory == StoreSpec => []FileMatchesMemory
<1>1. StoreInv => FileMatchesMemory
  BY Zenon DEF StoreInv
<1> QED
  BY <1>1, StoreInvariant, PTL

(* add_and_persist answers Ok(true) to one caller per host and reset.      *)
THEOREM PinnedOnlyOnce == StoreSpec => PinnedOnce
<1> DEFINE Once ==
      RenameReplaces =>
        \A t \in Tasks :
          ret[t] # "true" /\ ret'[t] = "true" => call[t].host \notin acked
<1>1. StoreInv /\ [StoreNext]_storeVars => [Once]_storeVars
  <2> SUFFICES ASSUME StoreInv, StoreNext, RenameReplaces,
                      NEW t \in Tasks, ret[t] # "true", ret'[t] = "true"
               PROVE  call[t].host \notin acked
    BY Zenon
  <2> USE DEF StoreInv, StoreTypeOK, callVars
  <2>1. PICK u \in Tasks : Rename(u)
    <3>1. ASSUME NEW u \in Tasks, NEW n \in Names, add_and_persist(u, n) PROVE FALSE
      BY <3>1, Zenon DEF add_and_persist, Return
    <3>2. ASSUME NEW u \in Tasks,
                 clear_and_persist(u) \/ AddLocked(u) \/ ClearLocked(u) \/ WriteTmp(u)
                   \/ WriteFails(u) \/ RenameRefused(u) \/ RemoveDestination(u)
                   \/ RenameFails(u) \/ Resume(u)
          PROVE  FALSE
      BY <3>2, Zenon DEF clear_and_persist, AddLocked, ClearLocked, WriteTmp, WriteFails,
                  RenameRefused, RemoveDestination, RenameFails, Resume, Return
    <3>3. ~GraceEnds /\ ~Crash /\ ~load
      BY Zenon DEF GraceEnds, Crash, load
    <3> QED
      BY <3>1, <3>2, <3>3, Zenon DEF StoreNext, StoreStep
  <2>2. u = t /\ call[t].op = "add"
    BY <2>1, Zenon DEF Rename, Return
  <2> QED
    BY <2>1, <2>2, Zenon DEF Rename, Persisting
<1>2. [][Once]_storeVars => PinnedOnce
  BY PTL DEF PinnedOnce
<1> QED
  BY <1>1, <1>2, StoreInvariant, PTL DEF StoreSpec

(* The store implements PinList: every start is one of its initial states, *)
(* and every step of a task, of the clock or of a crash is one of its      *)
(* steps or leaves memory and file as they are.                            *)
THEOREM StoreImplementsPinList == StoreSpec => ImplementsPinList
<1> USE DEF List!vars
<1>1. StoreInit => List!Init
  BY DEF StoreInit, List!Init, NoFile, ListFile
<1>2. StoreInv /\ [StoreNext]_storeVars => [List!Next]_(List!vars)
  <2> SUFFICES ASSUME StoreInv, StoreNext PROVE [List!Next]_(List!vars)
    BY Zenon DEF storeVars, diskVars
  <2> USE DEF StoreInv, StoreTypeOK, diskVars
  <2>1. ASSUME NEW t \in Tasks, AddLocked(t) PROVE [List!Next]_(List!vars)
    BY <2>1, Zenon DEF AddLocked, List!Next, List!Pin
  <2>2. ASSUME NEW t \in Tasks, ClearLocked(t) PROVE [List!Next]_(List!vars)
    BY <2>2, Zenon DEF ClearLocked, List!Next, List!Reset
  <2>3. ASSUME NEW t \in Tasks, Rename(t) PROVE [List!Next]_(List!vars)
    <3>1. up /\ file' = ListFile(hosts)
      BY <2>3, Zenon DEF Rename, Persisting
    <3> QED
      BY <2>3, <3>1 DEF Rename, ListFile, List!Next, List!Save
  <2>4. ASSUME NEW t \in Tasks, RemoveDestination(t) PROVE [List!Next]_(List!vars)
    BY <2>4 DEF RemoveDestination, NoFile, Persisting, List!Next, List!Lose
  <2>5. ASSUME NEW t \in Tasks, NEW n \in Names, add_and_persist(t, n)
        PROVE  [List!Next]_(List!vars)
    BY <2>5, Zenon DEF add_and_persist
  <2>6. ASSUME NEW t \in Tasks,
               clear_and_persist(t) \/ WriteTmp(t) \/ WriteFails(t)
                 \/ RenameRefused(t) \/ RenameFails(t) \/ Resume(t)
        PROVE  [List!Next]_(List!vars)
    BY <2>6, Zenon DEF clear_and_persist, WriteTmp, WriteFails, RenameRefused,
                RenameFails, Resume
  <2>7. CASE GraceEnds
    BY <2>7, Zenon DEF GraceEnds
  <2>8. CASE Crash
    BY <2>8, Zenon DEF Crash, List!Next, List!Stop
  <2>9. CASE load
    BY <2>9, Zenon DEF load, List!Next, List!Start
  <2> QED
    BY <2>1, <2>2, <2>3, <2>4, <2>5, <2>6, <2>7, <2>8, <2>9, Zenon DEF StoreNext, StoreStep
<1> QED
  BY <1>1, <1>2, StoreInvariant, PTL DEF StoreSpec, ImplementsPinList, List!Spec

-----------------------------------------------------------------------------
(* The grace period.                                                       *)
(*                                                                         *)
(* It is read once, before add_and_persist waits for the lock, so the step *)
(* that pins a host does not look at it. What makes it safe is that within *)
(* one run of the process the period only ever ends: as long as it lasts   *)
(* no task can be waiting to add a host, and a restart begins a new period *)
(* with no task inside the store.                                          *)

GraceInv ==
    /\ pc \in [Tasks -> Steps]
    /\ DOMAIN call = Tasks
    /\ up /\ grace => \A t \in Tasks : pc[t] = "wait" => call[t].op # "add"
    /\ ~up => \A t \in Tasks : pc[t] = "idle"

(* At the start no task is inside the store. *)
LEMMA GraceInvInit == Init => GraceInv
<1>. QED
  BY Zenon DEF Init, StoreInit, GraceInv, Steps, NoCall

(* Actions that leave the store alone keep the invariant. *)
LEMMA GraceInvUnchanged == GraceInv /\ UNCHANGED storeVars => GraceInv'
<1>. QED
  BY DEF GraceInv, storeVars, callVars

(* A step inside the store takes its task out of "wait". *)
LEMMA GraceInvStoreStep ==
    ASSUME GraceInv, NEW t \in Tasks, StoreStep(t)
    PROVE  GraceInv'
<1> USE DEF GraceInv
<1>1. pc[t] # "idle" /\ up
  BY Zenon DEF StoreStep, AddLocked, ClearLocked, WriteTmp, WriteFails, Rename, RenameRefused,
         RemoveDestination, RenameFails
<1>2. up' = up /\ grace' = grace /\ call' = call
  BY Zenon DEF StoreStep, AddLocked, ClearLocked, WriteTmp, WriteFails, Rename, RenameRefused,
         RemoveDestination, RenameFails
<1>3. \E s \in Steps \ {"wait"} : pc' = [pc EXCEPT ![t] = s]
  BY Zenon DEF StoreStep, AddLocked, ClearLocked, WriteTmp, WriteFails, Rename, RenameRefused,
         RemoveDestination, RenameFails, Return, Steps
<1>. QED
  BY <1>1, <1>2, <1>3, Zenon

(* Every action keeps the invariant. *)
LEMMA GraceInvStep == GraceInv /\ [Next]_vars => GraceInv'
<1> SUFFICES ASSUME GraceInv, [Next]_vars PROVE GraceInv'
  BY Zenon
<1>1. ASSUME NEW c \in Conns, accept(c) PROVE GraceInv'
  BY <1>1, GraceInvUnchanged, Zenon DEF accept
<1>2. ASSUME NEW c \in Conns, ConnStep(c) PROVE GraceInv'
  <2> c \in Tasks
    BY RoutingAssumption, Zenon
  <2>1. CASE pin_host_after_tls_rejection(c)
    <3>1. up /\ ~grace /\ up' = up /\ grace' = grace
      BY <2>1, Zenon DEF pin_host_after_tls_rejection, in_grace_period, add_and_persist
    <3>2. \/ pc' = [pc EXCEPT ![c] = "done"]
          \/ pc' = [pc EXCEPT ![c] = "wait"]
      BY <2>1, Zenon DEF pin_host_after_tls_rejection, add_and_persist, Return
    <3>3. call' = [call EXCEPT ![c] = [op |-> "add", host |-> normalize_host[conn[c].name]]]
      BY <2>1, Zenon DEF pin_host_after_tls_rejection, add_and_persist
    <3>. QED
      BY <3>1, <3>2, <3>3, Zenon DEF GraceInv, Steps
  <2>2. CASE pin_returned(c)
    <3>1. up' = up /\ grace' = grace /\ pc[c] = "done"
          /\ pc' = [pc EXCEPT ![c] = "idle"] /\ call' = [call EXCEPT ![c] = NoCall]
      BY <2>2, Zenon DEF pin_returned, Resume
    <3>. QED
      BY <3>1, Zenon DEF GraceInv, Steps, NoCall
  <2>3. CASE UNCHANGED storeVars
    BY <2>3, GraceInvUnchanged, Zenon
  <2>. QED
    BY <1>2, <2>1, <2>2, <2>3, Zenon DEF ConnStep, handle_connection, read_connect_head,
       route_transparent, route_connect, establish, probe_upstream, accept_client_tls,
       end_relay, suppress_auto_pin, fall_back, tunnel, connect_tunnel, handle_http_proxy,
       end_copy
<1>3. ASSUME NEW r \in Resets, serve_pins_reset(r) PROVE GraceInv'
  <2> r \in Tasks
    BY Zenon DEF Resets
  <2>1. CASE clear_and_persist(r)
    BY <2>1, Zenon DEF clear_and_persist, GraceInv, Steps, NoCall
  <2>2. CASE UNCHANGED storeVars
    BY <2>2, GraceInvUnchanged, Zenon
  <2>. QED
    BY <1>3, <2>1, <2>2, Zenon DEF serve_pins_reset
<1>4. ASSUME NEW r \in Resets, pins_reset_returned(r) PROVE GraceInv'
  <2> r \in Tasks
    BY Zenon DEF Resets
  <2>1. up' = up /\ grace' = grace /\ pc[r] = "done"
        /\ pc' = [pc EXCEPT ![r] = "idle"] /\ call' = [call EXCEPT ![r] = NoCall]
    BY <1>4, Zenon DEF pins_reset_returned, Resume
  <2>. QED
    BY <2>1, Zenon DEF GraceInv, Steps, NoCall
<1>5. ASSUME NEW t \in Tasks, store_step(t) PROVE GraceInv'
  BY <1>5, GraceInvStoreStep, Zenon DEF store_step
<1>6. ASSUME grace_ends PROVE GraceInv'
  BY <1>6, Zenon DEF grace_ends, GraceEnds, GraceInv, callVars
<1>7. ASSUME crash PROVE GraceInv'
  BY <1>7, Zenon DEF crash, Crash, GraceInv, Steps, NoCall
<1>8. ASSUME restart PROVE GraceInv'
  BY <1>8, Zenon DEF restart, load, GraceInv, callVars
<1>9. ASSUME UNCHANGED vars PROVE GraceInv'
  BY <1>9, GraceInvUnchanged, Zenon DEF vars
<1>. QED
  BY <1>1, <1>2, <1>3, <1>4, <1>5, <1>6, <1>7, <1>8, <1>9, Zenon DEF Next

(* No host is pinned during the start-up grace period, whatever            *)
(* connections, resets and restarts do (run_mitm_intercept).               *)
THEOREM GraceIsRespected == Spec => NoPinDuringGrace
<1>1. GraceInv /\ [Next]_vars => [up /\ up' /\ grace => hosts' \subseteq hosts]_vars
  <2> SUFFICES ASSUME GraceInv, Next, up, up', grace
               PROVE  hosts' \subseteq hosts
    BY Zenon DEF vars
  <2>1. ASSUME NEW t \in Tasks, store_step(t) PROVE hosts' \subseteq hosts
    BY <2>1, Zenon
       DEF GraceInv, store_step, StoreStep, AddLocked, ClearLocked, WriteTmp, WriteFails,
       Rename, RenameRefused, RemoveDestination, RenameFails
  <2>2. CASE UNCHANGED hosts
    BY <2>2, Zenon
  <2>3. CASE crash
    BY <2>3, Zenon DEF crash, Crash
  <2>4. CASE restart
    BY <2>4, Zenon DEF restart, load
  <2>5. ASSUME NEW c \in Conns, accept(c) \/ ConnStep(c) PROVE UNCHANGED hosts
    BY <2>5, Zenon DEF accept, ConnStep, handle_connection, read_connect_head, route_transparent,
       route_connect, establish, probe_upstream, accept_client_tls, end_relay,
       suppress_auto_pin, pin_host_after_tls_rejection, add_and_persist, pin_returned, Resume,
       fall_back, tunnel, connect_tunnel, handle_http_proxy, end_copy, storeVars
  <2>6. ASSUME NEW r \in Resets, serve_pins_reset(r) \/ pins_reset_returned(r)
        PROVE  UNCHANGED hosts
    BY <2>6, Zenon DEF serve_pins_reset, pins_reset_returned, clear_and_persist, Resume, storeVars
  <2>7. CASE grace_ends
    BY <2>7, Zenon DEF grace_ends, GraceEnds
  <2>. QED
    BY <2>1, <2>2, <2>3, <2>4, <2>5, <2>6, <2>7, Zenon DEF Next
<1>. QED
  BY <1>1, GraceInvInit, GraceInvStep, PTL DEF Spec, NoPinDuringGrace

-----------------------------------------------------------------------------
(* What a connection answers, records and counts.                          *)
(*                                                                         *)
(* A task keeps no history: whether it was answered, attempted or pinned   *)
(* follows from where it is and from its counters. The invariant says what *)
(* each place implies, and how a connection that is pinning its host       *)
(* stands to the store: it claims the host from the moment it gets the     *)
(* lock, and memory holds every claimed host until a reset.                *)

(* The states before a decision has had an effect, and those of an attempt *)
(* to intercept whose result is open.                                      *)
Unrouted == {"new", "peek", "head", "route", "establish", "connect_tunnel", "http", "dead"}

Attempting == {"probe", "handshake", "relay"}

Rejected == {"upstream_rejected", "client_rejected", "pin_upstream", "pin_client", "fallback"}

Pinning == {"pin_upstream", "pin_client"}

(* What the state of a connection says of its answers, of its receipt and  *)
(* of its counters. *)
Answered(k) ==
    /\ k.st \in Unrouted \/ k.flow = "transparent" => k.said = <<>>
    /\ k.flow = "connect" /\ k.st \in Attempting \cup Rejected \cup {"tunnel", "copy"}
         => k.said = <<"200">>
    /\ Len(k.said) <= 1
    /\ k.st \in {"head", "establish", "connect_tunnel"} => k.flow = "connect"
    /\ k.st = "http" => k.flow = "http"

Decided(k) ==
    /\ k.st = "establish" => k.action = "mitm"
    /\ k.st = "connect_tunnel" => k.action = "passthrough"
    /\ k.count["attempt"] > 0 => k.action = "mitm"
    /\ k.count["passthrough"] > 0 /\ k.count["attempt"] = 0 => k.action = "passthrough"
    /\ k.st = "tunnel" /\ k.count["attempt"] = 0 => k.action = "passthrough"

Balanced(k) ==
    /\ k.st \in Unrouted => k.why = "none" /\ \A e \in Kinds \ {"connection"} : k.count[e] = 0
    /\ k.st \in Attempting => /\ k.why = "none" /\ k.count["attempt"] = 1
                              /\ k.count["success"] = 0 /\ k.count["failure"] = 0
    /\ k.st \in Rejected => k.count["attempt"] = 1
    /\ k.st \notin Attempting =>
         k.count["attempt"] = k.count["success"] + k.count["failure"]
                                + (IF k.why = "upstream_tls" THEN 1 ELSE 0)

Placed(k) ==
    /\ k.st \in {"route", "establish"} \cup Attempting \cup Rejected => k.name \in Names
    /\ k.late => k.st \notin Unrouted \cup Attempting

Ledger(k) == Placed(k) /\ Answered(k) /\ Decided(k) /\ Balanced(k)

(* How a connection stands to the store. *)
Adds(c) == call[c] = [op |-> "add", host |-> HostOf(c)]

(* c has pinned its host, or is the one that is pinning it. *)
Claims(c) ==
    \/ Counted(c, "auto_pinned") > 0
    \/ pc[c] = "done" /\ ret[c] = "true"
    \/ pc[c] \in Persisting

PinOf(c) ==
    /\ pc[c] # "idle" <=> conn[c].st \in Pinning
    /\ pc[c] # "idle" => Adds(c)
    /\ pc[c] = "idle" => ret[c] = "none"
    /\ ~reset /\ conn[c].late
         => pc[c] = "wait" \/ HostOf(c) \in hosts \cup {NoHost}
    /\ ~reset /\ Claims(c) => HostOf(c) \in hosts

PinInv ==
    /\ ~up => \A t \in Tasks : conn[t].st \in {"new", "dead"}
    /\ \A r \in Resets : pc[r] # "idle" => call[r].op = "clear"
    /\ \A c \in Conns : PinOf(c)
    /\ ~reset => \A c, d \in Conns :
          Claims(c) /\ Claims(d) /\ HostOf(c) = HostOf(d) => c = d

RoutingInv ==
    /\ StoreInv
    /\ conn \in [Tasks -> Task]
    /\ reset \in BOOLEAN
    /\ \A c \in Conns : Ledger(conn[c])
    /\ PinInv

(* Counting keeps the counters natural numbers. *)
LEMMA IncType ==
    ASSUME NEW n \in Counts, NEW K
    PROVE  /\ Inc(n, K) \in Counts
           /\ \A k \in Kinds : n[k] \in Nat
           /\ \A k \in Kinds : Inc(n, K)[k] = IF k \in K THEN n[k] + 1 ELSE n[k]
BY DEF Inc, Counts

Codes == {"200", "400", "403", "500", "502"}

(* What an assignment to the state of one task does: k becomes r, with K   *)
(* counted.                                                                *)
Becomes(t, r) ==
    /\ r \in Task
    /\ conn' = [conn EXCEPT ![t] = r]

Tallied(k, r, K) ==
    \A e \in Kinds : /\ k.count[e] \in Nat
                     /\ r.count[e] = IF e \in K THEN k.count[e] + 1 ELSE k.count[e]

SameRoute(k, r) == r.flow = k.flow /\ r.name = k.name /\ r.late = k.late

Gone(k, r, s, K) ==
    /\ r.st = s /\ Tallied(k, r, K) /\ SameRoute(k, r)
    /\ r.action = k.action /\ r.said = k.said /\ r.why = k.why

Said(k, r, s, K, code) ==
    /\ r.st = s /\ Tallied(k, r, K) /\ SameRoute(k, r)
    /\ r.action = k.action /\ r.why = k.why
    /\ k.said = <<>> => r.said = <<code>> /\ Len(r.said) = 1

Done(k, r, s, K, w) ==
    /\ r.st = s /\ Tallied(k, r, K) /\ SameRoute(k, r)
    /\ r.action = k.action /\ r.said = k.said /\ r.why = w

(* Goto, Say and Intercepted replace the state of one task by a whole task *)
(* state.                                                                  *)
LEMMA Goes ==
    ASSUME conn \in [Tasks -> Task], NEW t \in Tasks, NEW s \in States, NEW K,
           Goto(t, s, K)
    PROVE  \E r : Becomes(t, r) /\ Gone(conn[t], r, s, K)
<1> DEFINE n == Inc(conn[t].count, K)
           r == [conn[t] EXCEPT !.st = s, !.count = n]
<1>1. conn[t] \in Task /\ conn[t].count \in Counts
  BY Zenon DEF Task
<1>2. n \in Counts /\ \A e \in Kinds : /\ conn[t].count[e] \in Nat
                                      /\ n[e] = IF e \in K THEN conn[t].count[e] + 1
                                                 ELSE conn[t].count[e]
  BY <1>1, IncType
<1>3. conn' = [conn EXCEPT ![t] = r]
  BY <1>1, Zenon DEF Goto, Task
<1> HIDE DEF n
<1>4. r \in Task
  BY <1>1, <1>2, Zenon DEF Task
<1>5. /\ r.st = s /\ r.count = n /\ SameRoute(conn[t], r)
      /\ r.action = conn[t].action /\ r.said = conn[t].said /\ r.why = conn[t].why
  BY <1>1, Zenon DEF Task, SameRoute
<1> QED
  BY <1>2, <1>3, <1>4, <1>5, Zenon DEF Becomes, Tallied, Gone

(* The same with a status line; the first one stands alone. *)
LEMMA Says ==
    ASSUME conn \in [Tasks -> Task], NEW t \in Tasks, NEW s \in States, NEW K,
           NEW code \in Codes, Say(t, s, K, code)
    PROVE  \E r : Becomes(t, r) /\ Said(conn[t], r, s, K, code)
<1> DEFINE n == Inc(conn[t].count, K)
           said == Append(conn[t].said, code)
           r == [conn[t] EXCEPT !.st = s, !.count = n, !.said = said]
<1>1. conn[t] \in Task /\ conn[t].count \in Counts
  BY Zenon DEF Task
<1>2. n \in Counts /\ \A e \in Kinds : /\ conn[t].count[e] \in Nat
                                      /\ n[e] = IF e \in K THEN conn[t].count[e] + 1
                                                 ELSE conn[t].count[e]
  BY <1>1, IncType
<1>3. conn' = [conn EXCEPT ![t] = r]
  BY <1>1, Zenon DEF Say, Task
<1> HIDE DEF n
<1>4. said \in Statuses /\ (conn[t].said = <<>> => said = <<code>> /\ Len(said) = 1)
  <2>1. conn[t].said \in Seq(Codes)
    BY <1>1, Zenon DEF Task, Statuses, Codes
  <2>2. said \in Seq(Codes)
    BY <2>1
  <2>3. conn[t].said = <<>> => said = <<code>> /\ Len(said) = 1
    OBVIOUS
  <2> QED
    BY <2>2, <2>3, Zenon DEF Statuses, Codes
<1> HIDE DEF said
<1>5. r \in Task
  BY <1>1, <1>2, <1>4, Zenon DEF Task
<1>6. /\ r.st = s /\ r.count = n /\ SameRoute(conn[t], r)
      /\ r.said = said /\ r.action = conn[t].action /\ r.why = conn[t].why
  BY <1>1, Zenon DEF Task, SameRoute
<1> QED
  BY <1>2, <1>3, <1>4, <1>5, <1>6, Zenon DEF Becomes, Tallied, Said

(* The same with the result of run_mitm_intercept. *)
LEMMA Ends ==
    ASSUME conn \in [Tasks -> Task], NEW t \in Tasks, NEW s \in States, NEW K,
           NEW w \in Reasons, Intercepted(t, s, K, w)
    PROVE  \E r : Becomes(t, r) /\ Done(conn[t], r, s, K, w)
<1> DEFINE n == Inc(conn[t].count, K)
           r == [conn[t] EXCEPT !.st = s, !.count = n, !.why = w]
<1>1. conn[t] \in Task /\ conn[t].count \in Counts
  BY Zenon DEF Task
<1>2. n \in Counts /\ \A e \in Kinds : /\ conn[t].count[e] \in Nat
                                      /\ n[e] = IF e \in K THEN conn[t].count[e] + 1
                                                 ELSE conn[t].count[e]
  BY <1>1, IncType
<1>3. conn' = [conn EXCEPT ![t] = r]
  BY <1>1, Zenon DEF Intercepted, Task
<1> HIDE DEF n
<1>4. r \in Task
  BY <1>1, <1>2, Zenon DEF Task
<1>5. /\ r.st = s /\ r.count = n /\ SameRoute(conn[t], r)
      /\ r.action = conn[t].action /\ r.said = conn[t].said /\ r.why = w
  BY <1>1, Zenon DEF Task, SameRoute
<1> QED
  BY <1>2, <1>3, <1>4, <1>5, Zenon DEF Becomes, Tallied, Done

-----------------------------------------------------------------------------
(* A step of one connection that keeps away from the store. *)
Quiet(k, r) ==
    /\ Ledger(r)
    /\ k.st \notin Pinning \cup {"dead"} /\ r.st \notin Pinning \cup {"new", "dead"}
    /\ r.late = k.late
    /\ r.count["auto_pinned"] = k.count["auto_pinned"]
    /\ r.name = k.name \/ k.st \in Unrouted

QuietStep(c) == \E r : Becomes(c, r) /\ Quiet(conn[c], r)

(* A connection is answered once: the first status is the last. *)
LEMMA FirstAnswer ==
    ASSUME NEW k, NEW r, NEW s, NEW K, NEW code, Said(k, r, s, K, code), Answered(k),
           k.st \in Unrouted, k.flow # "transparent", s \notin Unrouted,
           code = "200" \/ s = "closed"
    PROVE  Answered(r)
<1>1. r.st = s /\ r.flow = k.flow /\ r.said = <<code>> /\ Len(r.said) = 1
  BY Zenon DEF Said, Answered, SameRoute
<1> HIDE DEF Said
<1>2. k.flow = "connect" /\ s \in Attempting \cup Rejected \cup {"tunnel", "copy"}
        => r.said = <<"200">>
  BY <1>1, Zenon DEF Attempting, Rejected
<1>3. Len(r.said) <= 1
  BY <1>1
<1> QED
  BY <1>1, <1>2, <1>3, Zenon DEF Answered, Unrouted

(* The accept loop counts the connection. *)
LEMMA AcceptQuiet ==
    ASSUME conn \in [Tasks -> Task], NEW c \in Tasks, Ledger(conn[c]), accept(c)
    PROVE  QuietStep(c)
<1>1. conn[c] \in Task /\ conn[c].st = "new"
  BY Zenon DEF accept, At
<1>2. ASSUME NEW r \in Task, Gone(conn[c], r, "peek", {"connection"}) PROVE Quiet(conn[c], r)
  BY <1>1, <1>2, Zenon DEF Gone, Tallied, SameRoute, Quiet, Ledger, Placed, Answered,
     Decided, Balanced, Unrouted, Attempting, Rejected, Pinning, Kinds
<1> QED
  BY <1>2, Goes, Zenon DEF accept, QuietStep, Becomes, States

(* The 200 of a CONNECT is its only answer, and the attempt is recorded. *)
LEMMA EstablishQuiet ==
    ASSUME conn \in [Tasks -> Task], NEW c \in Tasks, Ledger(conn[c]), establish(c)
    PROVE  QuietStep(c)
<1>1. conn[c] \in Task /\ conn[c].st = "establish"
  BY Zenon DEF establish, At
<1>2. ASSUME NEW r \in Task, Gone(conn[c], r, "closed", {}) PROVE Quiet(conn[c], r)
  BY <1>1, <1>2, Zenon DEF Gone, Tallied, SameRoute, Quiet, Ledger, Placed, Answered,
     Decided, Balanced, Unrouted, Attempting, Rejected, Pinning, Kinds
<1>3. ASSUME NEW r \in Task, Said(conn[c], r, "probe", {"attempt"}, "200")
      PROVE  Quiet(conn[c], r)
  <2>1. Answered(r)
    BY <1>1, <1>3, FirstAnswer, Zenon DEF Ledger, Answered, Unrouted
  <2>2. /\ r.st = "probe" /\ r.name = conn[c].name /\ r.late = conn[c].late
        /\ r.action = conn[c].action /\ r.why = conn[c].why
    BY <1>3, Zenon DEF Said, SameRoute
  <2>3. /\ r.count["attempt"] = 1 /\ r.count["success"] = 0 /\ r.count["failure"] = 0
        /\ r.count["auto_pinned"] = conn[c].count["auto_pinned"]
    BY <1>1, <1>3 DEF Said, Tallied, Ledger, Balanced, Unrouted, Kinds
  <2>4. conn[c].action = "mitm" /\ conn[c].why = "none" /\ conn[c].name \in Names /\ ~conn[c].late
    BY <1>1, Zenon DEF Ledger, Placed, Decided, Balanced, Unrouted
  <2>5. Balanced(r)
    BY <2>2, <2>3, <2>4, Zenon DEF Balanced, Unrouted, Attempting, Rejected
  <2> QED
    BY <1>1, <2>1, <2>2, <2>3, <2>4, <2>5 DEF Quiet, Ledger, Placed, Decided, Unrouted,
       Attempting, Pinning
<1> QED
  BY <1>2, <1>3, Goes, Says, Zenon DEF establish, QuietStep, Becomes, States, Codes

(* An upstream TLS rejection is counted by its result alone. *)
LEMMA ProbeQuiet ==
    ASSUME conn \in [Tasks -> Task], NEW c \in Tasks, Ledger(conn[c]), probe_upstream(c)
    PROVE  QuietStep(c)
<1>1. conn[c] \in Task /\ conn[c].st = "probe"
  BY Zenon DEF probe_upstream, At
<1>2. ASSUME NEW r \in Task, Done(conn[c], r, "closed", {"failure"}, "other")
      PROVE  Quiet(conn[c], r)
  BY <1>1, <1>2 DEF Done, Tallied, SameRoute, Quiet, Ledger, Placed, Answered,
     Decided, Balanced, Unrouted, Attempting, Rejected, Pinning, Kinds
<1>3. ASSUME NEW r \in Task, Done(conn[c], r, "upstream_rejected", {}, "upstream_tls")
      PROVE  Quiet(conn[c], r)
  <2>1. \A e \in Kinds : r.count[e] = conn[c].count[e]
    BY <1>3, Zenon DEF Done, Tallied
  <2>2. r.count["attempt"] = 1 /\ r.count["success"] = 0 /\ r.count["failure"] = 0
    BY <1>1, <2>1, Zenon DEF Ledger, Balanced, Attempting, Kinds
  <2>3. Balanced(r)
    BY <1>3, <2>2 DEF Done, Balanced, Unrouted, Attempting
  <2> QED
    BY <1>1, <1>3, <2>1, <2>3, Zenon DEF Done, SameRoute, Quiet, Ledger, Placed, Answered,
       Decided, Balanced, Unrouted, Attempting, Rejected, Pinning, Kinds
<1>4. ASSUME NEW r \in Task, Gone(conn[c], r, "handshake", {}) PROVE Quiet(conn[c], r)
  BY <1>1, <1>4, Zenon DEF Gone, Tallied, SameRoute, Quiet, Ledger, Placed, Answered,
     Decided, Balanced, Unrouted, Attempting, Rejected, Pinning, Kinds
<1> QED
  BY <1>2, <1>3, <1>4, Ends, Goes, Zenon DEF probe_upstream, QuietStep, Becomes, States, Reasons

(* A client rejection is counted as a failure. *)
LEMMA HandshakeQuiet ==
    ASSUME conn \in [Tasks -> Task], NEW c \in Tasks, Ledger(conn[c]), accept_client_tls(c)
    PROVE  QuietStep(c)
<1>1. conn[c] \in Task /\ conn[c].st = "handshake"
  BY Zenon DEF accept_client_tls, At
<1>2. ASSUME NEW r \in Task,
             Done(conn[c], r, "client_rejected", {"failure", "client_tls_reject"}, "client_tls")
      PROVE  Quiet(conn[c], r)
  BY <1>1, <1>2 DEF Done, Tallied, SameRoute, Quiet, Ledger, Placed, Answered,
     Decided, Balanced, Unrouted, Attempting, Rejected, Pinning, Kinds
<1>3. ASSUME NEW r \in Task, Gone(conn[c], r, "relay", {}) PROVE Quiet(conn[c], r)
  BY <1>1, <1>3, Zenon DEF Gone, Tallied, SameRoute, Quiet, Ledger, Placed, Answered,
     Decided, Balanced, Unrouted, Attempting, Rejected, Pinning, Kinds
<1> QED
  BY <1>2, <1>3, Ends, Goes, Zenon DEF accept_client_tls, QuietStep, Becomes, States, Reasons

(* The relay ends in a success or in a failure. *)
LEMMA RelayQuiet ==
    ASSUME conn \in [Tasks -> Task], NEW c \in Tasks, Ledger(conn[c]), end_relay(c)
    PROVE  QuietStep(c)
<1>1. conn[c] \in Task /\ conn[c].st = "relay"
  BY Zenon DEF end_relay, At
<1>2. ASSUME NEW r \in Task, Done(conn[c], r, "closed", {"success"}, "ok")
      PROVE  Quiet(conn[c], r)
  BY <1>1, <1>2 DEF Done, Tallied, SameRoute, Quiet, Ledger, Placed, Answered,
     Decided, Balanced, Unrouted, Attempting, Rejected, Pinning, Kinds
<1>3. ASSUME NEW r \in Task, Done(conn[c], r, "closed", {"failure"}, "other")
      PROVE  Quiet(conn[c], r)
  BY <1>1, <1>3 DEF Done, Tallied, SameRoute, Quiet, Ledger, Placed, Answered,
     Decided, Balanced, Unrouted, Attempting, Rejected, Pinning, Kinds
<1> QED
  BY <1>2, <1>3, Ends, Zenon DEF end_relay, QuietStep, Becomes, States, Reasons

(* In the grace period a rejection leaves the store alone. *)
LEMMA SuppressQuiet ==
    ASSUME conn \in [Tasks -> Task], NEW c \in Tasks, Ledger(conn[c]), suppress_auto_pin(c)
    PROVE  QuietStep(c)
<1>1. conn[c] \in Task /\ (conn[c].st = "upstream_rejected" \/ conn[c].st = "client_rejected")
  BY Zenon DEF suppress_auto_pin, At
<1>2. ASSUME NEW r \in Task, Gone(conn[c], r, "fallback", {}) PROVE Quiet(conn[c], r)
  BY <1>1, <1>2 DEF Gone, Tallied, SameRoute, Quiet, Ledger, Placed, Answered,
     Decided, Balanced, Unrouted, Attempting, Rejected, Pinning, Kinds
<1>3. ASSUME NEW r \in Task, Gone(conn[c], r, "closed", {}) PROVE Quiet(conn[c], r)
  BY <1>1, <1>3, Zenon DEF Gone, Tallied, SameRoute, Quiet, Ledger, Placed, Answered,
     Decided, Balanced, Unrouted, Attempting, Rejected, Pinning, Kinds
<1> QED
  BY <1>2, <1>3, Goes, Zenon DEF suppress_auto_pin, QuietStep, Becomes, States

(* The fallback counts a tunnel of a host recorded as "mitm". *)
LEMMA FallBackQuiet ==
    ASSUME conn \in [Tasks -> Task], NEW c \in Tasks, Ledger(conn[c]), fall_back(c)
    PROVE  QuietStep(c)
<1>1. conn[c] \in Task /\ conn[c].st = "fallback"
  BY Zenon DEF fall_back, At
<1>2. ASSUME NEW r \in Task, Gone(conn[c], r, "tunnel", {"passthrough"}) PROVE Quiet(conn[c], r)
  BY <1>1, <1>2, SMTT(20) DEF Gone, Tallied, SameRoute, Quiet, Ledger, Placed, Answered,
     Decided, Balanced, Unrouted, Attempting, Rejected, Pinning, Kinds
<1> QED
  BY <1>2, Goes, Zenon DEF fall_back, QuietStep, Becomes, States

(* tunnel() answers nothing. *)
LEMMA TunnelQuiet ==
    ASSUME conn \in [Tasks -> Task], NEW c \in Tasks, Ledger(conn[c]), tunnel(c)
    PROVE  QuietStep(c)
<1>1. conn[c] \in Task /\ conn[c].st = "tunnel"
  BY Zenon DEF tunnel, At
<1>2. ASSUME NEW r \in Task, Gone(conn[c], r, "copy", {"passthrough"}) PROVE Quiet(conn[c], r)
  BY <1>1, <1>2, Zenon DEF Gone, Tallied, SameRoute, Quiet, Ledger, Placed, Answered,
     Decided, Balanced, Unrouted, Attempting, Rejected, Pinning, Kinds
<1>3. ASSUME NEW r \in Task, Gone(conn[c], r, "closed", {"passthrough"}) PROVE Quiet(conn[c], r)
  BY <1>1, <1>3, Zenon DEF Gone, Tallied, SameRoute, Quiet, Ledger, Placed, Answered,
     Decided, Balanced, Unrouted, Attempting, Rejected, Pinning, Kinds
<1> QED
  BY <1>2, <1>3, Goes, Zenon DEF tunnel, QuietStep, Becomes, States

(* The passthrough of a CONNECT answers it once, or not at all. *)
LEMMA ConnectTunnelQuiet ==
    ASSUME conn \in [Tasks -> Task], NEW c \in Tasks, Ledger(conn[c]), connect_tunnel(c)
    PROVE  QuietStep(c)
<1>1. conn[c] \in Task /\ conn[c].st = "connect_tunnel"
  BY Zenon DEF connect_tunnel, At
<1>2. ASSUME NEW r \in Task, Said(conn[c], r, "copy", {"passthrough"}, "200")
      PROVE  Quiet(conn[c], r)
  <2>1. Answered(r)
    BY <1>1, <1>2, FirstAnswer, Zenon DEF Ledger, Answered, Unrouted
  <2> QED
    BY <1>1, <1>2, <2>1, Zenon DEF Said, Tallied, SameRoute, Quiet, Ledger, Placed, Decided,
       Balanced, Unrouted, Attempting, Rejected, Pinning, Kinds
<1>3. ASSUME NEW r \in Task, Said(conn[c], r, "closed", {"passthrough"}, "200")
      PROVE  Quiet(conn[c], r)
  <2>1. Answered(r)
    BY <1>1, <1>3, FirstAnswer, Zenon DEF Ledger, Answered, Unrouted
  <2> QED
    BY <1>1, <1>3, <2>1, Zenon DEF Said, Tallied, SameRoute, Quiet, Ledger, Placed, Decided,
       Balanced, Unrouted, Attempting, Rejected, Pinning, Kinds
<1>4. ASSUME NEW r \in Task, Said(conn[c], r, "closed", {"passthrough"}, "502")
      PROVE  Quiet(conn[c], r)
  <2>1. Answered(r)
    BY <1>1, <1>4, FirstAnswer, Zenon DEF Ledger, Answered, Unrouted
  <2> QED
    BY <1>1, <1>4, <2>1, Zenon DEF Said, Tallied, SameRoute, Quiet, Ledger, Placed, Decided,
       Balanced, Unrouted, Attempting, Rejected, Pinning, Kinds
<1>5. ASSUME NEW r \in Task, Gone(conn[c], r, "closed", {"passthrough"}) PROVE Quiet(conn[c], r)
  BY <1>1, <1>5, Zenon DEF Gone, Tallied, SameRoute, Quiet, Ledger, Placed, Answered,
     Decided, Balanced, Unrouted, Attempting, Rejected, Pinning, Kinds
<1> QED
  BY <1>2, <1>3, <1>4, <1>5, Says, Goes, Zenon DEF connect_tunnel, QuietStep, Becomes, States, Codes

(* An HTTP proxy request is answered once, or forwarded. *)
LEMMA HttpProxyQuiet ==
    ASSUME conn \in [Tasks -> Task], NEW c \in Tasks, Ledger(conn[c]), handle_http_proxy(c)
    PROVE  QuietStep(c)
<1>1. conn[c] \in Task /\ conn[c].st = "http"
  BY Zenon DEF handle_http_proxy, At
<1>2. ASSUME NEW r \in Task, Gone(conn[c], r, "copy", {}) PROVE Quiet(conn[c], r)
  BY <1>1, <1>2, Zenon DEF Gone, Tallied, SameRoute, Quiet, Ledger, Placed, Answered,
     Decided, Balanced, Unrouted, Attempting, Rejected, Pinning, Kinds
<1>3. ASSUME NEW r \in Task, Said(conn[c], r, "closed", {}, "400") PROVE Quiet(conn[c], r)
  <2>1. Answered(r)
    BY <1>1, <1>3, FirstAnswer, Zenon DEF Ledger, Answered, Unrouted
  <2> QED
    BY <1>1, <1>3, <2>1, Zenon DEF Said, Tallied, SameRoute, Quiet, Ledger, Placed, Decided,
       Balanced, Unrouted, Attempting, Rejected, Pinning, Kinds
<1>4. ASSUME NEW r \in Task, Said(conn[c], r, "closed", {}, "502") PROVE Quiet(conn[c], r)
  <2>1. Answered(r)
    BY <1>1, <1>4, FirstAnswer, Zenon DEF Ledger, Answered, Unrouted
  <2> QED
    BY <1>1, <1>4, <2>1, Zenon DEF Said, Tallied, SameRoute, Quiet, Ledger, Placed, Decided,
       Balanced, Unrouted, Attempting, Rejected, Pinning, Kinds
<1>5. ASSUME NEW r \in Task, Gone(conn[c], r, "closed", {}) PROVE Quiet(conn[c], r)
  BY <1>1, <1>5, Zenon DEF Gone, Tallied, SameRoute, Quiet, Ledger, Placed, Answered,
     Decided, Balanced, Unrouted, Attempting, Rejected, Pinning, Kinds
<1> QED
  BY <1>2, <1>3, <1>4, <1>5, Goes, Says, Zenon DEF handle_http_proxy, QuietStep, Becomes, States, Codes

(* The end of a copy changes no counter. *)
LEMMA EndCopyQuiet ==
    ASSUME conn \in [Tasks -> Task], NEW c \in Tasks, Ledger(conn[c]), end_copy(c)
    PROVE  QuietStep(c)
<1>1. conn[c] \in Task /\ conn[c].st = "copy"
  BY Zenon DEF end_copy, At
<1>2. ASSUME NEW r \in Task, Gone(conn[c], r, "closed", {}) PROVE Quiet(conn[c], r)
  BY <1>1, <1>2, Zenon DEF Gone, Tallied, SameRoute, Quiet, Ledger, Placed, Answered,
     Decided, Balanced, Unrouted, Attempting, Rejected, Pinning, Kinds
<1> QED
  BY <1>2, Goes, Zenon DEF end_copy, QuietStep, Becomes, States

(* The peeked bytes decide the flow before anything was answered. *)
LEMMA ClassifyQuiet ==
    ASSUME conn \in [Tasks -> Task], NEW c \in Tasks, Ledger(conn[c]), handle_connection(c)
    PROVE  QuietStep(c)
<1>1. conn[c] \in Task /\ conn[c].st = "peek"
  BY Zenon DEF handle_connection, At
<1>2. ASSUME NEW r \in Task, Gone(conn[c], r, "closed", {}) PROVE Quiet(conn[c], r)
  BY <1>1, <1>2, Zenon DEF Gone, Tallied, SameRoute, Quiet, Ledger, Placed, Answered,
     Decided, Balanced, Unrouted, Attempting, Rejected, Pinning, Kinds
<1>3. ASSUME conn' = [conn EXCEPT ![c].st = "head", ![c].flow = "connect"] PROVE QuietStep(c)
  <2> DEFINE r == [conn[c] EXCEPT !.st = "head", !.flow = "connect"]
  <2>1. conn' = [conn EXCEPT ![c] = r]
    BY <1>1, <1>3, Zenon DEF Task
  <2>2. r \in Task
    BY <1>1, <1>3, Zenon DEF Task, States, Flows
  <2>3. /\ r.st = "head" /\ r.flow = "connect" /\ r.name = conn[c].name
        /\ r.late = conn[c].late /\ r.action = conn[c].action
        /\ r.said = conn[c].said /\ r.why = conn[c].why /\ r.count = conn[c].count
    BY <1>1, Zenon DEF Task
  <2> HIDE DEF r
  <2>4. Quiet(conn[c], r)
    BY <1>1, <1>3, <2>3, Zenon DEF Quiet, Ledger, Placed, Answered, Decided, Balanced,
       Unrouted, Attempting, Rejected, Pinning, Kinds
  <2> QED
    BY <2>1, <2>2, <2>4, Zenon DEF QuietStep, Becomes
<1>4. ASSUME NEW n \in Names,
             conn' = [conn EXCEPT ![c].st = "route", ![c].flow = "transparent",
                                   ![c].name = n]
      PROVE QuietStep(c)
  <2> DEFINE r == [conn[c] EXCEPT !.st = "route", !.flow = "transparent", !.name = n]
  <2>1. conn' = [conn EXCEPT ![c] = r]
    BY <1>1, <1>4, Zenon DEF Task
  <2>2. r \in Task
    BY <1>1, <1>4, Zenon DEF Task, States, Flows
  <2>3. /\ r.st = "route" /\ r.flow = "transparent" /\ r.name = n
        /\ r.late = conn[c].late /\ r.action = conn[c].action
        /\ r.said = conn[c].said /\ r.why = conn[c].why /\ r.count = conn[c].count
    BY <1>1, Zenon DEF Task
  <2> HIDE DEF r
  <2>4. Quiet(conn[c], r)
    BY <1>1, <1>4, <2>3, Zenon DEF Quiet, Ledger, Placed, Answered, Decided, Balanced,
       Unrouted, Attempting, Rejected, Pinning, Kinds
  <2> QED
    BY <2>1, <2>2, <2>4, Zenon DEF QuietStep, Becomes
<1>5. ASSUME conn' = [conn EXCEPT ![c].st = "http", ![c].flow = "http"] PROVE QuietStep(c)
  <2> DEFINE r == [conn[c] EXCEPT !.st = "http", !.flow = "http"]
  <2>1. conn' = [conn EXCEPT ![c] = r]
    BY <1>1, <1>5, Zenon DEF Task
  <2>2. r \in Task
    BY <1>1, <1>5, Zenon DEF Task, States, Flows
  <2>3. /\ r.st = "http" /\ r.flow = "http" /\ r.name = conn[c].name
        /\ r.late = conn[c].late /\ r.action = conn[c].action
        /\ r.said = conn[c].said /\ r.why = conn[c].why /\ r.count = conn[c].count
    BY <1>1, Zenon DEF Task
  <2> HIDE DEF r
  <2>4. Quiet(conn[c], r)
    BY <1>1, <1>5, <2>3, Zenon DEF Quiet, Ledger, Placed, Answered, Decided, Balanced,
       Unrouted, Attempting, Rejected, Pinning, Kinds
  <2> QED
    BY <2>1, <2>2, <2>4, Zenon DEF QuietStep, Becomes
<1> QED
  BY <1>2, <1>3, <1>4, <1>5, Goes, Zenon DEF handle_connection, QuietStep, Becomes, States

(* The CONNECT head gives the name. *)
LEMMA HeadQuiet ==
    ASSUME conn \in [Tasks -> Task], NEW c \in Tasks, Ledger(conn[c]), read_connect_head(c)
    PROVE  QuietStep(c)
<1>1. conn[c] \in Task /\ conn[c].st = "head"
  BY Zenon DEF read_connect_head, At
<1>2. ASSUME NEW r \in Task, Gone(conn[c], r, "closed", {}) PROVE Quiet(conn[c], r)
  BY <1>1, <1>2, Zenon DEF Gone, Tallied, SameRoute, Quiet, Ledger, Placed, Answered,
     Decided, Balanced, Unrouted, Attempting, Rejected, Pinning, Kinds
<1>3. ASSUME NEW n \in Names, NEW e \in BOOLEAN,
             conn' = [conn EXCEPT ![c].st = "route", ![c].name = n, ![c].early = e]
      PROVE QuietStep(c)
  <2> DEFINE r == [conn[c] EXCEPT !.st = "route", !.name = n, !.early = e]
  <2>1. conn' = [conn EXCEPT ![c] = r]
    BY <1>1, <1>3, Zenon DEF Task
  <2>2. r \in Task
    BY <1>1, <1>3, Zenon DEF Task, States
  <2>3. /\ r.st = "route" /\ r.name = n /\ r.flow = conn[c].flow
        /\ r.late = conn[c].late /\ r.action = conn[c].action
        /\ r.said = conn[c].said /\ r.why = conn[c].why /\ r.count = conn[c].count
    BY <1>1, Zenon DEF Task
  <2> HIDE DEF r
  <2>4. Quiet(conn[c], r)
    BY <1>1, <1>3, <2>3, Zenon DEF Quiet, Ledger, Placed, Answered, Decided, Balanced,
       Unrouted, Attempting, Rejected, Pinning, Kinds
  <2> QED
    BY <2>1, <2>2, <2>4, Zenon DEF QuietStep, Becomes
<1>4. CASE Goto(c, "closed", {})
  BY <1>2, <1>4, Goes, Zenon DEF QuietStep, Becomes, States
<1> QED
  BY <1>3, <1>4, Zenon DEF read_connect_head

(* A ClientHello is attempted or tunnelled as its receipt says. *)
LEMMA TransparentQuiet ==
    ASSUME conn \in [Tasks -> Task], NEW c \in Tasks, Ledger(conn[c]), route_transparent(c)
    PROVE  QuietStep(c)
<1>1. conn[c] \in Task /\ conn[c].st = "route" /\ conn[c].flow = "transparent"
  BY Zenon DEF route_transparent, At
<1>2. conn[c].count \in Counts /\ \A e \in Kinds : conn[c].count[e] \in Nat
  BY <1>1, Zenon DEF Task, Counts
<1>3. ASSUME conn' = [conn EXCEPT ![c].st = "probe", ![c].action = "mitm",
                                  ![c].count = Inc(@, {"attempt"})]
      PROVE  QuietStep(c)
  <2> DEFINE n == Inc(conn[c].count, {"attempt"})
             r == [conn[c] EXCEPT !.st = "probe", !.action = "mitm", !.count = n]
  <2>1. conn' = [conn EXCEPT ![c] = r]
    BY <1>1, <1>3, Zenon DEF Task
  <2>2. n \in Counts /\ \A e \in Kinds : n[e] = IF e = "attempt" THEN conn[c].count[e] + 1
                                               ELSE conn[c].count[e]
    BY <1>2, IncType
  <2> HIDE DEF n
  <2>3. r \in Task
    BY <1>1, <2>2, Zenon DEF Task, States, Actions
  <2>4. /\ r.st = "probe" /\ r.action = "mitm" /\ r.count = n
        /\ r.flow = conn[c].flow /\ r.name = conn[c].name /\ r.late = conn[c].late
        /\ r.said = conn[c].said /\ r.why = conn[c].why
    BY <1>1, Zenon DEF Task
  <2> HIDE DEF r
  <2>5. /\ r.count["attempt"] = 1 /\ r.count["success"] = 0 /\ r.count["failure"] = 0
        /\ r.count["auto_pinned"] = conn[c].count["auto_pinned"]
    BY <1>1, <1>2, <2>2, <2>4 DEF Ledger, Balanced, Unrouted, Kinds
  <2>6. Placed(r) /\ Answered(r) /\ Decided(r) /\ r.why = "none"
    BY <1>1, <2>4, <2>5 DEF Ledger, Placed, Answered, Decided, Balanced, Unrouted, Attempting,
       Rejected
  <2>7. Balanced(r)
    BY <2>4, <2>5, <2>6, Zenon DEF Balanced, Unrouted, Attempting, Rejected
  <2>8. Quiet(conn[c], r)
    BY <1>1, <2>4, <2>5, <2>6, <2>7, Zenon DEF Quiet, Ledger, Pinning
  <2> QED
    BY <2>1, <2>3, <2>8, Zenon DEF QuietStep, Becomes
<1>4. ASSUME conn' = [conn EXCEPT ![c].st = "tunnel", ![c].action = "passthrough"]
      PROVE QuietStep(c)
  <2> DEFINE r == [conn[c] EXCEPT !.st = "tunnel", !.action = "passthrough"]
  <2>1. conn' = [conn EXCEPT ![c] = r]
    BY <1>1, <1>4, Zenon DEF Task
  <2>2. r \in Task
    BY <1>1, <1>4, Zenon DEF Task, States, Actions
  <2>3. /\ r.st = "tunnel" /\ r.action = "passthrough" /\ r.flow = conn[c].flow /\ r.name = conn[c].name
        /\ r.late = conn[c].late /\ r.said = conn[c].said /\ r.why = conn[c].why
        /\ r.count = conn[c].count
    BY <1>1, Zenon DEF Task
  <2> HIDE DEF r
  <2>4. Quiet(conn[c], r)
    BY <1>1, <1>4, <2>3 DEF Quiet, Ledger, Placed, Answered, Decided, Balanced,
       Unrouted, Attempting, Rejected, Pinning, Kinds
  <2> QED
    BY <2>1, <2>2, <2>4, Zenon DEF QuietStep, Becomes
<1> QED
  BY <1>3, <1>4, Zenon DEF route_transparent, decide_tls_routing

(* A CONNECT is attempted or tunnelled as its receipt says, early bytes or *)
(* not.                                                                    *)
LEMMA ConnectQuiet ==
    ASSUME conn \in [Tasks -> Task], NEW c \in Tasks, Ledger(conn[c]), route_connect(c)
    PROVE  QuietStep(c)
<1>1. conn[c] \in Task /\ conn[c].st = "route" /\ conn[c].flow = "connect"
  BY Zenon DEF route_connect, At
<1>2. ASSUME NEW s, NEW a,
             conn' = [conn EXCEPT ![c].action = a, ![c].st = s],
             \/ s = "establish" /\ a = "mitm"
             \/ s = "connect_tunnel" /\ a = "passthrough"
      PROVE QuietStep(c)
  <2> DEFINE r == [conn[c] EXCEPT !.action = a, !.st = s]
  <2>1. conn' = [conn EXCEPT ![c] = r]
    BY <1>1, <1>2, Zenon DEF Task
  <2>2. r \in Task
    BY <1>1, <1>2, Zenon DEF Task, States, Actions
  <2>3. /\ r.st = s /\ r.action = a /\ r.flow = conn[c].flow /\ r.name = conn[c].name
        /\ r.late = conn[c].late /\ r.said = conn[c].said /\ r.why = conn[c].why
        /\ r.count = conn[c].count
    BY <1>1, Zenon DEF Task
  <2> HIDE DEF r
  <2>4. Quiet(conn[c], r)
    BY <1>1, <1>2, <2>3 DEF Quiet, Ledger, Placed, Answered, Decided, Balanced,
       Unrouted, Attempting, Rejected, Pinning, Kinds
  <2> QED
    BY <2>1, <2>2, <2>4, Zenon DEF QuietStep, Becomes
<1> QED
  BY <1>2, Zenon DEF route_connect, decide_tls_routing, can_attempt_connect_mitm

-----------------------------------------------------------------------------
(* The store's own invariant holds in the composition. *)
LEMMA StoreInvKept == StoreInv /\ (\A c \in Conns : Ledger(conn[c])) /\ [Next]_vars => StoreInv'
<1> SUFFICES ASSUME StoreInv, \A c \in Conns : Ledger(conn[c]), [Next]_vars
             PROVE  [StoreNext]_storeVars
  BY StoreInvStep, Zenon
<1>1. ASSUME NEW c \in Conns, accept(c) \/ ConnStep(c) PROVE [StoreNext]_storeVars
  <2>1. c \in Tasks
    BY RoutingAssumption, Zenon
  <2>2. CASE pin_host_after_tls_rejection(c)
    <3>1. conn[c].name \in Names
      BY <2>2, Zenon DEF pin_host_after_tls_rejection, At, Ledger, Placed, Rejected
    <3> QED
      BY <2>1, <2>2, <3>1, Zenon DEF pin_host_after_tls_rejection, StoreNext
  <2>3. CASE pin_returned(c)
    BY <2>1, <2>3, Zenon DEF pin_returned, StoreNext
  <2>4. CASE UNCHANGED storeVars
    BY <2>4, Zenon
  <2> QED
    BY <1>1, <2>2, <2>3, <2>4, Zenon DEF accept, ConnStep, handle_connection, read_connect_head,
       route_transparent, route_connect, establish, probe_upstream, accept_client_tls,
       end_relay, suppress_auto_pin, fall_back, tunnel, connect_tunnel, handle_http_proxy,
       end_copy
<1>2. ASSUME NEW r \in Resets, serve_pins_reset(r) \/ pins_reset_returned(r)
      PROVE  [StoreNext]_storeVars
  BY <1>2, Zenon DEF Resets, serve_pins_reset, pins_reset_returned, StoreNext
<1>3. ASSUME NEW t \in Tasks, store_step(t) PROVE [StoreNext]_storeVars
  BY <1>3, Zenon DEF store_step, StoreNext
<1>4. CASE grace_ends \/ crash \/ restart
  BY <1>4, Zenon DEF grace_ends, crash, restart, StoreNext
<1>5. CASE UNCHANGED vars
  BY <1>5, Zenon DEF vars
<1> QED
  BY <1>1, <1>2, <1>3, <1>4, <1>5, Zenon DEF Next

(* A connection that has no route claims nothing, and neither does one     *)
(* outside the store that was never counted.                               *)
LEMMA UnroutedClaimsNothing ==
    ASSUME RoutingInv, NEW c \in Conns, conn[c].st \in Unrouted
    PROVE  ~Claims(c) /\ ~conn[c].late /\ pc[c] = "idle"
<1>1. pc[c] = "idle" /\ ret[c] = "none"
  BY Zenon DEF RoutingInv, PinInv, PinOf, Unrouted, Pinning
<1>2. Counted(c, "auto_pinned") = 0 /\ ~conn[c].late
  BY Zenon DEF RoutingInv, Ledger, Balanced, Placed, Counted, Kinds
<1> QED
  BY <1>1, <1>2 DEF Claims, Persisting

(* A step that makes no new claim and takes no host out of memory. *)
LEMMA NoNewClaim ==
    ASSUME RoutingInv,
           ~reset' => ~reset /\ hosts \subseteq hosts',
           \A d \in Conns : Claims(d)' => Claims(d) /\ HostOf(d)' = HostOf(d)
    PROVE  /\ ~reset' => \A c, d \in Conns :
                 Claims(c)' /\ Claims(d)' /\ HostOf(c)' = HostOf(d)' => c = d
           /\ ~reset' => \A c \in Conns : Claims(c)' => HostOf(c)' \in hosts'
BY Zenon DEF RoutingInv, PinInv, PinOf

(* A quiet step makes no claim and keeps every claim. *)
LEMMA QuietPins ==
    ASSUME RoutingInv, NEW c \in Conns, QuietStep(c), UNCHANGED <<storeVars, reset>>, up
    PROVE  PinInv'
<1>1. PICK r : Becomes(c, r) /\ Quiet(conn[c], r)
  BY Zenon DEF QuietStep
<1>2. c \in Tasks /\ \A d \in Conns : d \in Tasks
  BY RoutingAssumption, Zenon
<1>3. /\ conn' = [conn EXCEPT ![c] = r] /\ conn'[c] = r
      /\ \A t \in Tasks : t # c => conn'[t] = conn[t]
  BY <1>1, <1>2, Zenon DEF RoutingInv, Becomes
<1>4. up' = up /\ hosts' = hosts /\ pc' = pc /\ call' = call /\ ret' = ret /\ reset' = reset
  BY Zenon DEF storeVars, callVars
<1>5. ASSUME NEW d \in Conns
      PROVE  /\ Claims(d)' <=> Claims(d)
             /\ Claims(d) \/ conn[d].late \/ pc[d] # "idle" => HostOf(d)' = HostOf(d)
             /\ conn'[d].late = conn[d].late
             /\ conn'[d].st \in Pinning <=> conn[d].st \in Pinning
  <2>1. CASE d # c
    BY <1>2, <1>3, <1>4, <2>1, Zenon DEF Claims, Counted, HostOf
  <2>2. CASE d = c
    <3>1. Claims(d)' <=> Claims(d)
      BY <1>1, <1>3, <1>4, <2>2, Zenon DEF Claims, Counted, Quiet
    <3>2. Claims(d) \/ conn[d].late \/ pc[d] # "idle" => conn[d].st \notin Unrouted
      BY UnroutedClaimsNothing, Zenon
    <3>3. conn[d].st \notin Unrouted => HostOf(d)' = HostOf(d)
      BY <1>1, <1>3, <2>2, Zenon DEF HostOf, Quiet
    <3> QED
      BY <1>1, <1>3, <2>2, <3>1, <3>2, <3>3, Zenon DEF Quiet
  <2> QED
    BY <2>1, <2>2, Zenon
<1>6. ASSUME NEW d \in Conns PROVE PinOf(d)'
  <2>1. PinOf(d)
    BY Zenon DEF RoutingInv, PinInv
  <2>2. /\ pc'[d] # "idle" <=> conn'[d].st \in Pinning
        /\ pc'[d] = "idle" => ret'[d] = "none"
    BY <1>4, <1>5, <2>1, Zenon DEF PinOf
  <2>3. pc'[d] # "idle" => Adds(d)'
    BY <1>4, <1>5, <2>1, Zenon DEF PinOf, Adds
  <2>4. /\ ~reset' /\ conn'[d].late => pc'[d] = "wait" \/ HostOf(d)' \in hosts' \cup {NoHost}
        /\ ~reset' /\ Claims(d)' => HostOf(d)' \in hosts'
    BY <1>4, <1>5, <2>1 DEF PinOf
  <2> QED
    BY <2>2, <2>3, <2>4, Zenon DEF PinOf
<1>7. ~reset' => \A d, e \in Conns :
          Claims(d)' /\ Claims(e)' /\ HostOf(d)' = HostOf(e)' => d = e
  BY <1>4, <1>5 DEF RoutingInv, PinInv
<1> QED
  BY <1>4, <1>6, <1>7, Zenon DEF RoutingInv, PinInv

(* A rejection after the grace period calls the store, which does not      *)
(* change before the call gets the lock.                                   *)
LEMMA PinCalled ==
    ASSUME RoutingInv, NEW c \in Conns, pin_host_after_tls_rejection(c)
    PROVE  /\ conn' \in [Tasks -> Task]
           /\ \A d \in Conns : Ledger(conn'[d])
           /\ PinInv'
<1> DEFINE s == IF conn[c].st = "upstream_rejected" THEN "pin_upstream" ELSE "pin_client"
           r == [conn[c] EXCEPT !.st = s, !.late = TRUE]
<1>1. c \in Tasks /\ (\A d \in Conns : d \in Tasks) /\ conn \in [Tasks -> Task]
  BY RoutingAssumption, Zenon DEF RoutingInv
<1>2. conn[c] \in Task /\ conn[c].st \in {"upstream_rejected", "client_rejected"}
  BY <1>1, Zenon DEF pin_host_after_tls_rejection, At
<1>3. conn' = [conn EXCEPT ![c] = r]
  BY <1>1, <1>2, Zenon DEF pin_host_after_tls_rejection, Task
<1>4. s \in Pinning /\ s \in States
  BY Zenon DEF Pinning, States
<1> HIDE DEF s
<1>5. r \in Task
  BY <1>2, <1>4, Zenon DEF Task
<1>6. /\ r.st = s /\ r.late /\ r.name = conn[c].name /\ r.flow = conn[c].flow
      /\ r.action = conn[c].action /\ r.said = conn[c].said /\ r.why = conn[c].why
      /\ r.count = conn[c].count
  BY <1>2, Zenon DEF Task
<1> HIDE DEF r
<1>7. conn' \in [Tasks -> Task] /\ conn'[c] = r /\ \A t \in Tasks : t # c => conn'[t] = conn[t]
  BY <1>1, <1>3, <1>5, Zenon
<1>8. Ledger(conn[c])
  BY Zenon DEF RoutingInv
<1>9. Ledger(r)
  BY <1>2, <1>4, <1>6, <1>8, Zenon DEF Ledger, Placed, Answered, Decided, Balanced, Unrouted,
     Attempting, Rejected, Pinning, Kinds
<1>10. \A d \in Conns : Ledger(conn'[d])
  BY <1>1, <1>7, <1>9, Zenon DEF RoutingInv
<1>11. /\ up /\ up' = up /\ hosts' = hosts /\ reset' = reset /\ pc[c] = "idle"
       /\ call' = [call EXCEPT ![c] = [op |-> "add", host |-> HostOf(c)]]
  BY Zenon DEF pin_host_after_tls_rejection, add_and_persist, HostOf
<1>12. \/ /\ HostOf(c) = NoHost
          /\ pc' = [pc EXCEPT ![c] = "done"] /\ ret' = [ret EXCEPT ![c] = "false"]
       \/ pc' = [pc EXCEPT ![c] = "wait"] /\ ret' = ret
  BY Zenon DEF pin_host_after_tls_rejection, add_and_persist, HostOf, Return
<1>13. pc \in [Tasks -> Steps] /\ call \in [Tasks -> Calls] /\ ret \in [Tasks -> Results]
  BY Zenon DEF RoutingInv, StoreInv, StoreTypeOK
<1>14. \A t \in Tasks : t # c => pc'[t] = pc[t] /\ ret'[t] = ret[t] /\ call'[t] = call[t]
  BY <1>11, <1>12, <1>13, Zenon
<1>15. \A d \in Conns : /\ HostOf(d)' = HostOf(d)
                        /\ Counted(d, "auto_pinned")' = Counted(d, "auto_pinned")
  BY <1>1, <1>6, <1>7, Zenon DEF HostOf, Counted
<1>16. \/ HostOf(c) = NoHost /\ pc'[c] = "done" /\ ret'[c] = "false"
       \/ pc'[c] = "wait"
  BY <1>1, <1>12, <1>13, Zenon
<1>17. \A d \in Conns : Claims(d)' => Claims(d)
  BY <1>1, <1>14, <1>15, <1>16, Zenon DEF Claims, Persisting
<1>18. ASSUME NEW d \in Conns PROVE PinOf(d)'
  <2>1. PinOf(d)
    BY Zenon DEF RoutingInv, PinInv
  <2>2. ~reset' /\ Claims(d)' => HostOf(d)' \in hosts'
    BY <1>11, <1>15, <1>17, <2>1, Zenon DEF PinOf
  <2>3. CASE d = c
    <3>1. pc'[c] # "idle" /\ conn'[c].st \in Pinning /\ Adds(c)'
      BY <1>1, <1>4, <1>6, <1>7, <1>11, <1>13, <1>15, <1>16, Zenon DEF Adds
    <3>2. pc'[c] = "wait" \/ HostOf(c)' \in hosts' \cup {NoHost}
      BY <1>15, <1>16, Zenon
    <3> QED
      BY <2>2, <2>3, <3>1, <3>2, Zenon DEF PinOf
  <2>4. CASE d # c
    <3>1. Adds(d)' <=> Adds(d)
      BY <1>1, <1>14, <1>15, <2>4, Zenon DEF Adds
    <3> QED
      BY <1>1, <1>7, <1>11, <1>14, <1>15, <2>1, <2>2, <2>4, <3>1, Zenon DEF PinOf
  <2> QED
    BY <2>3, <2>4, Zenon
<1>19. \A t \in Resets : pc'[t] # "idle" => call'[t].op = "clear"
  BY <1>1, <1>14, Zenon DEF Resets, RoutingInv, PinInv
<1> QED
  BY <1>7, <1>10, <1>11, <1>15, <1>17, <1>18, <1>19, NoNewClaim, Zenon DEF PinInv

(* The call returned: the connection counts what it was told. *)
LEMMA PinReturned ==
    ASSUME RoutingInv, NEW c \in Conns, pin_returned(c)
    PROVE  /\ conn' \in [Tasks -> Task]
           /\ \A d \in Conns : Ledger(conn'[d])
           /\ PinInv'
<1> DEFINE s == IF At(c, "pin_upstream") /\ ret[c] # "error" THEN "fallback" ELSE "closed"
           K == IF ret[c] = "true" THEN {"auto_pinned"} ELSE {}
<1>1. c \in Tasks /\ (\A d \in Conns : d \in Tasks) /\ conn \in [Tasks -> Task]
  BY RoutingAssumption, Zenon DEF RoutingInv
<1>2. conn[c] \in Task /\ conn[c].st \in Pinning
  BY <1>1, Zenon DEF pin_returned, At, Pinning
<1>3. s \in {"fallback", "closed"} /\ s \in States
  BY Zenon DEF States
<1>4. K = IF ret[c] = "true" THEN {"auto_pinned"} ELSE {}
  BY Zenon
<1>5. Goto(c, s, K)
  BY Zenon DEF pin_returned
<1> HIDE DEF s, K
<1>6. PICK r : Becomes(c, r) /\ Gone(conn[c], r, s, K)
  BY <1>1, <1>3, <1>5, Goes, Zenon
<1>7. conn' \in [Tasks -> Task] /\ conn'[c] = r /\ \A t \in Tasks : t # c => conn'[t] = conn[t]
  BY <1>1, <1>6, Zenon DEF Becomes
<1>8. /\ \A e \in Kinds \ {"auto_pinned"} : r.count[e] = conn[c].count[e]
      /\ r.count["auto_pinned"] = IF ret[c] = "true" THEN conn[c].count["auto_pinned"] + 1
                                                     ELSE conn[c].count["auto_pinned"]
  BY <1>4, <1>6, Zenon DEF Gone, Tallied, Kinds
<1>9. Ledger(conn[c])
  BY Zenon DEF RoutingInv
<1>10. Ledger(r)
  <2>1. /\ conn[c].st \in Rejected /\ conn[c].st \notin Attempting
        /\ r.st \in {"fallback", "closed"} /\ r.st \notin Unrouted /\ r.st \notin Attempting
    BY <1>2, <1>3, <1>6, Zenon DEF Gone, Unrouted, Attempting, Rejected, Pinning
  <2>2. /\ r.flow = conn[c].flow /\ r.name = conn[c].name /\ r.late = conn[c].late
        /\ r.action = conn[c].action /\ r.said = conn[c].said /\ r.why = conn[c].why
    BY <1>6, Zenon DEF Gone, SameRoute
  <2>3. \A e \in {"attempt", "success", "failure", "passthrough"} : r.count[e] = conn[c].count[e]
    BY <1>8, Zenon DEF Kinds
  <2>4. Placed(r)
    BY <1>9, <2>1, <2>2, Zenon DEF Ledger, Placed
  <2>5. Answered(r)
    BY <1>9, <2>1, <2>2, Zenon DEF Ledger, Answered
  <2>6. Decided(r)
    BY <1>9, <2>1, <2>2, <2>3, Zenon DEF Ledger, Decided
  <2>7. Balanced(r)
    BY <1>9, <2>1, <2>2, <2>3, Zenon DEF Ledger, Balanced
  <2> QED BY <2>4, <2>5, <2>6, <2>7, Zenon DEF Ledger
<1>11. \A d \in Conns : Ledger(conn'[d])
  BY <1>1, <1>7, <1>10, Zenon DEF RoutingInv
<1>12. up' = up /\ hosts' = hosts /\ reset' = reset /\ pc[c] = "done"
  BY Zenon DEF pin_returned, Resume
<1>13. pc \in [Tasks -> Steps] /\ call \in [Tasks -> Calls] /\ ret \in [Tasks -> Results]
  BY Zenon DEF RoutingInv, StoreInv, StoreTypeOK
<1>14. /\ \A t \in Tasks : t # c => pc'[t] = pc[t] /\ ret'[t] = ret[t] /\ call'[t] = call[t]
       /\ pc'[c] = "idle" /\ ret'[c] = "none"
  BY <1>1, <1>13, Zenon DEF pin_returned, Resume
<1>15. \A d \in Conns : HostOf(d)' = HostOf(d) /\ conn'[d].late = conn[d].late
  BY <1>1, <1>6, <1>7, Zenon DEF HostOf, Gone, SameRoute
<1>16. \A d \in Conns : Claims(d)' => Claims(d)
  <2>1. \A d \in Conns : d # c => (Claims(d)' <=> Claims(d))
    BY <1>1, <1>7, <1>14, Zenon DEF Claims, Counted
  <2>2. Claims(c)' => Claims(c)
    BY <1>7, <1>8, <1>12, <1>14, Zenon DEF Claims, Counted, Persisting
  <2> QED
    BY <2>1, <2>2, Zenon
<1>17. up
  BY <1>1, <1>2, Zenon DEF RoutingInv, PinInv, Pinning
<1>18. ASSUME NEW d \in Conns PROVE PinOf(d)'
  <2>1. PinOf(d)
    BY Zenon DEF RoutingInv, PinInv
  <2>2. ~reset' /\ Claims(d)' => HostOf(d)' \in hosts'
    BY <1>12, <1>15, <1>16, <2>1, Zenon DEF PinOf
  <2>3. CASE d = c
    <3>1. conn'[c].st \notin Pinning
      BY <1>3, <1>6, <1>7, Zenon DEF Gone, Pinning
    <3>2. ~reset' /\ conn'[c].late => HostOf(c)' \in hosts' \cup {NoHost}
      BY <1>12, <1>15, <2>1, <2>3, Zenon DEF PinOf
    <3> QED
      BY <1>14, <2>2, <2>3, <3>1, <3>2, Zenon DEF PinOf
  <2>4. CASE d # c
    <3>1. Adds(d)' <=> Adds(d)
      BY <1>1, <1>14, <1>15, <2>4, Zenon DEF Adds
    <3> QED
      BY <1>1, <1>7, <1>12, <1>14, <1>15, <2>1, <2>2, <2>4, <3>1, Zenon DEF PinOf
  <2> QED
    BY <2>3, <2>4, Zenon
<1>19. \A t \in Resets : pc'[t] # "idle" => call'[t].op = "clear"
  BY <1>1, <1>14, Zenon DEF Resets, RoutingInv, PinInv
<1> QED
  BY <1>7, <1>11, <1>12, <1>15, <1>16, <1>17, <1>18, <1>19, NoNewClaim, Zenon DEF PinInv

(* A dashboard request is no connection: its calls leave the connections   *)
(* and the claims alone until it gets the lock.                            *)
LEMMA ResetRequest ==
    ASSUME RoutingInv, NEW r \in Resets, serve_pins_reset(r) \/ pins_reset_returned(r)
    PROVE  /\ conn' \in [Tasks -> Task]
           /\ \A d \in Conns : Ledger(conn'[d])
           /\ PinInv'
<1>1. r \in Tasks /\ r \notin Conns /\ (\A d \in Conns : d \in Tasks) /\ conn \in [Tasks -> Task]
  BY RoutingAssumption, Zenon DEF RoutingInv, Resets
<1>2. PICK k : Becomes(r, k)
  <2>1. CASE Goto(r, "reset", {})
    BY <1>1, <2>1, Goes, Zenon DEF States
  <2>2. ASSUME NEW code \in Codes, Say(r, "closed", {}, code) PROVE \E k : Becomes(r, k)
    BY <1>1, <2>2, Says, Zenon DEF States
  <2>3. Goto(r, "reset", {}) \/ \E code \in Codes : Say(r, "closed", {}, code)
    BY Zenon DEF serve_pins_reset, pins_reset_returned, Codes
  <2> QED
    BY <2>1, <2>2, <2>3, Zenon
<1>3. conn' \in [Tasks -> Task] /\ \A t \in Tasks : t # r => conn'[t] = conn[t]
  BY <1>1, <1>2, Zenon DEF Becomes
<1>4. \A d \in Conns : conn'[d] = conn[d]
  BY <1>1, <1>3, Zenon
<1>5. pc \in [Tasks -> Steps] /\ call \in [Tasks -> Calls] /\ ret \in [Tasks -> Results]
  BY Zenon DEF RoutingInv, StoreInv, StoreTypeOK
<1>6. /\ hosts' = hosts /\ reset' = reset /\ up' = up
      /\ \A t \in Tasks : t # r => pc'[t] = pc[t] /\ ret'[t] = ret[t] /\ call'[t] = call[t]
      /\ pc'[r] # "idle" => call'[r].op = "clear"
  <2>1. pc[r] # "idle" => call[r].op = "clear"
    BY Zenon DEF RoutingInv, PinInv
  <2>2. CASE clear_and_persist(r)
    BY <1>1, <1>5, <2>2, Zenon DEF clear_and_persist, serve_pins_reset, pins_reset_returned, NoCall
  <2>3. CASE Resume(r)
    BY <1>1, <1>5, <2>3, Zenon DEF Resume, serve_pins_reset, pins_reset_returned
  <2>4. CASE UNCHANGED storeVars
    BY <2>1, <2>4, Zenon DEF storeVars, callVars, serve_pins_reset, pins_reset_returned
  <2> QED
    BY <2>2, <2>3, <2>4, Zenon DEF serve_pins_reset, pins_reset_returned
<1>7. up
  <2>1. (conn[r].st = "new" /\ up) \/ conn[r].st = "reset"
    BY Zenon DEF serve_pins_reset, pins_reset_returned, At
  <2> QED
    BY <1>1, <2>1, Zenon DEF RoutingInv, PinInv
<1>8. \A d \in Conns : /\ HostOf(d)' = HostOf(d)
                       /\ pc'[d] = pc[d] /\ ret'[d] = ret[d] /\ call'[d] = call[d]
  BY <1>1, <1>4, <1>6, Zenon DEF HostOf
<1>9. \A d \in Conns : (Claims(d)' <=> Claims(d)) /\ (Adds(d)' <=> Adds(d))
  BY <1>4, <1>8, Zenon DEF Claims, Counted, Adds
<1>10. \A d \in Conns : PinOf(d)'
  BY <1>4, <1>6, <1>8, <1>9, SMTT(20) DEF RoutingInv, PinInv, PinOf
<1>11. \A t \in Resets : pc'[t] # "idle" => call'[t].op = "clear"
  BY <1>6, Zenon DEF Resets, RoutingInv, PinInv
<1> QED
  BY <1>3, <1>4, <1>6, <1>7, <1>8, <1>9, <1>10, <1>11, NoNewClaim, Zenon DEF RoutingInv, PinInv

(* The steps inside the store, as far as claims go: the lock is granted to *)
(* a host that is there or that is not, to a reset, or the holder of the   *)
(* lock goes on.                                                           *)
LEMMA StoreStepForms ==
    ASSUME RoutingInv, NEW t \in Tasks, StoreStep(t)
    PROVE  /\ up' = up /\ call' = call
           /\ \A d \in Tasks : d # t => pc'[d] = pc[d] /\ ret'[d] = ret[d]
           /\ \/ /\ pc[t] = "wait" /\ call[t].op = "add" /\ call[t].host \in hosts
                 /\ hosts' = hosts /\ pc'[t] = "done" /\ ret'[t] = "false"
              \/ /\ pc[t] = "wait" /\ call[t].op = "add" /\ call[t].host \notin hosts
                 /\ hosts' = hosts \cup {call[t].host} /\ pc'[t] = "write" /\ ret'[t] = ret[t]
              \/ /\ pc[t] = "wait" /\ call[t].op = "clear" /\ pc'[t] = "write" /\ ret'[t] = ret[t]
              \/ /\ pc[t] \in Persisting /\ hosts' = hosts
                 /\ pc'[t] \in Persisting \cup {"done"}
<1>1. pc \in [Tasks -> Steps] /\ ret \in [Tasks -> Results]
  BY Zenon DEF RoutingInv, StoreInv, StoreTypeOK
<1> USE <1>1 DEF Return, Persisting
<1>2. CASE AddLocked(t)
  BY <1>2, Zenon DEF AddLocked
<1>3. CASE ClearLocked(t)
  BY <1>3, Zenon DEF ClearLocked
<1>4. CASE WriteTmp(t)
  BY <1>4, Zenon DEF WriteTmp
<1>5. CASE WriteFails(t)
  BY <1>5, Zenon DEF WriteFails
<1>6. CASE Rename(t)
  BY <1>6, Zenon DEF Rename
<1>7. CASE RenameRefused(t)
  BY <1>7, Zenon DEF RenameRefused
<1>8. CASE RemoveDestination(t)
  BY <1>8, Zenon DEF RemoveDestination
<1>9. CASE RenameFails(t)
  BY <1>9, Zenon DEF RenameFails
<1> QED
  BY <1>2, <1>3, <1>4, <1>5, <1>6, <1>7, <1>8, <1>9, Zenon DEF StoreStep

(* A host is claimed under the lock, and only when memory does not hold    *)
(* it: whoever claimed it before still has it there.                       *)
LEMMA StoreSteps ==
    ASSUME RoutingInv, NEW t \in Tasks, store_step(t)
    PROVE  PinInv'
<1>1. (\A d \in Conns : d \in Tasks) /\ (\A d \in Tasks : d \in Conns \/ d \in Resets)
  BY RoutingAssumption, Zenon DEF Resets
<1>2. /\ conn' = conn /\ reset \in BOOLEAN
      /\ reset' = (reset \/ (pc[t] = "wait" /\ call[t].op = "clear"))
  BY Zenon DEF store_step, RoutingInv
<1>3. /\ up' = up /\ call' = call
      /\ \A d \in Tasks : d # t => pc'[d] = pc[d] /\ ret'[d] = ret[d]
  BY StoreStepForms, Zenon DEF store_step
<1>4. pc[t] # "idle" /\ pc'[t] # "idle"
  BY StoreStepForms, Zenon DEF store_step, Persisting
<1>5. \A d \in Conns : /\ HostOf(d)' = HostOf(d) /\ (Adds(d)' <=> Adds(d))
                       /\ Counted(d, "auto_pinned")' = Counted(d, "auto_pinned")
  BY <1>2, <1>3, Zenon DEF HostOf, Adds, Counted
<1>6. \A d \in Conns : d # t => (Claims(d)' <=> Claims(d))
  BY <1>1, <1>3, <1>5, Zenon DEF Claims
<1>7. t \in Conns => call[t].op = "add" /\ call[t].host = HostOf(t)
  <2>1. t \in Conns => Adds(t)
    BY <1>4, Zenon DEF RoutingInv, PinInv, PinOf
  <2> QED
    BY <2>1 DEF Adds
<1>8. t \in Resets => call[t].op = "clear"
  BY <1>4, Zenon DEF RoutingInv, PinInv
<1>9. \A d \in Conns : PinOf(d)
  BY Zenon DEF RoutingInv, PinInv
(* Where the tasks are. *)
<1>10. \A d \in Conns : /\ pc'[d] # "idle" <=> conn'[d].st \in Pinning
                        /\ pc'[d] # "idle" => Adds(d)'
                        /\ pc'[d] = "idle" => ret'[d] = "none"
  BY <1>1, <1>2, <1>3, <1>4, <1>5, <1>9, Zenon DEF PinOf
<1>11. \A r \in Resets : pc'[r] # "idle" => call'[r].op = "clear"
  <2> SUFFICES ASSUME NEW r \in Resets, pc'[r] # "idle" PROVE call[r].op = "clear"
    BY <1>3, Zenon
  <2>1. r # t => pc'[r] = pc[r]
    BY <1>3, Zenon DEF Resets
  <2> QED
    BY <1>8, <2>1, Zenon DEF RoutingInv, PinInv
<1>12. ~up' => \A d \in Tasks : conn'[d].st \in {"new", "dead"}
  BY <1>2, <1>3, Zenon DEF RoutingInv, PinInv
(* What they claim. *)
<1> DEFINE Kept == /\ \A d \in Conns : conn'[d].late =>
                          pc'[d] = "wait" \/ HostOf(d)' \in hosts' \cup {NoHost}
                   /\ \A d \in Conns : Claims(d)' => HostOf(d)' \in hosts'
                   /\ \A c, d \in Conns :
                          Claims(c)' /\ Claims(d)' /\ HostOf(c)' = HostOf(d)' => c = d
<1>13. SUFFICES ASSUME ~reset' PROVE Kept
  BY <1>10, <1>11, <1>12, Zenon DEF PinInv, PinOf
<1>14. /\ ~reset
       /\ \A d \in Conns : conn[d].late => pc[d] = "wait" \/ HostOf(d) \in hosts \cup {NoHost}
       /\ \A d \in Conns : Claims(d) => HostOf(d) \in hosts
       /\ \A c, d \in Conns : Claims(c) /\ Claims(d) /\ HostOf(c) = HostOf(d) => c = d
  BY <1>2, <1>9, <1>13, Zenon DEF PinOf, RoutingInv, PinInv
<1>15. ASSUME pc[t] = "wait", call[t].op = "add", call[t].host \notin hosts,
              hosts' = hosts \cup {call[t].host}
       PROVE  Kept
  <2>1. t \in Conns /\ HostOf(t) \notin hosts /\ hosts' = hosts \cup {HostOf(t)}
    BY <1>1, <1>7, <1>8, <1>15, Zenon
  <2>2. \A d \in Conns : d # t /\ Claims(d)' => HostOf(d)' \in hosts /\ HostOf(d)' # HostOf(t)'
    BY <1>5, <1>6, <1>14, <2>1, Zenon
  <2>3. \A d \in Conns : conn'[d].late => pc'[d] = "wait" \/ HostOf(d)' \in hosts' \cup {NoHost}
    BY <1>1, <1>2, <1>3, <1>5, <1>14, <2>1, Zenon
  <2>4. \A d \in Conns : Claims(d)' => HostOf(d)' \in hosts'
    BY <1>5, <2>1, <2>2, Zenon
  <2>5. \A c, d \in Conns : Claims(c)' /\ Claims(d)' /\ HostOf(c)' = HostOf(d)' => c = d
    BY <1>5, <1>6, <1>14, <2>2, Zenon
  <2> QED
    BY <2>3, <2>4, <2>5, Zenon
<1>16. ASSUME hosts' = hosts, pc'[t] # "wait", t \in Conns => (Claims(t)' => Claims(t)),
              pc[t] = "wait" /\ t \in Conns => HostOf(t) \in hosts
       PROVE  Kept
  <2>1. \A d \in Conns : Claims(d)' => Claims(d)
    BY <1>6, <1>16, Zenon
  <2>2. \A d \in Conns : conn'[d].late => pc'[d] = "wait" \/ HostOf(d)' \in hosts' \cup {NoHost}
    BY <1>1, <1>2, <1>3, <1>5, <1>14, <1>16, Zenon
  <2> QED
    BY <1>5, <1>14, <1>16, <2>1, <2>2, Zenon
<1>17. CASE pc[t] = "wait" /\ call[t].op = "add" /\ call[t].host \in hosts /\ hosts' = hosts
            /\ pc'[t] = "done" /\ ret'[t] = "false"
  <2>1. t \in Conns => (Claims(t)' => Claims(t))
    BY <1>5, <1>17, Zenon DEF Claims, Persisting
  <2> QED
    BY <1>7, <1>16, <1>17, <2>1, Zenon
<1>18. CASE pc[t] \in Persisting /\ hosts' = hosts /\ pc'[t] \in Persisting \cup {"done"}
  BY <1>16, <1>18, Zenon DEF Claims, Persisting
<1>19. CASE pc[t] = "wait" /\ call[t].op = "clear"
  BY <1>2, <1>13, <1>19, Zenon
<1> QED
  BY <1>15, <1>17, <1>18, <1>19, StoreStepForms, Zenon DEF store_step

(* A crash ends every task. *)
LEMMA Crashed ==
    ASSUME RoutingInv, crash
    PROVE  /\ conn' \in [Tasks -> Task]
           /\ \A d \in Conns : Ledger(conn'[d])
           /\ PinInv'
<1> DEFINE Dead == [NewTask EXCEPT !.st = "dead"]
<1>1. [k \in Kinds |-> 0] \in Counts /\ <<>> \in Statuses
  BY DEF Counts, Statuses
<1>2. NewTask \in Task /\ Dead \in Task
  BY <1>1, Zenon DEF NewTask, Task, States, Flows, Actions, Reasons
<1>3. \A k \in {NewTask, Dead} :
         /\ k.st \in {"new", "dead"} /\ k.flow = "none" /\ ~k.late /\ k.said = <<>>
         /\ k.why = "none" /\ \A e \in Kinds : k.count[e] = 0
  BY DEF NewTask
<1>4. \A t \in Tasks : conn'[t] \in {NewTask, Dead}
  BY Zenon DEF crash
<1> HIDE DEF Dead
<1>5. conn' \in [Tasks -> Task]
  BY <1>2, Zenon DEF crash, Dead
<1>6. \A k \in {NewTask, Dead} : Ledger(k)
  BY <1>3 DEF Ledger, Placed, Answered, Decided, Balanced, Unrouted, Attempting, Rejected, Kinds
<1>7. \A d \in Conns : Ledger(conn'[d])
  BY <1>4, <1>6, RoutingAssumption, Zenon
<1>8. \A t \in Tasks : pc'[t] = "idle" /\ ret'[t] = "none"
  BY Zenon DEF crash, Crash
<1>9. \A d \in Conns : /\ d \in Tasks /\ conn'[d].st \notin Pinning /\ ~conn'[d].late
                       /\ ~Claims(d)'
  BY <1>3, <1>4, <1>8, RoutingAssumption DEF Claims, Counted, Persisting, Pinning, Kinds
<1>10. \A d \in Conns : PinOf(d)'
  BY <1>8, <1>9, Zenon DEF PinOf
<1>11. \A t \in Tasks : conn'[t].st \in {"new", "dead"}
  BY <1>3, <1>4, Zenon
<1> QED
  BY <1>5, <1>7, <1>8, <1>9, <1>10, <1>11, Zenon DEF PinInv, Resets

(* A restart finds every task gone. *)
LEMMA Restarted ==
    ASSUME RoutingInv, restart
    PROVE  PinInv'
<1>1. /\ ~up /\ conn' = conn /\ pc' = pc /\ call' = call /\ ret' = ret /\ up'
  BY Zenon DEF restart, load, callVars
<1>2. \A d \in Conns : conn[d].st \in Unrouted
  BY <1>1, RoutingAssumption, Zenon DEF RoutingInv, PinInv, Unrouted
<1>3. \A d \in Conns : ~Claims(d) /\ ~conn[d].late /\ pc[d] = "idle"
  BY <1>2, UnroutedClaimsNothing, Zenon
<1>4. \A d \in Conns : ~Claims(d)'
  BY <1>1, <1>3, Zenon DEF Claims, Counted
<1>5. \A d \in Conns : PinOf(d)'
  BY <1>1, <1>3, <1>4, Zenon DEF RoutingInv, PinInv, PinOf
<1> QED
  BY <1>1, <1>4, <1>5, Zenon DEF RoutingInv, PinInv

(* Steps that leave the store and the connections alone. *)
LEMMA PinInvUnchanged ==
    ASSUME PinInv, UNCHANGED <<up, hosts, pc, call, ret, conn, reset>>
    PROVE  PinInv'
BY Zenon DEF PinInv, PinOf, Claims, Adds, HostOf, Counted

(* The program starts with every connection unread. *)
LEMMA RoutingInvInit == Init => RoutingInv
<1> SUFFICES ASSUME Init PROVE RoutingInv
  BY Zenon
<1>1. [k \in Kinds |-> 0] \in Counts /\ <<>> \in Statuses
  BY DEF Counts, Statuses
<1>2. NewTask \in Task
  BY <1>1, Zenon DEF NewTask, Task, States, Flows, Actions, Reasons
<1>3. /\ NewTask.st = "new" /\ NewTask.flow = "none" /\ ~NewTask.late /\ NewTask.said = <<>>
      /\ NewTask.why = "none" /\ \A e \in Kinds : NewTask.count[e] = 0
  BY Zenon DEF NewTask
<1>4. conn = [t \in Tasks |-> NewTask] /\ reset = FALSE /\ \A d \in Conns : d \in Tasks
  BY RoutingAssumption, Zenon DEF Init
<1>5. Ledger(NewTask)
  BY <1>3 DEF Ledger, Placed, Answered, Decided, Balanced, Unrouted, Attempting, Rejected, Kinds
<1>6. up /\ \A t \in Tasks : pc[t] = "idle" /\ ret[t] = "none"
  BY Zenon DEF Init, StoreInit
<1>7. \A d \in Conns : conn[d].st \notin Pinning /\ ~conn[d].late /\ ~Claims(d)
  BY <1>3, <1>4, <1>6 DEF Claims, Counted, Persisting, Pinning, Kinds
<1>8. PinInv
  BY <1>4, <1>6, <1>7, Zenon DEF PinInv, PinOf, Resets
<1> QED
  BY <1>2, <1>4, <1>5, <1>8, StoreInvInit, Zenon DEF Init, RoutingInv

(* A step of a connection other than its two calls on the store is quiet. *)
LEMMA ConnStepQuiet ==
    ASSUME RoutingInv, NEW c \in Conns, accept(c) \/ ConnStep(c),
           ~pin_host_after_tls_rejection(c), ~pin_returned(c)
    PROVE  QuietStep(c) /\ UNCHANGED <<storeVars, reset>> /\ up
<1>1. c \in Tasks /\ conn \in [Tasks -> Task] /\ Ledger(conn[c])
  BY RoutingAssumption, Zenon DEF RoutingInv
<1>2. QuietStep(c)
  BY <1>1, AcceptQuiet, ClassifyQuiet, HeadQuiet, TransparentQuiet, ConnectQuiet, EstablishQuiet,
     ProbeQuiet, HandshakeQuiet, RelayQuiet, SuppressQuiet, FallBackQuiet, TunnelQuiet,
     ConnectTunnelQuiet, HttpProxyQuiet, EndCopyQuiet, Zenon DEF ConnStep
<1>3. UNCHANGED <<storeVars, reset>>
  BY Zenon DEF accept, ConnStep, handle_connection, read_connect_head, route_transparent,
     route_connect, establish, probe_upstream, accept_client_tls, end_relay,
     suppress_auto_pin, fall_back, tunnel, connect_tunnel, handle_http_proxy, end_copy
<1>4. up \/ conn[c].st \notin {"new", "dead"}
  BY Zenon DEF accept, ConnStep, handle_connection, read_connect_head, route_transparent,
     route_connect, establish, probe_upstream, accept_client_tls, end_relay,
     suppress_auto_pin, fall_back, tunnel, connect_tunnel, handle_http_proxy, end_copy, At
<1> QED
  BY <1>1, <1>2, <1>3, <1>4, Zenon DEF RoutingInv, PinInv

(* Every action keeps the invariant. *)
LEMMA RoutingInvStep == RoutingInv /\ [Next]_vars => RoutingInv'
<1> SUFFICES ASSUME RoutingInv, [Next]_vars PROVE RoutingInv'
  BY Zenon
<1>1. StoreInv'
  BY StoreInvKept, Zenon DEF RoutingInv
<1>2. reset' \in BOOLEAN
  BY Zenon DEF RoutingInv, Next, vars, accept, ConnStep, handle_connection, read_connect_head,
     route_transparent, route_connect, establish, probe_upstream, accept_client_tls, end_relay,
     suppress_auto_pin, pin_host_after_tls_rejection, pin_returned, fall_back, tunnel,
     connect_tunnel, handle_http_proxy, end_copy, serve_pins_reset, pins_reset_returned,
     store_step, grace_ends, crash, restart
<1>3. /\ conn' \in [Tasks -> Task]
      /\ \A d \in Conns : Ledger(conn'[d])
      /\ PinInv'
  <2>1. ASSUME NEW c \in Conns, accept(c) \/ ConnStep(c), ~pin_host_after_tls_rejection(c),
               ~pin_returned(c)
        PROVE  /\ conn' \in [Tasks -> Task]
               /\ \A d \in Conns : Ledger(conn'[d])
               /\ PinInv'
    <3>1. QuietStep(c) /\ UNCHANGED <<storeVars, reset>> /\ up
      BY <2>1, ConnStepQuiet, Zenon
    <3>2. PinInv'
      BY <3>1, QuietPins, Zenon
    <3>3. PICK r : Becomes(c, r) /\ Ledger(r)
      BY <3>1, Zenon DEF QuietStep, Quiet
    <3>4. c \in Tasks /\ \A d \in Conns : d \in Tasks
      BY RoutingAssumption, Zenon
    <3> QED
      BY <3>2, <3>3, <3>4, Zenon DEF RoutingInv, Becomes
  <2>2. ASSUME NEW c \in Conns, pin_host_after_tls_rejection(c) \/ pin_returned(c)
        PROVE  /\ conn' \in [Tasks -> Task]
               /\ \A d \in Conns : Ledger(conn'[d])
               /\ PinInv'
    BY <2>2, PinCalled, PinReturned, Zenon
  <2>3. ASSUME NEW t \in Tasks, store_step(t)
        PROVE  /\ conn' \in [Tasks -> Task]
               /\ \A d \in Conns : Ledger(conn'[d])
               /\ PinInv'
    <3>1. conn' = conn
      BY <2>3, Zenon DEF store_step
    <3> QED
      BY <2>3, <3>1, StoreSteps, Zenon DEF RoutingInv
  <2>4. CASE restart
    <3>1. conn' = conn
      BY <2>4, Zenon DEF restart
    <3> QED
      BY <2>4, <3>1, Restarted, Zenon DEF RoutingInv
  <2>5. CASE grace_ends \/ UNCHANGED vars
    <3>1. UNCHANGED <<up, hosts, pc, call, ret, conn, reset>>
      BY <2>5, Zenon DEF grace_ends, GraceEnds, vars, storeVars, callVars
    <3> QED
      BY <3>1, PinInvUnchanged, Zenon DEF RoutingInv
  <2> QED
    BY <2>1, <2>2, <2>3, <2>4, <2>5, ResetRequest, Crashed, Zenon DEF Next
<1> QED
  BY <1>1, <1>2, <1>3, Zenon DEF RoutingInv

(* The invariant holds throughout. *)
LEMMA RoutingInvAlways == Spec => []RoutingInv
BY RoutingInvInit, RoutingInvStep, PTL DEF Spec

(* A client that sent CONNECT gets exactly one status line before any      *)
(* tunnelled or intercepted byte, whichever of the ways through            *)
(* handle_https_connect, run_mitm_intercept and tunnel() it takes.         *)
THEOREM AnsweredOnce == Spec => []OneAnswer
<1>1. RoutingInv => OneAnswer
  BY Zenon DEF RoutingInv, Ledger, Answered, OneAnswer, Attempting, Rejected
<1> QED
  BY <1>1, RoutingInvAlways, PTL

(* The receipt that log_tls_routing_decision wrote says what became of the *)
(* connection.                                                             *)
THEOREM ReceiptsTellTheTruth == Spec => []ReceiptSaysWhatWasDone
<1>1. RoutingInv => ReceiptSaysWhatWasDone
  BY Zenon DEF RoutingInv, Ledger, Decided, ReceiptSaysWhatWasDone, Counted
<1> QED
  BY <1>1, RoutingInvAlways, PTL

(* Every finished attempt to intercept is counted once, and so is every    *)
(* host that run_mitm_intercept pinned until a reset.                      *)
THEOREM MetricsAddUp == Spec => []AttemptsAccounted
<1>1. RoutingInv => AttemptsAccounted
  <2> SUFFICES ASSUME RoutingInv PROVE AttemptsAccounted
    BY Zenon
  <2>1. TypeOK
    BY Zenon DEF RoutingInv, StoreInv, TypeOK
  <2>2. AutoPinCountedOnce
    BY Zenon DEF RoutingInv, PinInv, Claims, AutoPinCountedOnce
  <2>3. \A c \in Conns : Ended(c) =>
          Counted(c, "attempt") = Counted(c, "success") + Counted(c, "failure")
                                    + (IF conn[c].why = "upstream_tls" THEN 1 ELSE 0)
    BY Zenon DEF RoutingInv, Ledger, Balanced, Attempting, Ended, At, Counted
  <2> QED
    BY <2>1, <2>2, <2>3, Zenon DEF AttemptsAccounted
<1> QED
  BY <1>1, RoutingInvAlways, PTL

(* A host whose rejection was handled after the grace period stays pinned  *)
(* in memory until a reset or a restart, also when persisting it failed.   *)
THEOREM RejectionIsRemembered == Spec => []RejectionSticks
<1>1. RoutingInv => RejectionSticks
  BY Zenon DEF RoutingInv, PinInv, PinOf, RejectionSticks, Ended, At, Pinning
<1> QED
  BY <1>1, RoutingInvAlways, PTL
=============================================================================
