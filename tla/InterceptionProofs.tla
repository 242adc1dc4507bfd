------------------------- MODULE InterceptionProofs -------------------------
(* Proofs about interception, for any number of connections, hosts,        *)
(* certificates and CAs: the certificate pins by themselves, what the      *)
(* connections make of them, how the files of the CA, its export and what  *)
(* clients trust stay together, and that the leaf a connection presents is *)
(* of the CA that clients trust and was made for its target.               *)
EXTENDS Interception, TLAPS

-----------------------------------------------------------------------------
(* The pins *)

(* The files the model speaks of are files, and none of those a check      *)
(* writes is cut off.                                                      *)
LEMMA FileForms ==
    /\ NoPins \in Pins
    /\ AbsentPins \in PinFiles /\ AbsentPins.kind # "torn" /\ AbsentPins.pins = NoPins
    /\ TornPins \in PinFiles
    /\ \A p \in Pins : FileOf(p) \in PinFiles /\ FileOf(p).kind # "torn" /\ FileOf(p).pins = p
BY Zenon DEF NoPins, Pins, AbsentPins, TornPins, FileOf, PinFiles

(* The program starts in a state that satisfies the inductive invariant.   *)
LEMMA PinsInvInit == PinsInit => PinsInv
<1> SUFFICES ASSUME PinsInit PROVE PinsInv
  BY Zenon
<1>1. pinFile \in PinFiles /\ pinFile.kind # "torn" /\ pinTmp \in PinFiles /\ pins \in Pins
  BY FileForms, Zenon DEF PinsInit
<1>2. PinsTypeOK
  BY <1>1, Zenon DEF PinsInit, PinsTypeOK, Points, Outcomes
<1>3. \A c \in Checks : stage[c] = "idle"
  BY Zenon DEF PinsInit
<1>4. pinLock \notin Checks
  BY PinsAssumption, Zenon DEF PinsInit
<1> QED
  BY <1>1, <1>2, <1>3, <1>4, Zenon
     DEF PinsInit, PinsInv, PinPersisting, PinsDurable, QuietMeansPinned, At

(* Every step of the pins keeps the inductive invariant.                   *)
LEMMA PinsInvStep == PinsInv /\ [PinsNext]_pinVars => PinsInv'
<1> SUFFICES ASSUME PinsInv, [PinsNext]_pinVars PROVE PinsInv'
  BY Zenon
<1> USE PinsAssumption
<1> USE DEF PinsInv, PinPersisting, PinsDurable, QuietMeansPinned, PinsTypeOK,
            At, HostShown, CertShown, pinDisk, checkVars
<1>1. ASSUME NEW c \in Checks, NEW h \in PinHosts, NEW f \in Prints, check_and_update(c, h, f)
      PROVE PinsInv'
  BY <1>1 DEF check_and_update, Points, Shown
<1>2. ASSUME NEW c \in Checks, ReadPins(c) PROVE PinsInv'
  <2>1. CASE pins[shown[c].host] \notin {None, shown[c].print}
    BY <1>2, <2>1 DEF ReadPins, PinReturn, Points, Outcomes
  <2>2. CASE pins[shown[c].host] \in {None, shown[c].print}
    BY <1>2, <2>2 DEF ReadPins, Points
  <2> QED
    BY <2>1, <2>2, Zenon
<1>3. ASSUME NEW c \in Checks, TouchLocked(c) PROVE PinsInv'
  BY <1>3 DEF TouchLocked, Points, Outcomes
<1>4. ASSUME NEW c \in Checks, InsertLocked(c) PROVE PinsInv'
  <2>1. CASE pins[shown[c].host] # None
    BY <1>4, <2>1 DEF InsertLocked, PinReturn, Points, Outcomes
  <2>2. CASE pins[shown[c].host] = None
    <3>1. shown[c].host \in PinHosts /\ shown[c].print \in Prints
      BY <1>4, Zenon DEF InsertLocked, Shown
    <3>2. pins' = [pins EXCEPT ![shown[c].host] = shown[c].print] /\ pins' \in Pins
      BY <1>4, <2>2, <3>1, Zenon DEF InsertLocked, Pins
    <3>3. \A h \in PinHosts : pins[h] # None => pins'[h] = pins[h]
      BY <2>2, <3>1, <3>2, Zenon DEF Pins
    <3>4. RenameReplaces /\ running => \A p \in kept : pins'[p[1]] = p[2]
      BY <3>3
    <3>5. \A d \in Checks : /\ stage[d] # "idle"
                            /\ pins[shown[d].host] = shown[d].print
                            => pins'[shown[d].host] = shown[d].print
      BY <3>3 DEF Shown
    <3>6. pins'[shown[c].host] = shown[c].print
      BY <3>1, <3>2, Zenon DEF Pins
    <3>7. /\ pinLock' = c /\ pinLock = NoCheck
          /\ stage[c] = "insert" /\ stage' = [stage EXCEPT ![c] = "write"]
          /\ outcome' = [outcome EXCEPT ![c] = "first_seen"]
          /\ UNCHANGED <<running, pinFile, pinTmp, shown, kept>>
      BY <1>4, <2>2, Zenon DEF InsertLocked
    <3> QED
      BY <3>2, <3>4, <3>5, <3>6, <3>7 DEF Points, Outcomes
  <2> QED
    BY <2>1, <2>2, Zenon
<1>5. ASSUME NEW c \in Checks, WritePins(c) PROVE PinsInv'
  BY <1>5, FileForms DEF WritePins, Points
<1>6. ASSUME NEW c \in Checks, WritePinsFails(c) PROVE PinsInv'
  BY <1>6, FileForms DEF WritePinsFails, PinReturn, Points, Outcomes
<1>7. ASSUME NEW c \in Checks, RenamePins(c) PROVE PinsInv'
  <2>1. /\ pinLock = c /\ pinTmp = FileOf(pins) /\ running
        /\ shown[c].host \in PinHosts /\ shown[c].print \in Prints
        /\ pins[shown[c].host] = shown[c].print
    BY <1>7, Zenon DEF RenamePins, Shown
  <2>2. /\ pinFile' \in PinFiles /\ pinFile'.pins = pins /\ pinFile'.kind # "torn"
        /\ pinTmp' \in PinFiles
    BY <1>7, <2>1, FileForms, Zenon DEF RenamePins
  <2>3. /\ pinLock' = NoCheck /\ stage' = [stage EXCEPT ![c] = "done"]
        /\ outcome' = [outcome EXCEPT ![c] = outcome[c]]
        /\ kept' = kept \cup {<<shown[c].host, shown[c].print>>}
        /\ UNCHANGED <<running, pins, shown>>
    BY <1>7, <2>1, Zenon DEF RenamePins, PinReturn
  <2>4. RenameReplaces => \A p \in kept' : pins[p[1]] = p[2]
    BY <2>1, <2>3
  <2>5. \A d \in Checks : stage'[d] \notin PinPersisting
    BY <2>1, <2>3, Zenon
  <2>6. kept' \in SUBSET (PinHosts \X Prints)
    BY <2>1, <2>3
  <2> QED
    BY <2>1, <2>2, <2>3, <2>4, <2>5, <2>6 DEF Points, Outcomes
<1>8. ASSUME NEW c \in Checks, RenamePinsRefused(c) PROVE PinsInv'
  BY <1>8, Zenon DEF RenamePinsRefused, Points
<1>9. ASSUME NEW c \in Checks, RemovePins(c) PROVE PinsInv'
  BY <1>9, FileForms DEF RemovePins, Points
<1>10. ASSUME NEW c \in Checks, RenamePinsFails(c) PROVE PinsInv'
  BY <1>10 DEF RenamePinsFails, PinReturn, Points, Outcomes
<1>11. CASE PinsCrash
  BY <1>11, FileForms, ZenonT(30) DEF PinsCrash, Points, Outcomes
<1>12. CASE PinsLoad
  BY <1>12, Zenon DEF PinsLoad, PinFiles
<1>13. CASE UNCHANGED pinVars
  BY <1>13, Zenon DEF pinVars
<1> QED
  BY <1>1, <1>2, <1>3, <1>4, <1>5, <1>6, <1>7, <1>8, <1>9, <1>10, <1>11, <1>12, <1>13, Zenon
     DEF PinsNext, CheckStep

(* However many connections check certificates at once and whatever fails  *)
(* or crashes: a pin that check_and_update reported as recorded is the one *)
(* a restart loads, from a file that parses, and a check that reports no   *)
(* change saw the pinned certificate, so a pin is never replaced.          *)
THEOREM PinsKept == PinsSpec => [](PinsDurable /\ QuietMeansPinned)
<1>1. PinsInv => PinsDurable /\ QuietMeansPinned
  BY Zenon DEF PinsInv
<1> QED
  BY PinsInvInit, PinsInvStep, <1>1, PTL DEF PinsSpec

-----------------------------------------------------------------------------
(* The connections *)

(* Where a connection is in its check and what it has been alerted of: an  *)
(* alert is a mismatch, and a mismatch is with another certificate that is *)
(* pinned.                                                                 *)
AlertOf(c) ==
    /\ engine.at # "up" => conn[c].st \in {"new", "dead"}
    /\ conn[c].st \in {"probe", "pin", "leaf", "handshake", "relay"} => conn[c].target \in Targets
    /\ conn[c].st \in {"leaf", "handshake", "relay", "closed"} => stage[c] \in {"idle", "done"}
    /\ conn[c].st \in {"new", "probe", "dead"} => stage[c] = "idle"
    /\ conn[c].st \in {"new", "probe", "pin"} => conn[c].alerts = 0
    /\ stage[c] = "done" /\ outcome[c] = "mismatch"
          => pins[HostShown(c)] \notin {None, CertShown(c)}
    /\ stage[c] = "done" /\ conn[c].st # "pin"
          => conn[c].alerts = IF outcome[c] = "mismatch" THEN 1 ELSE 0

AlertInv ==
    /\ conn \in [Conns -> Connections]
    /\ \A c \in Conns : AlertOf(c)

(* The two files of the CA: the key is whole only beside the certificate   *)
(* of its own CA, or alone; and what clients trust is in the files until   *)
(* they are removed.                                                       *)
CaInv ==
    /\ caCert \in CaFile /\ caKey \in CaFile
    /\ engine \in Engines
    /\ installed \in 0..MaxCAs /\ removed \in BOOLEAN /\ lastCA \in 0..MaxCAs
    /\ caKey.kind = "whole" => caKey.ca \in 1..MaxCAs /\ (exists(caCert) => caCert = WholeCa(caKey.ca))
    /\ engine.at # "down" => engine.ca \in 1..MaxCAs /\ engine.export = engine.ca
    /\ engine.at \in {"write_cert", "write_key"} => ~exists(caKey)
    /\ engine.at = "write_cert" => ~exists(caCert)
    /\ engine.at \in {"write_key", "export", "up"} => caCert = WholeCa(engine.ca)
    /\ engine.at \in {"export", "up"} => caKey = WholeCa(engine.ca)
    /\ ~removed => caCert = WholeCa(installed) /\ caKey = WholeCa(installed)
    /\ engine.at = "up" => installed = engine.ca

ChecksInv == PinsInv /\ AlertInv /\ CaInv

-----------------------------------------------------------------------------
(* What one step of a check leaves alone, and what a mismatch means: a pin *)
(* that is there stays, and a mismatch is with one that is.                *)
LEMMA CheckKeeps ==
    ASSUME PinsInv, NEW c \in Checks, CheckStep(c)
    PROVE  /\ shown' = shown
           /\ stage[c] \notin {"idle", "done"} /\ stage'[c] # "idle"
           /\ \A d \in Checks \ {c} : stage'[d] = stage[d] /\ outcome'[d] = outcome[d]
           /\ \A h \in PinHosts : pins[h] # None => pins'[h] = pins[h]
           /\ stage'[c] = "done" /\ outcome'[c] = "mismatch"
                => pins'[HostShown(c)] \notin {None, CertShown(c)}
<1> USE PinsAssumption DEF PinsInv, PinPersisting, PinsTypeOK, At, HostShown, CertShown
<1>1. CASE ReadPins(c)
  BY <1>1, Zenon DEF ReadPins, PinReturn
<1>2. CASE TouchLocked(c)
  BY <1>2, Zenon DEF TouchLocked
<1>3. CASE InsertLocked(c)
  <2>1. CASE pins[shown[c].host] # None
    BY <1>3, <2>1, Zenon DEF InsertLocked, PinReturn
  <2>2. CASE pins[shown[c].host] = None
    BY <1>3, <2>2 DEF InsertLocked, Pins
  <2> QED
    BY <2>1, <2>2, Zenon
<1>4. CASE WritePins(c)
  BY <1>4, Zenon DEF WritePins
<1>5. CASE WritePinsFails(c)
  BY <1>5, Zenon DEF WritePinsFails, PinReturn
<1>6. CASE RenamePins(c)
  BY <1>6, Zenon DEF RenamePins, PinReturn
<1>7. CASE RenamePinsRefused(c)
  BY <1>7, Zenon DEF RenamePinsRefused
<1>8. CASE RemovePins(c)
  BY <1>8, Zenon DEF RemovePins
<1>9. CASE RenamePinsFails(c)
  BY <1>9, Zenon DEF RenamePinsFails, PinReturn
<1> QED
  BY <1>1, <1>2, <1>3, <1>4, <1>5, <1>6, <1>7, <1>8, <1>9, Zenon DEF CheckStep

(* Interception does nothing to the pins but what CertPins describes.      *)
LEMMA StepsOfPins == AlertInv /\ [Next]_vars => [PinsNext]_pinVars
<1> SUFFICES ASSUME AlertInv, [Next]_vars PROVE [PinsNext]_pinVars
  BY Zenon
<1>1. CASE start
  BY <1>1, Zenon DEF start, PinsNext
<1>2. CASE write_ca
  BY <1>2, Zenon DEF write_ca, PinsNext
<1>3. CASE crash
  BY <1>3, Zenon DEF crash, PinsNext
<1>4. ASSUME NEW c \in Conns, probe_upstream(c) PROVE [PinsNext]_pinVars
  <2>1. pin_name[conn[c].target] \in PinHosts
    BY <1>4, InterceptionAssumption, Zenon DEF probe_upstream, AlertInv, AlertOf
  <2> QED
    BY <1>4, <2>1, Zenon DEF probe_upstream, PinsNext, Conns
<1>5. ASSUME NEW c \in Conns, check_step(c) PROVE [PinsNext]_pinVars
  BY <1>5, Zenon DEF check_step, PinsNext, Conns
<1>6. CASE export \/ remove_ca \/ UNCHANGED vars
  BY <1>6, Zenon DEF export, remove_ca, vars
<1>7. ASSUME NEW c \in Conns,
             \/ intercept_tls_tunnel(c) \/ pin_checked(c) \/ server_config_for_host(c)
             \/ leaf_returned(c) \/ accept_client(c) \/ end_relay(c)
      PROVE [PinsNext]_pinVars
  BY <1>7, Zenon DEF intercept_tls_tunnel, pin_checked, server_config_for_host, leaf_returned,
              accept_client, end_relay
<1> QED
  BY <1>1, <1>2, <1>3, <1>4, <1>5, <1>6, <1>7, Zenon DEF Next

(* What an assignment to the state of one connection does. *)
LEMMA Moves ==
    ASSUME conn \in [Conns -> Connections], NEW c \in Conns, NEW s \in Places, Goto(c, s)
    PROVE  /\ conn' \in [Conns -> Connections]
           /\ \A d \in Conns \ {c} : conn'[d] = conn[d]
           /\ conn'[c].st = s /\ conn'[c].target = conn[c].target
           /\ conn'[c].mode = conn[c].mode /\ conn'[c].alerts = conn[c].alerts
BY Zenon DEF Goto, Connections

(* One connection changes and the others do not. *)
LEMMA Becomes ==
    ASSUME conn \in [Conns -> Connections], NEW c \in Conns, NEW r \in Connections,
           conn' = [conn EXCEPT ![c] = r]
    PROVE  /\ conn' \in [Conns -> Connections]
           /\ \A d \in Conns \ {c} : conn'[d] = conn[d]
           /\ conn'[c] = r
BY Zenon

(* A step of another connection leaves a connection with what it knows. *)
LEMMA AlertKept ==
    ASSUME NEW d \in Conns, AlertOf(d), conn'[d] = conn[d],
           stage'[d] = stage[d], outcome'[d] = outcome[d], shown'[d] = shown[d],
           engine'.at = "up" \/ engine'.at = engine.at \/ conn[d].st \in {"new", "dead"},
           stage[d] = "done" /\ pins[HostShown(d)] # None => pins'[HostShown(d)] = pins[HostShown(d)]
    PROVE  AlertOf(d)'
BY Zenon DEF AlertOf, HostShown, CertShown

(* The steps of one connection, each on its own. *)
LEMMA AlertBegin ==
    ASSUME PinsInv, AlertInv, NEW c \in Conns, intercept_tls_tunnel(c)
    PROVE  AlertInv'
<1>t. conn \in [Conns -> Connections] /\ \A d \in Conns : AlertOf(d)
  BY Zenon DEF AlertInv
<1>s. \A d \in Conns : conn[d].st \in {"new", "dead"} => stage[d] = "idle"
  BY <1>t, Zenon DEF AlertOf
<1>1. /\ engine.at = "up" /\ conn[c].st = "new"
      /\ UNCHANGED <<engine, pins, stage, shown, outcome>>
  BY Zenon DEF intercept_tls_tunnel, pinVars, checkVars, leafVars
<1>2. PICK t \in Targets, mode \in Modes : conn' = [conn EXCEPT ![c] = Conn("probe", t, mode, 0)]
  BY Zenon DEF intercept_tls_tunnel
<1>3. Conn("probe", t, mode, 0) \in Connections
  BY Zenon DEF Conn, Connections, Places
<1>4. /\ conn' \in [Conns -> Connections] /\ conn'[c] = Conn("probe", t, mode, 0)
      /\ \A d \in Conns \ {c} : conn'[d] = conn[d]
  BY <1>t, <1>2, <1>3, Becomes, Zenon
<1>5. AlertOf(c)'
  BY <1>1, <1>4, <1>s DEF AlertOf, Conn
<1>6. \A d \in Conns \ {c} : AlertOf(d)'
  BY <1>1, <1>4, <1>t, AlertKept, Zenon
<1> QED
  BY <1>4, <1>5, <1>6, Zenon DEF AlertInv

(* The upstream handshake shows a connection its certificate. *)
LEMMA AlertProbe ==
    ASSUME PinsInv, AlertInv, NEW c \in Conns, probe_upstream(c)
    PROVE  AlertInv'
<1>t. conn \in [Conns -> Connections] /\ \A d \in Conns : AlertOf(d)
  BY Zenon DEF AlertInv
<1>1. engine' = engine /\ pins' = pins /\ conn[c].st = "probe"
  BY Zenon DEF probe_upstream, leafVars, pinVars, check_and_update
<1>2. /\ \E s \in {"closed", "leaf", "pin"} :
            /\ Goto(c, s)
            /\ IF s = "pin" THEN stage' = [stage EXCEPT ![c] = "read"] ELSE UNCHANGED stage
      /\ UNCHANGED outcome
      /\ \A d \in Conns \ {c} : shown'[d] = shown[d]
  BY Zenon DEF probe_upstream, pinVars, checkVars, check_and_update, PinsInv, PinsTypeOK, Conns
<1>3. PICK s \in {"closed", "leaf", "pin"} :
            /\ Goto(c, s)
            /\ IF s = "pin" THEN stage' = [stage EXCEPT ![c] = "read"] ELSE UNCHANGED stage
  BY <1>2, Zenon
<1>4. s \in Places
  BY Zenon DEF Places
<1>5. /\ conn' \in [Conns -> Connections] /\ \A d \in Conns \ {c} : conn'[d] = conn[d]
      /\ conn'[c].st = s /\ conn'[c].target = conn[c].target /\ conn'[c].alerts = conn[c].alerts
  BY <1>t, <1>3, <1>4, Moves, Zenon
<1>6. /\ stage'[c] = IF s = "pin" THEN "read" ELSE stage[c]
      /\ \A d \in Conns \ {c} : stage'[d] = stage[d]
  BY <1>3, Zenon DEF PinsInv, PinsTypeOK, Conns
<1>7. AlertOf(c)'
  BY <1>t, <1>1, <1>5, <1>6, Zenon DEF AlertOf
<1>8. \A d \in Conns \ {c} : AlertOf(d)'
  BY <1>t, <1>1, <1>2, <1>5, <1>6, AlertKept, Zenon
<1> QED
  BY <1>5, <1>7, <1>8, Zenon DEF AlertInv

(* A step of check_and_update on behalf of a connection. *)
LEMMA AlertCheck ==
    ASSUME PinsInv, AlertInv, NEW c \in Conns, check_step(c)
    PROVE  AlertInv'
<1>t. conn \in [Conns -> Connections] /\ \A d \in Conns : AlertOf(d)
  BY Zenon DEF AlertInv
<1>1. CheckStep(c) /\ conn' = conn /\ engine' = engine
  BY Zenon DEF check_step, leafVars
<1>2. /\ shown' = shown
      /\ stage[c] \notin {"idle", "done"} /\ stage'[c] # "idle"
      /\ \A d \in Conns \ {c} : stage'[d] = stage[d] /\ outcome'[d] = outcome[d]
      /\ \A h \in PinHosts : pins[h] # None => pins'[h] = pins[h]
      /\ stage'[c] = "done" /\ outcome'[c] = "mismatch"
           => pins'[HostShown(c)] \notin {None, CertShown(c)}
  BY <1>1, CheckKeeps, Zenon DEF Conns
<1>3. \A d \in Conns : stage[d] = "done" => HostShown(d) \in PinHosts
  BY Zenon DEF PinsInv, HostShown, Shown, Conns
<1>4. \A d \in Conns \ {c} : AlertOf(d)'
  BY <1>t, <1>1, <1>2, <1>3, AlertKept, Zenon
<1>5. conn[c].st = "pin"
  BY <1>t, <1>2 DEF AlertOf, Connections, Places
<1>6. AlertOf(c)'
  BY <1>t, <1>1, <1>2, <1>5, Zenon DEF AlertOf, HostShown, CertShown
<1> QED
  BY <1>t, <1>1, <1>4, <1>6, Zenon DEF AlertInv

(* The check is over, and a mismatch is alerted. *)
LEMMA AlertChecked ==
    ASSUME PinsInv, AlertInv, NEW c \in Conns, pin_checked(c)
    PROVE  AlertInv'
<1>t. conn \in [Conns -> Connections] /\ \A d \in Conns : AlertOf(d)
  BY Zenon DEF AlertInv
<1> DEFINE n == conn[c].alerts + IF outcome[c] = "mismatch" THEN 1 ELSE 0
           r == Conn("leaf", conn[c].target, conn[c].mode, n)
<1>1. /\ conn[c].st = "pin" /\ stage[c] = "done"
      /\ conn' = [conn EXCEPT ![c] = r]
      /\ UNCHANGED <<engine, pins, stage, shown, outcome>>
  BY Zenon DEF pin_checked, pinVars, checkVars, leafVars
<1>2. r \in Connections
  BY <1>t DEF Conn, Connections, Places
<1>3. /\ r.st = "leaf" /\ r.target = conn[c].target
      /\ r.alerts = IF outcome[c] = "mismatch" THEN 1 ELSE 0
  BY <1>t, <1>1 DEF Conn, AlertOf
<1> HIDE DEF r
<1>4. /\ conn' \in [Conns -> Connections] /\ conn'[c] = r
      /\ \A d \in Conns \ {c} : conn'[d] = conn[d]
  BY <1>t, <1>1, <1>2, Becomes, Zenon
<1>5. AlertOf(c)'
  BY <1>t, <1>1, <1>3, <1>4, Zenon DEF AlertOf, HostShown, CertShown
<1>6. \A d \in Conns \ {c} : AlertOf(d)'
  BY <1>1, <1>4, <1>t, AlertKept, Zenon
<1> QED
  BY <1>4, <1>5, <1>6, Zenon DEF AlertInv

(* No step takes a connection past its check without its alert. *)
LEMMA AlertInvStep == ChecksInv /\ [Next]_vars => AlertInv'
<1> SUFFICES ASSUME PinsInv, AlertInv, CaInv, [Next]_vars PROVE AlertInv'
  BY Zenon DEF ChecksInv
<1>t. conn \in [Conns -> Connections] /\ \A c \in Conns : AlertOf(c)
  BY Zenon DEF AlertInv
<1>s. \A c \in Conns : conn[c].st \in {"new", "dead"} => stage[c] = "idle"
  BY <1>t, Zenon DEF AlertOf
<1>q. ASSUME conn' \in [Conns -> Connections], \A d \in Conns : AlertOf(d)' PROVE AlertInv'
  BY <1>q, Zenon DEF AlertInv
<1>1. CASE start
  <2>1. UNCHANGED <<conn, stage, shown, outcome>> /\ \A d \in Conns : conn[d].st \in {"new", "dead"}
    BY <1>1, <1>t, Zenon DEF start, load_or_create_ca, PinsLoad, checkVars, AlertOf
  <2>2. \A d \in Conns : AlertOf(d)'
    BY <2>1, <1>t, <1>s, AlertKept, Zenon
  <2> QED
    BY <2>1, <2>2, <1>t, <1>q, Zenon
<1>2. CASE write_ca
  <2>1. UNCHANGED conn /\ \A d \in Conns : conn[d].st \in {"new", "dead"}
    BY <1>2, <1>t, Zenon DEF write_ca, persist_ca_files, AlertOf
  <2>2. \A d \in Conns : stage'[d] = "idle"
    BY <1>2, <1>s, <2>1, Zenon DEF write_ca, PinsCrash, pinVars, checkVars, Conns
  <2>3. \A d \in Conns : AlertOf(d)'
    BY <2>1, <2>2, <1>t, Zenon DEF AlertOf
  <2> QED
    BY <2>1, <2>3, <1>t, <1>q, Zenon
<1>3. CASE export \/ remove_ca \/ UNCHANGED vars
  <2>1. /\ UNCHANGED <<conn, pins, stage, shown, outcome>>
        /\ engine'.at = "up" \/ engine'.at = engine.at
    BY <1>3, Zenon
       DEF export, export_ca_cert_pem, remove_ca, remove_ca_files, vars, leafVars, pinVars,
                checkVars, CaInv, Engines
  <2>2. \A d \in Conns : AlertOf(d)'
    BY <2>1, <1>t, AlertKept, Zenon
  <2> QED
    BY <2>1, <2>2, <1>t, <1>q, Zenon
<1>5. CASE crash
  <2>1. /\ conn' = [c \in Conns |-> IF conn[c].st = "new" THEN NewConn ELSE DeadConn]
        /\ \A d \in Conns : stage'[d] = "idle"
    BY <1>5, Zenon DEF crash, PinsCrash, Conns
  <2>2. NewConn \in Connections /\ DeadConn \in Connections
    BY Zenon DEF NewConn, DeadConn, Conn, Connections, Places, Modes
  <2>3. conn' \in [Conns -> Connections]
    BY <2>1, <2>2, Zenon
  <2>4. \A d \in Conns : conn'[d].st \in {"new", "dead"} /\ conn'[d].alerts = 0
    BY <2>1, Zenon DEF NewConn, DeadConn, Conn
  <2>5. \A d \in Conns : AlertOf(d)'
    BY <2>1, <2>4, Zenon DEF AlertOf
  <2> QED
    BY <2>3, <2>5, <1>q, Zenon
<1>6. ASSUME NEW c \in Conns, intercept_tls_tunnel(c) PROVE AlertInv'
  BY <1>6, AlertBegin, Zenon
<1>7. ASSUME NEW c \in Conns, probe_upstream(c) PROVE AlertInv'
  BY <1>7, AlertProbe, Zenon
<1>8. ASSUME NEW c \in Conns, check_step(c) PROVE AlertInv'
  BY <1>8, AlertCheck, Zenon
<1>9. ASSUME NEW c \in Conns, pin_checked(c) PROVE AlertInv'
  BY <1>9, AlertChecked, Zenon
<1>10. ASSUME NEW c \in Conns, server_config_for_host(c) PROVE AlertInv'
  <2>1. UNCHANGED <<conn, engine, pins, stage, shown, outcome>>
    BY <1>10, Zenon DEF server_config_for_host, lookup_leaf, generate_leaf, insert_leaf, pinVars, checkVars
  <2>2. \A d \in Conns : AlertOf(d)'
    BY <2>1, <1>t, AlertKept, Zenon
  <2> QED
    BY <2>1, <2>2, <1>t, <1>q, Zenon
<1>11. ASSUME NEW c \in Conns, leaf_returned(c) \/ accept_client(c) \/ end_relay(c)
       PROVE AlertInv'
  <2>1. PICK s \in {"handshake", "relay", "closed"} : Goto(c, s)
    BY <1>11, Zenon DEF leaf_returned, accept_client, end_relay
  <2>2. /\ conn[c].st \in {"leaf", "handshake", "relay"}
        /\ UNCHANGED <<pins, stage, shown, outcome, engine>>
    BY <1>11, Zenon DEF leaf_returned, accept_client, end_relay, pinVars, checkVars, leafVars
  <2>3. s \in Places
    BY Zenon DEF Places
  <2>4. /\ conn' \in [Conns -> Connections] /\ \A d \in Conns \ {c} : conn'[d] = conn[d]
        /\ conn'[c].st = s /\ conn'[c].target = conn[c].target /\ conn'[c].alerts = conn[c].alerts
    BY <1>t, <2>1, <2>3, Moves, Zenon
  <2>5. AlertOf(c)'
    BY <1>t, <2>2, <2>4, Zenon DEF AlertOf, HostShown, CertShown
  <2>6. \A d \in Conns \ {c} : AlertOf(d)'
    BY <1>t, <2>2, <2>4, AlertKept, Zenon
  <2> QED
    BY <2>4, <2>5, <2>6, <1>q, Zenon
<1> QED
  BY <1>1, <1>2, <1>3, <1>5, <1>6, <1>7, <1>8, <1>9, <1>10, <1>11, Zenon DEF Next

(* No start-up, failed write, crash or removal pairs the key of one CA     *)
(* with the certificate of another.                                        *)
LEMMA CaInvStep == CaInv /\ [Next]_vars => CaInv'
<1> SUFFICES ASSUME CaInv, [Next]_vars PROVE CaInv'
  BY Zenon
<1>1. CASE start
  BY <1>1, LeafAssumption
     DEF start, load_or_create_ca, CaInv, CaFile, Engines, exists, WholeCa, caFiles, ghosts
<1>2. CASE write_ca
  <2>1. UNCHANGED <<lastCA, installed, removed>> /\ persist_ca_files
    BY <1>2, Zenon DEF write_ca, persist_ca_files, ghosts
  <2>2. ~exists(caKey) /\ removed
    BY <2>1 DEF persist_ca_files, CaInv, exists, WholeCa
  <2>3. CASE engine' = NoEngine
    <3>1. NoEngine \in Engines /\ NoEngine.at = "down" /\ TornCa \in CaFile
      BY LeafAssumption DEF NoEngine, Engines, TornCa, CaFile
    <3>2. caCert' \in {caCert, TornCa} /\ caKey' \in {caKey, TornCa} /\ caKey'.kind # "whole"
      BY <2>1, <2>2, <2>3 DEF persist_ca_files, NoEngine, CaInv, Engines, TornCa, CaFile, exists
    <3> QED
      BY <2>1, <2>2, <2>3, <3>1, <3>2, Zenon DEF CaInv
  <2>4. CASE engine' # NoEngine
    <3>1. /\ engine.ca \in 1..MaxCAs /\ engine.export = engine.ca
          /\ WholeCa(engine.ca) \in CaFile
      BY <2>1, LeafAssumption DEF persist_ca_files, CaInv, WholeCa, CaFile
    <3>2. /\ engine' \in Engines /\ engine'.ca = engine.ca /\ engine'.export = engine.ca
          /\ \/ /\ engine'.at = "write_key" /\ caCert' = WholeCa(engine.ca) /\ caKey' = caKey
             \/ /\ engine'.at = "export" /\ caCert' = caCert /\ caKey' = WholeCa(engine.ca)
                /\ caCert = WholeCa(engine.ca)
      BY <2>1, <2>4, <3>1, Zenon DEF persist_ca_files, CaInv, Engines
    <3> QED
      BY <2>1, <2>2, <3>1, <3>2 DEF CaInv, WholeCa, exists
  <2> QED
    BY <2>3, <2>4, Zenon
<1>3. CASE export
  <2>1. /\ engine.at = "export" /\ engine' = [engine EXCEPT !.at = "up"]
        /\ installed' = IF removed THEN engine.export ELSE installed
        /\ removed' = FALSE
        /\ UNCHANGED <<caCert, caKey, lastCA>>
    BY <1>3, Zenon DEF export, export_ca_cert_pem, caFiles
  <2>2. engine' \in Engines /\ engine'.at = "up" /\ engine'.ca = engine.ca /\ engine'.export = engine.ca
    BY <2>1, Zenon DEF CaInv, Engines
  <2>3. caCert = WholeCa(engine.ca) /\ caKey = WholeCa(engine.ca) /\ engine.ca \in 1..MaxCAs
    BY <2>1, Zenon DEF CaInv
  <2>4. installed' = engine.ca
    BY <2>1, <2>3, Zenon DEF CaInv, WholeCa
  <2>5. installed' \in 0..MaxCAs
    BY <2>3, <2>4, LeafAssumption
  <2> QED
    BY <2>1, <2>2, <2>3, <2>4, <2>5, Zenon DEF CaInv
<1>4. CASE remove_ca
  BY <1>4, LeafAssumption
     DEF remove_ca, remove_ca_files, AbsentCa, CaInv, CaFile, exists, WholeCa
<1>5. CASE crash
  <2>1. engine' = NoEngine /\ UNCHANGED <<caCert, caKey, lastCA, installed, removed>>
    BY <1>5, Zenon DEF crash, LeafCrash, caFiles, ghosts
  <2>2. NoEngine \in Engines /\ NoEngine.at = "down"
    BY LeafAssumption DEF NoEngine, Engines
  <2> QED
    BY <2>1, <2>2, ZenonT(30) DEF CaInv
<1>6. CASE \/ \E c \in Conns : \/ intercept_tls_tunnel(c) \/ probe_upstream(c) \/ check_step(c)
                             \/ pin_checked(c) \/ server_config_for_host(c)
                             \/ leaf_returned(c) \/ accept_client(c) \/ end_relay(c)
           \/ UNCHANGED vars
  <2>1. UNCHANGED <<caCert, caKey, lastCA, engine, installed, removed>>
    BY <1>6, Zenon DEF intercept_tls_tunnel, probe_upstream, check_step, pin_checked, leaf_returned,
                accept_client, end_relay, leafVars, server_config_for_host, lookup_leaf,
                generate_leaf, insert_leaf, vars, caFiles, ghosts
  <2> QED
    BY <2>1, ZenonT(30) DEF CaInv
<1> QED
  BY <1>1, <1>2, <1>3, <1>4, <1>5, <1>6, Zenon DEF Next

-----------------------------------------------------------------------------
(* An engine that has not started has checked nothing. *)
LEMMA ChecksInvInit == Init => ChecksInv
<1> SUFFICES ASSUME Init PROVE ChecksInv
  BY Zenon
<1>1. PinsInv
  BY PinsInvInit, Zenon DEF Init
<1>2. AlertInv
  <2>1. NewConn \in Connections
    BY Zenon DEF NewConn, Conn, Connections, Places, Modes
  <2>2. \A c \in Conns : AlertOf(c)
    BY Zenon DEF Init, PinsInit, AlertOf, NewConn, Conn, Conns
  <2> QED
    BY <2>1, <2>2, Zenon DEF Init, AlertInv
<1>3. CaInv
  BY LeafAssumption DEF Init, LeafInit, CaInv, CaFile, AbsentCa, exists, Engines, NoEngine
<1> QED
  BY <1>1, <1>2, <1>3, Zenon DEF ChecksInv

(* Every step keeps the pins, the CA files and the alerts. *)
LEMMA ChecksInvStep == ChecksInv /\ [Next]_vars => ChecksInv'
<1>1. ChecksInv /\ [Next]_vars => PinsInv'
  BY StepsOfPins, PinsInvStep, Zenon DEF ChecksInv
<1>2. ChecksInv /\ [Next]_vars => CaInv'
  BY CaInvStep, Zenon DEF ChecksInv
<1> QED
  BY <1>1, <1>2, AlertInvStep, Zenon DEF ChecksInv

(* Of any two checked connections of one process that were shown different *)
(* certificates for one host, one is alerted, and none is that saw the     *)
(* pinned certificate: of two quiet ones both saw the one pin of the host. *)
THEOREM ChangesAreAlerted == Spec => []ChangesAlerted
<1>1. ChecksInv => ChangesAlerted
  <2> SUFFICES ASSUME ChecksInv PROVE ChangesAlerted
    BY Zenon
  <2>1. \A c \in Conns : stage[c] = "done" /\ outcome[c] # "mismatch" => pins[HostShown(c)] = CertShown(c)
    BY Zenon DEF ChecksInv, PinsInv, QuietMeansPinned, At, Conns
  <2>2. \A c \in Conns : stage[c] = "done" /\ conn[c].st \notin {"pin", "dead"}
           => /\ conn[c].alerts = IF outcome[c] = "mismatch" THEN 1 ELSE 0
              /\ outcome[c] = "mismatch" => pins[HostShown(c)] # CertShown(c)
    BY Zenon DEF ChecksInv, AlertInv, AlertOf
  <2> QED
    BY <2>1, <2>2 DEF ChangesAlerted
<1> QED
  BY ChecksInvInit, ChecksInvStep, <1>1, PTL DEF Spec

(* The pins stay durable with connections that probe, alert and crash      *)
(* around the checks, as in CertPins alone.                                *)
THEOREM PinsStayDurable == Spec => []PinsDurable
<1>1. ChecksInv => PinsDurable
  BY Zenon DEF ChecksInv, PinsInv
<1> QED
  BY ChecksInvInit, ChecksInvStep, <1>1, PTL DEF Spec

-----------------------------------------------------------------------------
(* The leaves: all of the running engine's CA, each under its own name and *)
(* mode, and logged or refused by the log.                                 *)
Fits(leaf, n, mode) ==
    /\ leaf \in Leaves
    /\ leaf.ca = engine.ca
    /\ leaf.name = n
    /\ leaf.mode = mode
    /\ leaf \in certLog \cup unlogged

LeafTypes ==
    /\ cert_cache \in [LeafNames \X Modes -> Leaves \cup {NoLeaf}]
    /\ certLog \in SUBSET Leaves
    /\ unlogged \in SUBSET Leaves
    /\ maker \in [Makers -> [at : {"idle", "generate", "insert", "have", "failed"},
                             leaf : Leaves \cup {NoLeaf}]]

CachedFits(n, mode) ==
    cert_cache[<<n, mode>>] # NoLeaf
        => engine.at = "up" /\ Fits(cert_cache[<<n, mode>>], n, mode)

LeafOf(c) ==
    /\ conn[c].st \in {"new", "probe", "pin", "dead"} => maker[c].at = "idle"
    /\ conn[c].st \in {"handshake", "relay"} => maker[c].at = "have"
    /\ maker[c].at \in {"insert", "have"} =>
          engine.at = "up" /\ Fits(maker[c].leaf, leaf_name[conn[c].target], conn[c].mode)

LeafInv ==
    /\ LeafTypes
    /\ \A n \in LeafNames, mode \in Modes : CachedFits(n, mode)
    /\ \A c \in Conns : LeafOf(c)

InterceptionInv == ChecksInv /\ LeafInv

-----------------------------------------------------------------------------
(* What fits goes on to fit while the engine runs: leaves are only logged. *)
LEMMA LeafKept ==
    ASSUME engine' = engine, certLog \subseteq certLog', unlogged \subseteq unlogged',
           NEW d \in Conns, LeafOf(d), conn'[d] = conn[d], maker'[d] = maker[d]
    PROVE  LeafOf(d)'
BY Zenon DEF LeafOf, Fits

(* So does what the cache holds. *)
LEMMA CacheKept ==
    ASSUME engine' = engine, certLog \subseteq certLog', unlogged \subseteq unlogged',
           NEW n, NEW mode, CachedFits(n, mode),
           cert_cache'[<<n, mode>>] = cert_cache[<<n, mode>>]
    PROVE  CachedFits(n, mode)'
BY Zenon DEF CachedFits, Fits

(* A step of one connection that leaves the leaves alone. *)
LEMMA LeafFrame ==
    ASSUME LeafInv, UNCHANGED <<engine, cert_cache, certLog, unlogged, maker>>,
           NEW c \in Conns, \A d \in Conns \ {c} : conn'[d] = conn[d], LeafOf(c)'
    PROVE  LeafInv'
<1>1. LeafTypes'
  BY Zenon DEF LeafInv, LeafTypes
<1>2. \A d \in Conns \ {c} : LeafOf(d)'
  BY LeafKept, Zenon DEF LeafInv
<1>3. \A n \in LeafNames, mode \in Modes : CachedFits(n, mode)'
  BY CacheKept, Zenon DEF LeafInv
<1> QED
  BY <1>1, <1>2, <1>3, Zenon DEF LeafInv

(* A leaf that a connection gets, and may put into the cache. *)
Fitting(leaf, n, mode, log) ==
    /\ engine.at = "up" /\ leaf \in Leaves /\ leaf.ca = engine.ca
    /\ leaf.name = n /\ leaf.mode = mode /\ leaf \in log

(* One connection gets a leaf that fits it. *)
LEMMA LeafGiven ==
    ASSUME LeafInv, NEW c \in Conns, conn' = conn, conn[c].st = "leaf",
           NEW n \in LeafNames, NEW mode \in Modes,
           n = leaf_name[conn[c].target], mode = conn[c].mode,
           engine' = engine, certLog \subseteq certLog', unlogged \subseteq unlogged', LeafTypes',
           \A d \in Conns \ {c} : maker'[d] = maker[d],
           maker'[c].at # "idle",
           maker'[c].at \in {"insert", "have"} => Fitting(maker'[c].leaf, n, mode, certLog' \cup unlogged'),
           \/ cert_cache' = cert_cache
           \/ /\ cert_cache' = [cert_cache EXCEPT ![<<n, mode>>] = maker'[c].leaf]
              /\ Fitting(maker'[c].leaf, n, mode, certLog' \cup unlogged')
    PROVE  LeafInv'
<1>1. \A d \in Conns \ {c} : LeafOf(d)'
  BY LeafKept, Zenon DEF LeafInv
<1>2. LeafOf(c)'
  BY Zenon DEF LeafOf, Fits, Fitting
<1>3. ASSUME NEW m \in LeafNames, NEW md \in Modes PROVE CachedFits(m, md)'
  <2>1. CASE cert_cache'[<<m, md>>] = cert_cache[<<m, md>>]
    BY <1>3, <2>1, CacheKept, Zenon DEF LeafInv
  <2>2. CASE cert_cache'[<<m, md>>] # cert_cache[<<m, md>>]
    <3>1. /\ cert_cache' = [cert_cache EXCEPT ![<<n, mode>>] = maker'[c].leaf]
          /\ Fitting(maker'[c].leaf, n, mode, certLog' \cup unlogged')
      BY <2>2, Zenon
    <3>2. m = n /\ md = mode
      BY <1>3, <2>2, <3>1, Zenon DEF LeafInv, LeafTypes
    <3>3. cert_cache'[<<m, md>>] = maker'[c].leaf
      BY <3>1, <3>2, Zenon DEF LeafInv, LeafTypes
    <3> QED
      BY <3>1, <3>2, <3>3, Zenon DEF CachedFits, Fits, Fitting
  <2> QED
    BY <2>1, <2>2, Zenon
<1> QED
  BY <1>1, <1>2, <1>3, Zenon DEF LeafInv

(* server_config_for_host, from the cache or with a new leaf. *)
LEMMA LeafConfig ==
    ASSUME AlertInv, CaInv, LeafInv, NEW c \in Conns, server_config_for_host(c)
    PROVE  LeafInv'
<1>t. /\ conn \in [Conns -> Connections] /\ \A d \in Conns : AlertOf(d) /\ LeafOf(d)
      /\ \A m \in LeafNames, md \in Modes : CachedFits(m, md)
      /\ LeafTypes /\ Conns = Makers
  BY InterceptionAssumption, Zenon DEF AlertInv, LeafInv, Conns
<1> DEFINE n == leaf_name[conn[c].target]
           mode == conn[c].mode
<1>1. /\ conn[c].st = "leaf" /\ conn' = conn
      /\ lookup_leaf(c, n, mode) \/ generate_leaf(c, n, mode) \/ insert_leaf(c, n, mode)
  BY Zenon DEF server_config_for_host
<1>2. n \in LeafNames /\ mode \in Modes
  BY <1>1, <1>t, InterceptionAssumption, Zenon DEF AlertOf, Connections
<1>4. CASE lookup_leaf(c, n, mode)
  <2>1. /\ engine.at = "up" /\ UNCHANGED <<engine, cert_cache, certLog, unlogged>>
        /\ maker' = [maker EXCEPT ![c] =
              [at |-> IF cert_cache[<<n, mode>>] # NoLeaf THEN "have" ELSE "generate",
               leaf |-> cert_cache[<<n, mode>>]]]
    BY <1>4, Zenon DEF lookup_leaf, CacheKey
  <2>2. cert_cache[<<n, mode>>] \in Leaves \cup {NoLeaf}
    BY <1>t, <1>2, Zenon DEF LeafTypes
  <2>3. /\ LeafTypes' /\ maker'[c].at \in {"have", "generate"}
        /\ maker'[c].leaf = cert_cache[<<n, mode>>]
        /\ maker'[c].at = "have" => cert_cache[<<n, mode>>] # NoLeaf
        /\ \A d \in Conns \ {c} : maker'[d] = maker[d]
    BY <1>t, <2>1, <2>2, Zenon DEF LeafTypes
  <2>4. cert_cache[<<n, mode>>] # NoLeaf => Fits(cert_cache[<<n, mode>>], n, mode)
    BY <1>t, <1>2, Zenon DEF CachedFits
  <2>5. maker'[c].at = "have" => Fitting(maker'[c].leaf, n, mode, certLog' \cup unlogged')
    BY <1>1, <2>1, <2>3, <2>4, Zenon DEF Fits, Fitting
  <2> QED
    BY <1>t, <1>1, <1>2, <2>1, <2>3, <2>5, LeafGiven, Zenon
<1>5. CASE generate_leaf(c, n, mode)
  <2> DEFINE leaf == [name |-> n, mode |-> mode, ca |-> engine.ca, by |-> c]
  <2>1. /\ engine.at = "up" /\ UNCHANGED <<engine, cert_cache>>
        /\ certLog' \in {certLog, certLog \cup {leaf}} /\ unlogged' \in {unlogged, unlogged \cup {leaf}}
        /\ \/ maker' = [maker EXCEPT ![c].at = "failed"]
           \/ /\ maker' = [maker EXCEPT ![c] = [at |-> "insert", leaf |-> leaf]]
              /\ leaf \in certLog' \cup unlogged'
    BY <1>5, Zenon DEF generate_leaf
  <2>2. /\ leaf \in Leaves /\ leaf.ca = engine.ca /\ leaf.name = n /\ leaf.mode = mode
    BY <1>t, <1>2, <2>1, Zenon DEF Leaves, CaInv
  <2> HIDE DEF leaf
  <2>3. /\ LeafTypes' /\ maker'[c].at \in {"insert", "failed"}
        /\ maker'[c].at = "insert" => maker'[c].leaf = leaf /\ leaf \in certLog' \cup unlogged'
        /\ \A d \in Conns \ {c} : maker'[d] = maker[d]
    BY <1>t, <2>1, <2>2 DEF LeafTypes
  <2>4. maker'[c].at = "insert" => Fitting(maker'[c].leaf, n, mode, certLog' \cup unlogged')
    BY <1>1, <2>1, <2>2, <2>3, Zenon DEF Fits, Fitting
  <2> QED
    BY <1>t, <1>1, <1>2, <2>1, <2>3, <2>4, LeafGiven, Zenon
<1>6. CASE insert_leaf(c, n, mode)
  <2>1. /\ maker[c].at = "insert" /\ UNCHANGED <<engine, certLog, unlogged>>
        /\ cert_cache' = [cert_cache EXCEPT ![<<n, mode>>] = maker[c].leaf]
        /\ maker' = [maker EXCEPT ![c].at = "have"]
    BY <1>6, Zenon DEF insert_leaf, CacheKey
  <2>2. maker[c].leaf \in Leaves /\ engine.at = "up" /\ Fits(maker[c].leaf, n, mode)
    BY <1>t, <2>1, Zenon DEF LeafOf, Fits
  <2>3. /\ LeafTypes' /\ maker'[c].at = "have" /\ maker'[c].leaf = maker[c].leaf
        /\ \A d \in Conns \ {c} : maker'[d] = maker[d]
    BY <1>t, <2>1, <2>2, Zenon DEF LeafTypes
  <2>4. Fitting(maker'[c].leaf, n, mode, certLog' \cup unlogged')
    BY <1>1, <2>1, <2>2, <2>3, Zenon DEF Fits, Fitting
  <2> QED
    BY <1>t, <1>1, <1>2, <2>1, <2>3, <2>4, LeafGiven, Zenon
<1> QED
  BY <1>1, <1>4, <1>5, <1>6, Zenon

(* A leaf in the cache or with a connection keeps fitting while the engine *)
(* runs: leaves are only logged, and entries only replaced by their like.  *)
LEMMA LeafInvStep == InterceptionInv /\ [Next]_vars => LeafInv'
<1> SUFFICES ASSUME AlertInv, CaInv, LeafInv, [Next]_vars PROVE LeafInv'
  BY Zenon DEF InterceptionInv, ChecksInv
<1>t. /\ conn \in [Conns -> Connections] /\ \A c \in Conns : AlertOf(c) /\ LeafOf(c)
      /\ \A n \in LeafNames, mode \in Modes : CachedFits(n, mode)
      /\ LeafTypes /\ Conns = Makers
  BY InterceptionAssumption, Zenon DEF AlertInv, LeafInv, Conns
<1>q. ASSUME LeafTypes', \A c \in Conns : LeafOf(c)',
             \A n \in LeafNames, mode \in Modes : CachedFits(n, mode)'
      PROVE  LeafInv'
  BY <1>q, Zenon DEF LeafInv
<1>1. CASE start \/ write_ca \/ export \/ remove_ca
  <2>1. UNCHANGED <<cert_cache, certLog, unlogged, maker, conn>> /\ engine.at # "up"
    BY <1>1, Zenon DEF start, write_ca, export, remove_ca, load_or_create_ca, persist_ca_files,
                export_ca_cert_pem, remove_ca_files, leafState
  <2>2. \A c \in Conns : maker[c].at = "idle" /\ conn[c].st \in {"new", "dead"}
    BY <1>t, <2>1, Zenon DEF AlertOf, LeafOf
  <2>3. LeafTypes'
    BY <1>t, <2>1, Zenon DEF LeafTypes
  <2>4. \A c \in Conns : LeafOf(c)'
    BY <2>1, <2>2, Zenon DEF LeafOf
  <2>5. \A n \in LeafNames, mode \in Modes : CachedFits(n, mode)'
    BY <1>t, <2>1, Zenon DEF CachedFits
  <2> QED
    BY <2>3, <2>4, <2>5, <1>q, Zenon
<1>2. CASE crash
  <2>1. /\ cert_cache' = [k \in LeafNames \X Modes |-> NoLeaf]
        /\ maker' = [c \in Makers |-> IdleMaker]
        /\ UNCHANGED <<certLog, unlogged>>
        /\ conn' = [c \in Conns |-> IF conn[c].st = "new" THEN NewConn ELSE DeadConn]
    BY <1>2, Zenon DEF crash, LeafCrash
  <2>2. LeafTypes'
    BY <1>t, <2>1, Zenon DEF LeafTypes, IdleMaker
  <2>3. \A c \in Conns : LeafOf(c)'
    BY <1>t, <2>1, Zenon DEF LeafOf, IdleMaker, NewConn, DeadConn, Conn
  <2>4. \A n \in LeafNames, mode \in Modes : CachedFits(n, mode)'
    BY <2>1, Zenon DEF CachedFits
  <2> QED
    BY <2>2, <2>3, <2>4, <1>q, Zenon
<1>4. ASSUME NEW c \in Conns, intercept_tls_tunnel(c) PROVE LeafInv'
  <2>1. conn[c].st = "new" /\ UNCHANGED <<engine, cert_cache, certLog, unlogged, maker>>
    BY <1>4, Zenon DEF intercept_tls_tunnel, leafVars
  <2>2. PICK t \in Targets, mode \in Modes : conn' = [conn EXCEPT ![c] = Conn("probe", t, mode, 0)]
    BY <1>4, Zenon DEF intercept_tls_tunnel
  <2>3. conn'[c].st = "probe" /\ \A d \in Conns \ {c} : conn'[d] = conn[d]
    BY <1>t, <2>2, Zenon DEF Conn
  <2>4. LeafOf(c)'
    BY <1>t, <2>1, <2>3, Zenon DEF LeafOf
  <2> QED
    BY <2>1, <2>3, <2>4, LeafFrame, Zenon
<1>5. ASSUME NEW c \in Conns, probe_upstream(c) PROVE LeafInv'
  <2>1. PICK s \in {"closed", "leaf", "pin"} : Goto(c, s)
    BY <1>5, Zenon DEF probe_upstream
  <2>2. conn[c].st = "probe" /\ UNCHANGED <<engine, cert_cache, certLog, unlogged, maker>>
    BY <1>5, Zenon DEF probe_upstream, leafVars
  <2>3. s \in Places
    BY Zenon DEF Places
  <2>4. conn'[c].st = s /\ \A d \in Conns \ {c} : conn'[d] = conn[d]
    BY <1>t, <2>1, <2>3, Moves, Zenon
  <2>5. LeafOf(c)'
    BY <1>t, <2>2, <2>4, Zenon DEF LeafOf
  <2> QED
    BY <2>2, <2>4, <2>5, LeafFrame, Zenon
<1>6. ASSUME NEW c \in Conns, check_step(c) PROVE LeafInv'
  <2>1. UNCHANGED <<engine, cert_cache, certLog, unlogged, maker, conn>>
    BY <1>6, Zenon DEF check_step, leafVars
  <2>2. LeafOf(c)'
    BY <1>t, <2>1, LeafKept, Zenon
  <2> QED
    BY <2>1, <2>2, LeafFrame, Zenon
<1>7. ASSUME NEW c \in Conns, pin_checked(c) PROVE LeafInv'
  <2>1. conn[c].st = "pin" /\ UNCHANGED <<engine, cert_cache, certLog, unlogged, maker>>
    BY <1>7, Zenon DEF pin_checked, leafVars
  <2>2. conn'[c].st = "leaf" /\ \A d \in Conns \ {c} : conn'[d] = conn[d]
    BY <1>7, <1>t, Zenon DEF pin_checked, Conn
  <2>3. LeafOf(c)'
    BY <1>t, <2>1, <2>2, Zenon DEF LeafOf
  <2> QED
    BY <2>1, <2>2, <2>3, LeafFrame, Zenon
<1>8. ASSUME NEW c \in Conns, server_config_for_host(c) PROVE LeafInv'
  BY <1>8, LeafConfig, Zenon
<1>9. ASSUME NEW c \in Conns, leaf_returned(c) \/ accept_client(c) \/ end_relay(c)
      PROVE LeafInv'
  <2>1. PICK s \in {"handshake", "relay", "closed"} :
           Goto(c, s) /\ (s # "closed" => maker[c].at = "have")
    BY <1>9, <1>t, Zenon DEF leaf_returned, accept_client, end_relay, LeafOf
  <2>2. UNCHANGED <<engine, cert_cache, certLog, unlogged, maker>>
    BY <1>9, Zenon DEF leaf_returned, accept_client, end_relay, leafVars
  <2>3. s \in Places
    BY Zenon DEF Places
  <2>4. /\ conn'[c].st = s /\ conn'[c].target = conn[c].target /\ conn'[c].mode = conn[c].mode
        /\ \A d \in Conns \ {c} : conn'[d] = conn[d]
    BY <1>t, <2>1, <2>3, Moves, Zenon
  <2>5. LeafOf(c)'
    BY <1>t, <2>1, <2>2, <2>4, Zenon DEF LeafOf, Fits
  <2> QED
    BY <2>2, <2>4, <2>5, LeafFrame, Zenon
<1>10. CASE UNCHANGED vars
  <2>1. UNCHANGED <<engine, cert_cache, certLog, unlogged, maker, conn>>
    BY <1>10, Zenon DEF vars, leafVars
  <2>2. LeafTypes'
    BY <1>t, <2>1, Zenon DEF LeafTypes
  <2> QED
    BY <2>1, <2>2, <1>t, LeafKept, CacheKept, <1>q, Zenon
<1> QED
  BY <1>1, <1>2, <1>4, <1>5, <1>6, <1>7, <1>8, <1>9, <1>10, Zenon DEF Next

-----------------------------------------------------------------------------
(* An engine that has not started has made no leaf. *)
LEMMA InterceptionInvInit == Init => InterceptionInv
<1> SUFFICES ASSUME Init PROVE InterceptionInv
  BY Zenon
<1>1. LeafTypes
  BY Zenon DEF Init, LeafInit, LeafTypes, IdleMaker
<1>2. \A c \in Conns : LeafOf(c)
  BY InterceptionAssumption, Zenon DEF Init, LeafInit, LeafOf, IdleMaker, NewConn, Conn, Conns
<1>3. \A n \in LeafNames, mode \in Modes : CachedFits(n, mode)
  BY Zenon DEF Init, LeafInit, CachedFits
<1> QED
  BY <1>1, <1>2, <1>3, ChecksInvInit, Zenon DEF InterceptionInv, LeafInv

(* Every step keeps the checks and the leaves. *)
LEMMA InterceptionInvStep == InterceptionInv /\ [Next]_vars => InterceptionInv'
BY ChecksInvStep, LeafInvStep, Zenon DEF InterceptionInv

(* A client that trusts the exported CA certificate can verify every leaf  *)
(* it is presented, for any number of restarts, crashes and failed writes  *)
(* of the CA files.                                                        *)
THEOREM LeavesVerify == Spec => []LeafTrusted
<1>1. InterceptionInv => LeafTrusted
  BY Zenon DEF InterceptionInv, ChecksInv, LeafInv, LeafOf, CaInv, Fits, LeafTrusted, Presented
<1> QED
  BY InterceptionInvInit, InterceptionInvStep, <1>1, PTL DEF Spec

(* server_config_for_host hands every connection a leaf made for its       *)
(* target and protocol, from the cache or new, and logged unless the line  *)
(* was refused.                                                            *)
THEOREM LeavesFit == Spec => []LeafFits
<1>1. InterceptionInv => LeafFits
  <2> SUFFICES ASSUME InterceptionInv PROVE LeafFits
    BY Zenon
  <2>1. PinsTypeOK
    BY Zenon DEF InterceptionInv, ChecksInv, PinsInv
  <2>2. LeafTypeOK /\ installed \in 0..MaxCAs /\ removed \in BOOLEAN
    BY Zenon DEF InterceptionInv, ChecksInv, CaInv, LeafInv, LeafTypes, LeafTypeOK
  <2>3. TypeOK
    BY <2>1, <2>2, Zenon DEF InterceptionInv, ChecksInv, AlertInv, TypeOK
  <2> QED
    BY <2>3, Zenon DEF InterceptionInv, ChecksInv, LeafInv, LeafOf, Fits, LeafFits, Presented
<1> QED
  BY InterceptionInvInit, InterceptionInvStep, <1>1, PTL DEF Spec
=============================================================================
