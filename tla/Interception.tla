---------------------------- MODULE Interception ----------------------------
(***************************************************************************)
(* intercept_tls_tunnel of src/mitm.rs over the certificate pins and the   *)
(* leaf certificates, from the start-up of the program on: a connection    *)
(* probes its upstream, checks the certificate it shows against the pins,  *)
(* gets a leaf for its target, and takes the client's handshake with it.   *)
(* Connections run at the same time; the process crashes, is restarted,    *)
(* and its operator removes CA files in between.                           *)
(***************************************************************************)
EXTENDS CertPins, LeafCerts

CONSTANTS
    Targets,    \* target hosts as connections spell them
    pin_name,   \* [Targets -> PinHosts]: normalize_host of cert_pin.rs
    leaf_name   \* [Targets -> LeafNames]: trimmed and in lower case

ASSUME InterceptionAssumption ==
    /\ Checks = Makers
    /\ pin_name \in [Targets -> PinHosts]
    /\ leaf_name \in [Targets -> LeafNames]

VARIABLES
    conn,       \* each call of intercept_tls_tunnel
    installed,  \* ghost: the CA whose exported certificate clients trust
    removed     \* ghost: CA files were removed since it was exported

ghosts == <<installed, removed>>
vars == <<pinVars, leafVars, conn, ghosts>>

Conns == Checks

Places == {"new", "probe", "pin", "leaf", "handshake", "relay", "closed", "dead"}

Connections == [st : Places, target : Targets \cup {None}, mode : Modes, alerts : Nat]

Conn(st, t, mode, alerts) == [st |-> st, target |-> t, mode |-> mode, alerts |-> alerts]

NewConn == Conn("new", None, "h1", 0)

DeadConn == Conn("dead", None, "h1", 0)

TypeOK ==
    /\ PinsTypeOK
    /\ LeafTypeOK
    /\ conn \in [Conns -> Connections]
    /\ installed \in 0..MaxCAs
    /\ removed \in BOOLEAN

Init ==
    /\ PinsInit
    /\ LeafInit
    /\ conn = [c \in Conns |-> NewConn]
    /\ installed = 0
    /\ removed = TRUE

-----------------------------------------------------------------------------
(* main(): the pins are loaded, then the CA; an error ends the program. *)
start ==
    /\ PinsLoad
    /\ load_or_create_ca
    /\ UNCHANGED <<conn, ghosts>>

write_ca ==
    /\ persist_ca_files
    /\ IF engine'.at = "down" THEN PinsCrash ELSE UNCHANGED pinVars
    /\ UNCHANGED <<conn, ghosts>>

(* Clients install the exported certificate once, and again only after the *)
(* operator has removed the CA.                                            *)
export ==
    /\ export_ca_cert_pem
    /\ installed' = IF removed THEN engine.export ELSE installed
    /\ removed' = FALSE
    /\ UNCHANGED <<pinVars, conn>>

remove_ca ==
    /\ remove_ca_files
    /\ removed' = TRUE
    /\ UNCHANGED <<pinVars, conn, installed>>

crash ==
    /\ PinsCrash
    /\ LeafCrash
    /\ conn' = [c \in Conns |-> IF conn[c].st = "new" THEN NewConn ELSE DeadConn]
    /\ UNCHANGED ghosts

Goto(c, s) == conn' = [conn EXCEPT ![c].st = s]

(* The plans decide whether the connection is held to HTTP/1.1. *)
intercept_tls_tunnel(c) ==
    /\ engine.at = "up"
    /\ conn[c].st = "new"
    /\ \E t \in Targets, mode \in Modes :
          conn' = [conn EXCEPT ![c] = Conn("probe", t, mode, 0)]
    /\ UNCHANGED <<pinVars, leafVars, ghosts>>

(* Connect and handshake with the upstream: an error, no certificate to    *)
(* check (or no pin database), or a certificate that is checked.           *)
probe_upstream(c) ==
    /\ conn[c].st = "probe"
    /\ \/ Goto(c, "closed") /\ UNCHANGED pinVars
       \/ Goto(c, "leaf") /\ UNCHANGED pinVars
       \/ \E f \in Prints : check_and_update(c, pin_name[conn[c].target], f) /\ Goto(c, "pin")
    /\ UNCHANGED <<leafVars, ghosts>>

check_step(c) == CheckStep(c) /\ UNCHANGED <<leafVars, conn, ghosts>>

(* A mismatch is counted and goes into the receipts; an error is logged.   *)
(* In every case the connection goes on.                                   *)
pin_checked(c) ==
    /\ conn[c].st = "pin"
    /\ stage[c] = "done"
    /\ conn' = [conn EXCEPT ![c] =
                   Conn("leaf", @.target, @.mode,
                        @.alerts + IF outcome[c] = "mismatch" THEN 1 ELSE 0)]
    /\ UNCHANGED <<pinVars, leafVars, ghosts>>

server_config_for_host(c) ==
    LET n == leaf_name[conn[c].target] IN
    /\ conn[c].st = "leaf"
    /\ \/ lookup_leaf(c, n, conn[c].mode)
       \/ generate_leaf(c, n, conn[c].mode)
       \/ insert_leaf(c, n, conn[c].mode)
    /\ UNCHANGED <<pinVars, conn, ghosts>>

leaf_returned(c) ==
    /\ conn[c].st = "leaf"
    /\ \/ maker[c].at = "have" /\ Goto(c, "handshake")
       \/ maker[c].at = "failed" /\ Goto(c, "closed")
    /\ UNCHANGED <<pinVars, leafVars, ghosts>>

(* The client takes the leaf or not; the relay ends. *)
accept_client(c) ==
    /\ conn[c].st = "handshake"
    /\ Goto(c, "relay") \/ Goto(c, "closed")
    /\ UNCHANGED <<pinVars, leafVars, ghosts>>

end_relay(c) ==
    /\ conn[c].st = "relay"
    /\ Goto(c, "closed")
    /\ UNCHANGED <<pinVars, leafVars, ghosts>>

Next ==
    \/ start
    \/ write_ca
    \/ export
    \/ remove_ca
    \/ crash
    \/ \E c \in Conns :
          \/ intercept_tls_tunnel(c)
          \/ probe_upstream(c)
          \/ check_step(c)
          \/ pin_checked(c)
          \/ server_config_for_host(c)
          \/ leaf_returned(c)
          \/ accept_client(c)
          \/ end_relay(c)

Spec == Init /\ [][Next]_vars

-----------------------------------------------------------------------------
(* Properties *)

(* Of two connections of one process whose upstreams showed different      *)
(* certificates for one host, at least one is alerted (README: "alerts on  *)
(* changes"), however their checks interleave and whatever of them fails;  *)
(* a connection that saw the pinned certificate never is.                  *)
ChangesAlerted ==
    LET Checked == {c \in Conns : stage[c] = "done" /\ conn[c].st \notin {"pin", "dead"}} IN
    /\ \A c, d \in Checked :
          HostShown(c) = HostShown(d) /\ CertShown(c) # CertShown(d)
              => conn[c].alerts + conn[d].alerts >= 1
    /\ \A c \in Checked : pins[HostShown(c)] = CertShown(c) => conn[c].alerts = 0

Presented == {c \in Conns : conn[c].st \in {"handshake", "relay"}}

(* A client that installed the exported CA certificate can verify every    *)
(* leaf it is shown, after every restart, until the operator removes the   *)
(* CA: no crash or failed write while the CA files are written leads to a  *)
(* CA whose key is not that of the certificate clients were given.         *)
LeafTrusted == \A c \in Presented : maker[c].leaf.ca = installed

(* The leaf a connection presents names its target and offers the protocol *)
(* its plan asked for, whichever connection generated it, and is in the    *)
(* log of every leaf certificate generated unless the line was refused.    *)
LeafFits ==
    /\ TypeOK
    /\ \A c \in Presented :
          LET leaf == maker[c].leaf IN
          /\ leaf.name = leaf_name[conn[c].target]
          /\ leaf.mode = conn[c].mode
          /\ leaf \in certLog \cup unlogged
=============================================================================
