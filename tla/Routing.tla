------------------------------- MODULE Routing -------------------------------
(***************************************************************************)
(* One task per accepted connection (src/main.rs): the first bytes decide  *)
(* between a CONNECT proxy request, a TLS ClientHello with a server name   *)
(* and a plain HTTP proxy request; a TLS connection is intercepted or      *)
(* tunnelled depending on the pinned-host store; and a host that refuses   *)
(* interception is pinned, unless the start-up grace period still runs.    *)
(* Dashboard requests that reset the pinned hosts run beside them.         *)
(***************************************************************************)
EXTENDS HostStore, Sequences

CONSTANTS
    Conns,        \* connection tasks; the other tasks are dashboard resets
    MitmEnabled   \* main() built a MitmEngine

ASSUME RoutingAssumption ==
    /\ Conns \subseteq Tasks
    /\ MitmEnabled \in BOOLEAN

VARIABLES
    conn,    \* the state of each task
    reset    \* ghost: the pinned hosts were reset since the last start

vars == <<storeVars, conn, reset>>

Resets == Tasks \ Conns

(* The counters of src/metrics.rs that a connection task touches. *)
Kinds == {"connection", "passthrough", "attempt", "success", "failure",
          "client_tls_reject", "auto_pinned"}

States == {"new", "peek", "head", "route", "establish", "probe", "handshake", "relay",
           "upstream_rejected", "client_rejected", "pin_upstream", "pin_client",
           "fallback", "tunnel", "connect_tunnel", "http", "copy",
           "reset", "closed", "dead"}

Flows == {"none", "connect", "transparent", "http"}

Actions == {"none", "mitm", "passthrough"}

Statuses == Seq({"200", "400", "403", "500", "502"})

Reasons == {"none", "ok", "upstream_tls", "client_tls", "other"}

Counts == [Kinds -> Nat]

Task == [
    st     : States,
    flow   : Flows,
    name   : Names \cup {NoHost},
    early  : BOOLEAN,   \* tunnel bytes came with the CONNECT head
    action : Actions,   \* the decision in the receipts
    said   : Statuses,  \* statuses the proxy wrote itself
    why    : Reasons,   \* result of the MITM
    late   : BOOLEAN,   \* rejected after the grace period
    count  : Counts ]   \* added to the metrics

NewTask == [st |-> "new", flow |-> "none", name |-> NoHost, early |-> FALSE,
            action |-> "none", said |-> <<>>, why |-> "none", late |-> FALSE,
            count |-> [k \in Kinds |-> 0]]

TypeOK ==
    /\ StoreTypeOK
    /\ conn \in [Tasks -> Task]
    /\ reset \in BOOLEAN

Init ==
    /\ StoreInit
    /\ conn = [t \in Tasks |-> NewTask]
    /\ reset = FALSE

-----------------------------------------------------------------------------
(* Metrics::inc_*: one atomic add for each kind in K. *)
Inc(counts, K) == [k \in Kinds |-> IF k \in K THEN counts[k] + 1 ELSE counts[k]]

At(t, s) == conn[t].st = s

(* Task t goes to state s, adding K to the metrics; nothing else changes. *)
Goto(t, s, K) ==
    conn' = [conn EXCEPT ![t].st = s, ![t].count = Inc(@, K)]

Say(t, s, K, code) ==
    conn' = [conn EXCEPT ![t].st = s, ![t].count = Inc(@, K), ![t].said = Append(@, code)]

(* The accept loop counts the connection and spawns its task. *)
accept(c) ==
    /\ up
    /\ At(c, "new")
    /\ Goto(c, "peek", {"connection"})
    /\ UNCHANGED <<storeVars, reset>>

(* handle_connection: classify by the peeked bytes. A closed socket or     *)
(* unclassified traffic ends the task without an answer.                   *)
handle_connection(c) ==
    /\ At(c, "peek")
    /\ \/ Goto(c, "closed", {})
       \/ conn' = [conn EXCEPT ![c].st = "head", ![c].flow = "connect"]
       \/ \E n \in Names :
             conn' = [conn EXCEPT ![c].st = "route", ![c].flow = "transparent", ![c].name = n]
       \/ conn' = [conn EXCEPT ![c].st = "http", ![c].flow = "http"]
    /\ UNCHANGED <<storeVars, reset>>

(* read_until_headers_complete and parse_connect_target: end of stream,    *)
(* oversized or malformed heads are errors that end the task unanswered.   *)
read_connect_head(c) ==
    /\ At(c, "head")
    /\ \/ Goto(c, "closed", {})
       \/ \E n \in Names, e \in BOOLEAN :
             conn' = [conn EXCEPT ![c].st = "route", ![c].name = n, ![c].early = e]
    /\ UNCHANGED <<storeVars, reset>>

decide_tls_routing(host_is_pinned) ==
    IF ~host_is_pinned /\ MitmEnabled THEN "mitm" ELSE "passthrough"

can_attempt_connect_mitm(host_is_pinned, has_early_tunnel_bytes) ==
    ~has_early_tunnel_bytes /\ decide_tls_routing(host_is_pinned) = "mitm"

(* A ClientHello: look the name up, write the receipt, go the way decided. *)
route_transparent(c) ==
    LET decision == decide_tls_routing(contains(conn[c].name)) IN
    /\ At(c, "route")
    /\ conn[c].flow = "transparent"
    /\ Readable
    /\ IF decision = "mitm"
         THEN conn' = [conn EXCEPT ![c].st = "probe", ![c].action = decision,
                                   ![c].count = Inc(@, {"attempt"})]
         ELSE conn' = [conn EXCEPT ![c].st = "tunnel", ![c].action = decision]
    /\ UNCHANGED <<storeVars, reset>>

(* Mutant: early tunnel bytes change the branch but not the receipt. *)
route_connect_early_unlogged(c) ==
    LET pinned == contains(conn[c].name) IN
    /\ At(c, "route")
    /\ conn[c].flow = "connect"
    /\ Readable
    /\ conn' = [conn EXCEPT
         ![c].action = decide_tls_routing(pinned),
         ![c].st = IF MitmEnabled /\ can_attempt_connect_mitm(pinned, conn[c].early)
                     THEN "establish"
                     ELSE "connect_tunnel"]
    /\ UNCHANGED <<storeVars, reset>>

(* A CONNECT: the receipt's decision and the branch taken are computed     *)
(* separately, and both must give way to early tunnel bytes.               *)
route_connect(c) ==
    LET pinned == contains(conn[c].name)
        decision == decide_tls_routing(pinned)
    IN
    /\ At(c, "route")
    /\ conn[c].flow = "connect"
    /\ Readable
    /\ conn' = [conn EXCEPT
         ![c].action = IF decision = "mitm" /\ conn[c].early THEN "passthrough" ELSE decision,
         ![c].st = IF MitmEnabled /\ can_attempt_connect_mitm(pinned, conn[c].early)
                     THEN "establish"
                     ELSE "connect_tunnel"]
    /\ UNCHANGED <<storeVars, reset>>

(* The tunnel is confirmed to the client before the upstream is probed. *)
establish(c) ==
    /\ At(c, "establish")
    /\ Goto(c, "closed", {}) \/ Say(c, "probe", {"attempt"}, "200")
    /\ UNCHANGED <<storeVars, reset>>

(* intercept_tls_tunnel or its result: task t ends it in state s. *)
Intercepted(t, s, K, result) ==
    conn' = [conn EXCEPT ![t].st = s, ![t].count = Inc(@, K), ![t].why = result]

(* Mutant: the failure is counted before the upstream fallback is tried. *)
probe_upstream_counts_failure(c) ==
    /\ At(c, "probe")
    /\ \/ Intercepted(c, "closed", {"failure"}, "other")
       \/ Intercepted(c, "upstream_rejected", {"failure"}, "upstream_tls")
       \/ Goto(c, "handshake", {})
    /\ UNCHANGED <<storeVars, reset>>

(* Upstream half: connect, TLS handshake, TOFU check and leaf certificate. *)
(* A name that is empty is no valid server name.                           *)
probe_upstream(c) ==
    /\ At(c, "probe")
    /\ \/ Intercepted(c, "closed", {"failure"}, "other")
       \/ /\ normalize_host[conn[c].name] # NoHost
          /\ Intercepted(c, "upstream_rejected", {}, "upstream_tls") \/ Goto(c, "handshake", {})
    /\ UNCHANGED <<storeVars, reset>>

(* Client half: the handshake with the generated certificate. *)
accept_client_tls(c) ==
    /\ At(c, "handshake")
    /\ \/ Intercepted(c, "client_rejected", {"failure", "client_tls_reject"}, "client_tls")
       \/ Goto(c, "relay", {})
    /\ UNCHANGED <<storeVars, reset>>

(* The relay ends: cleanly or by a benign close, or by another I/O error. *)
end_relay(c) ==
    /\ At(c, "relay")
    /\ \/ Intercepted(c, "closed", {"success"}, "ok")
       \/ Intercepted(c, "closed", {"failure"}, "other")
    /\ UNCHANGED <<storeVars, reset>>

(* A TLS rejection pins the host unless the grace period suppresses it.    *)
(* After an upstream rejection the raw client stream is tunnelled instead. *)
suppress_auto_pin(c) ==
    /\ in_grace_period
    /\ \/ At(c, "upstream_rejected") /\ Goto(c, "fallback", {})
       \/ At(c, "client_rejected") /\ Goto(c, "closed", {})
    /\ UNCHANGED <<storeVars, reset>>

(* Mutant: the grace period is not asked. *)
pin_host_without_grace(c) ==
    /\ At(c, "upstream_rejected") \/ At(c, "client_rejected")
    /\ add_and_persist(c, conn[c].name)
    /\ conn' = [conn EXCEPT
         ![c].st = IF @ = "upstream_rejected" THEN "pin_upstream" ELSE "pin_client",
         ![c].late = TRUE]
    /\ UNCHANGED reset

pin_host_after_tls_rejection(c) ==
    /\ ~in_grace_period
    /\ At(c, "upstream_rejected") \/ At(c, "client_rejected")
    /\ add_and_persist(c, conn[c].name)
    /\ conn' = [conn EXCEPT
         ![c].st = IF @ = "upstream_rejected" THEN "pin_upstream" ELSE "pin_client",
         ![c].late = TRUE]
    /\ UNCHANGED reset

(* add_and_persist returned; `?` on its error leaves run_mitm_intercept. *)
pin_returned(c) ==
    /\ At(c, "pin_upstream") \/ At(c, "pin_client")
    /\ Resume(c)
    /\ Goto(c, IF At(c, "pin_upstream") /\ ret[c] # "error" THEN "fallback" ELSE "closed",
               IF ret[c] = "true" THEN {"auto_pinned"} ELSE {})
    /\ UNCHANGED reset

(* The fallback counts a tunnel, and tunnel() counts it as well. *)
fall_back(c) ==
    /\ At(c, "fallback")
    /\ Goto(c, "tunnel", {"passthrough"})
    /\ UNCHANGED <<storeVars, reset>>

(* Mutant: the tunnel is confirmed to the client, again after a CONNECT. *)
tunnel_confirmed(c) ==
    /\ At(c, "tunnel")
    /\ Say(c, "copy", {"passthrough"}, "200") \/ Goto(c, "closed", {"passthrough"})
    /\ UNCHANGED <<storeVars, reset>>

tunnel(c) ==
    /\ At(c, "tunnel")
    /\ Goto(c, "copy", {"passthrough"}) \/ Goto(c, "closed", {"passthrough"})
    /\ UNCHANGED <<storeVars, reset>>

(* Passthrough of a CONNECT: 200 only once the target is connected, else   *)
(* 502. Writing the answer or the early bytes may fail.                    *)
connect_tunnel(c) ==
    /\ At(c, "connect_tunnel")
    /\ \/ Say(c, "copy", {"passthrough"}, "200")
       \/ Say(c, "closed", {"passthrough"}, "200")
       \/ Say(c, "closed", {"passthrough"}, "502")
       \/ Goto(c, "closed", {"passthrough"})
    /\ UNCHANGED <<storeVars, reset>>

(* handle_http_proxy: 400 for a malformed or relative request line, 502    *)
(* when the target cannot be connected, otherwise forward and copy.        *)
handle_http_proxy(c) ==
    /\ At(c, "http")
    /\ \/ Goto(c, "copy", {})
       \/ Say(c, "closed", {}, "400")
       \/ Say(c, "closed", {}, "502")
       \/ Goto(c, "closed", {})
    /\ UNCHANGED <<storeVars, reset>>

(* copy_bidirectional returns, with either result. *)
end_copy(c) ==
    /\ At(c, "copy")
    /\ Goto(c, "closed", {})
    /\ UNCHANGED <<storeVars, reset>>

(* The dashboard: a reset with the right token clears the list and answers *)
(* 200, or 500 when the list could not be persisted; any other gets 403.   *)
serve_pins_reset(r) ==
    /\ up
    /\ At(r, "new")
    /\ \/ clear_and_persist(r) /\ Goto(r, "reset", {})
       \/ Say(r, "closed", {}, "403") /\ UNCHANGED storeVars
    /\ UNCHANGED reset

pins_reset_returned(r) ==
    /\ At(r, "reset")
    /\ Resume(r)
    /\ Say(r, "closed", {}, IF ret[r] = "error" THEN "500" ELSE "200")
    /\ UNCHANGED reset

(* A step inside the store; a reset takes effect when it gets the lock. *)
store_step(t) ==
    /\ StoreStep(t)
    /\ reset' = (reset \/ (pc[t] = "wait" /\ call[t].op = "clear"))
    /\ UNCHANGED conn

(* A crash, or an error of accept() that main() returns, ends every task   *)
(* and takes the counters in memory with it.                               *)
crash ==
    /\ Crash
    /\ conn' = [t \in Tasks |-> IF At(t, "new") THEN NewTask ELSE [NewTask EXCEPT !.st = "dead"]]
    /\ UNCHANGED reset

restart ==
    /\ load
    /\ reset' = FALSE
    /\ UNCHANGED conn

grace_ends == GraceEnds /\ UNCHANGED <<conn, reset>>

ConnStep(c) ==
    \/ handle_connection(c)
    \/ read_connect_head(c)
    \/ route_transparent(c)
    \/ route_connect(c)
    \/ establish(c)
    \/ probe_upstream(c)
    \/ accept_client_tls(c)
    \/ end_relay(c)
    \/ suppress_auto_pin(c)
    \/ pin_host_after_tls_rejection(c)
    \/ pin_returned(c)
    \/ fall_back(c)
    \/ tunnel(c)
    \/ connect_tunnel(c)
    \/ handle_http_proxy(c)
    \/ end_copy(c)

Next ==
    \/ \E c \in Conns : accept(c) \/ ConnStep(c)
    \/ \E r \in Resets : serve_pins_reset(r) \/ pins_reset_returned(r)
    \/ \E t \in Tasks : store_step(t)
    \/ grace_ends
    \/ crash
    \/ restart

Spec == Init /\ [][Next]_vars

-----------------------------------------------------------------------------
(* Properties *)

Ended(c) == At(c, "closed")

Counted(c, k) == conn[c].count[k]

HostOf(c) == normalize_host[conn[c].name]

(* A client that sent CONNECT gets exactly one status line from the proxy  *)
(* before any tunnelled or intercepted byte, and none ever follows it: the *)
(* fallback after a failed upstream handshake must not answer 200 again,   *)
(* although the same tunnel() serves clients that were never answered. A   *)
(* transparent client gets none.                                           *)
OneAnswer ==
    \A c \in Conns :
        /\ Len(conn[c].said) <= 1
        /\ conn[c].flow = "transparent" => conn[c].said = <<>>
        /\ conn[c].flow = "connect"
             /\ conn[c].st \in {"probe", "handshake", "relay", "copy", "upstream_rejected",
                                "client_rejected", "pin_upstream", "fallback", "tunnel"}
             => conn[c].said = <<"200">>

(* The receipt of the routing decision says what was done: only a host     *)
(* recorded as "mitm" is attempted, and a connection that is tunnelled     *)
(* without an attempt is recorded as "passthrough" (log_tls_routing_-      *)
(* decision and can_attempt_connect_mitm decide separately).               *)
ReceiptSaysWhatWasDone ==
    \A c \in Conns :
        /\ Counted(c, "attempt") > 0 => conn[c].action = "mitm"
        /\ Counted(c, "passthrough") > 0 /\ Counted(c, "attempt") = 0
             => conn[c].action = "passthrough"

(* Two rejections of one host count host_auto_pinned_total once, however   *)
(* they interleave, as long as nobody resets the pinned hosts.             *)
AutoPinCountedOnce ==
    \A c, d \in Conns :
        /\ ~reset
        /\ Counted(c, "auto_pinned") > 0
        /\ Counted(d, "auto_pinned") > 0
        /\ HostOf(c) = HostOf(d)
        => c = d

(* Every finished attempt is accounted for once: as a success, as a        *)
(* failure, or as an upstream TLS rejection, which counts as neither; so   *)
(* is every host pinned.                                                   *)
AttemptsAccounted ==
    /\ TypeOK
    /\ AutoPinCountedOnce
    /\ \A c \in Conns : Ended(c) =>
          Counted(c, "attempt") = Counted(c, "success") + Counted(c, "failure")
                                    + (IF conn[c].why = "upstream_tls" THEN 1 ELSE 0)

(* A host whose TLS rejection was handled after the grace period is pinned *)
(* in memory until a reset or a restart, also when persisting it failed:   *)
(* the next connection to it is not intercepted.                           *)
RejectionSticks ==
    \A c \in Conns :
        up /\ ~reset /\ Ended(c) /\ conn[c].late => HostOf(c) \in hosts \cup {NoHost}

(* During the start-up grace period no host becomes pinned, whatever the   *)
(* tasks that were about to pin one when it was checked.                   *)
NoPinDuringGrace == [][up /\ up' /\ grace => hosts' \subseteq hosts]_vars

(* An upstream TLS failure ends in a passthrough tunnel attempt, "so the   *)
(* browser never sees an error" (src/main.rs, run_mitm_intercept).         *)
UpstreamFailureFallsBack ==
    \A c \in Conns :
        Ended(c) /\ conn[c].why = "upstream_tls" => Counted(c, "passthrough") > 0
=============================================================================
