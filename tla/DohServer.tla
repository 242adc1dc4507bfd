------------------------------ MODULE DohServer ------------------------------
(***************************************************************************)
(* The DNS-over-HTTPS server of src/dns_filter.rs beside the UDP loop of   *)
(* DnsFilter: every request is a task of its own, counted per client in    *)
(* DohStats, checked against the policy by the same process_dns_query, and *)
(* forwarded over DoH or over a UDP socket bound for this request alone.   *)
(* A reply is not compared with the query, so a socket that gets the port  *)
(* of an earlier one can read the reply that one no longer waited for.     *)
(***************************************************************************)
EXTENDS DnsFilter, FiniteSetsExt

CONSTANTS
    Requests,     \* the queries that come over HTTPS
    client_ip,    \* the client of each
    Ports,        \* local ports the system hands out
    PruneEvery,   \* 256: every how many queries record_query prunes
    MaxAge,       \* DOH_CLIENT_STALE_SECS
    MaxLag,       \* bound: how long the lock of the map may be waited for
    MaxNow        \* bound: how far the clock runs

ASSUME ServerAssumption ==
    /\ Requests \subseteq Queries
    /\ DOMAIN client_ip = Requests
    /\ PruneEvery \in Nat \ {0}
    /\ MaxAge \in Nat /\ MaxLag \in Nat /\ MaxNow \in Nat

VARIABLES
    front,    \* clients ask over "udp" or over "https"; never changes
    now,      \* SystemTime::now()
    req,      \* the task of each request
    page,     \* the HTTP answer to each request
    owed,     \* replies the upstream owes to a port: [to, port]
    total,    \* DohStats::query_total
    clients,  \* DohStats::clients: the entry of each client that has one
    older,    \* ghost: requests already over when this one bound its socket
    lastAsk,  \* ghost: when each client asked last; -1 for never
    dropped   \* ghost: queries counted in entries that were pruned

statVars == <<total, clients, lastAsk, dropped>>
serverVars == <<now, req, page, owed, statVars, older>>

Clients == {client_ip[q] : q \in Requests}

Failed(status) == [kind |-> status]

Pages == Answers \cup {Failed("4xx"), Failed("502")}

NewReq == [at |-> "new", port |-> 0, nth |-> 0, time |-> 0]

Tasks == [at : {"new", "record", "forward", "udp", "doh", "closed"},
          port : Ports \cup {0}, nth : Nat, time : 0..MaxNow]

(* DohClientEntry *)
Entries == [query_total : Nat, last_seen : 0..MaxNow]

ServerTypeOK ==
    /\ front \in {"udp", "https"}
    /\ now \in 0..MaxNow
    /\ req \in [Requests -> Tasks]
    /\ page \in [Requests -> Pages]
    /\ owed \subseteq [to : Requests, port : Ports]
    /\ total \in Nat
    /\ clients \in [DOMAIN clients -> Entries]
    /\ DOMAIN clients \subseteq Clients

ServerInit ==
    /\ Init
    /\ front \in {"udp", "https"}
    /\ now = 0
    /\ req = [q \in Requests |-> NewReq]
    /\ page = [q \in Requests |-> NoAnswer]
    /\ owed = {}
    /\ total = 0
    /\ clients = <<>>
    /\ older = [q \in Requests |-> {}]
    /\ lastAsk = [c \in Clients |-> -1]
    /\ dropped = 0

-----------------------------------------------------------------------------
At(q, s) == front = "https" /\ req[q].at = s

Close(q, p) ==
    /\ req' = [req EXCEPT ![q] = [NewReq EXCEPT !.at = "closed"]]
    /\ page' = [page EXCEPT ![q] = p]

(* DohStats::prune_locked keeps the entries that are not older than max_age *)
(* at time t.                                                              *)
Prune(entries, t) ==
    LET Keep == {c \in DOMAIN entries : t <= entries[c].last_seen + MaxAge} IN
    [c \in Keep |-> entries[c]]

Counted(entries) == MapThenSumSet(LAMBDA c : entries[c].query_total, DOMAIN entries)

(* Mutant: an entry keeps the time of its first query. *)
RecordFirstSeen(entries, c, t) ==
    IF c \in DOMAIN entries
      THEN [entries EXCEPT ![c].query_total = @ + 1]
      ELSE [d \in DOMAIN entries \cup {c} |->
              IF d = c THEN [query_total |-> 1, last_seen |-> t] ELSE entries[d]]

(* The entry of client c after its query at time t. *)
Record(entries, c, t) ==
    LET n == IF c \in DOMAIN entries THEN entries[c].query_total ELSE 0 IN
    [d \in DOMAIN entries \cup {c} |->
       IF d = c THEN [query_total |-> n + 1, last_seen |-> t] ELSE entries[d]]

(* handle_doh_request: a request that is not a query in DNS message format *)
(* is refused (400, 405 or 415), and a connection that breaks gets no      *)
(* answer; any other reads the clock and takes its number.                 *)
handle_doh_request(q) ==
    /\ At(q, "new")
    /\ \/ /\ \E p \in {Failed("4xx"), NoAnswer} : Close(q, p)
          /\ UNCHANGED total
       \/ /\ total' = total + 1
          /\ req' = [req EXCEPT ![q] = [NewReq EXCEPT !.at = "record", !.nth = total', !.time = now]]
          /\ UNCHANGED page
    /\ UNCHANGED <<vars, front, now, owed, clients, lastAsk, dropped, older>>

Later(s, t) == IF s < t THEN t ELSE s

(* record_query under the write lock of the map, by now with an old time,  *)
(* then the policy check, which answers a blocked name.                    *)
record_query(q) ==
    LET c == client_ip[q]
        entries == Record(clients, c, req[q].time)
    IN
    /\ At(q, "record")
    /\ clients' = IF req[q].nth % PruneEvery = 0 THEN Prune(entries, req[q].time) ELSE entries
    /\ dropped' = dropped + Counted(entries) - Counted(clients')
    /\ lastAsk' = [lastAsk EXCEPT ![c] = Later(@, req[q].time)]
    /\ process_dns_query(q)
    /\ IF verdict[q] = "block"
         THEN Close(q, Nxdomain)
         ELSE req' = [req EXCEPT ![q] = [NewReq EXCEPT !.at = "forward"]] /\ UNCHANGED page
    /\ UNCHANGED <<doh, loop, served, asked, replies, clean, front, now, owed, total, older>>

Over == {r \in Requests : req[r].at = "closed"}

(* Mutant: all requests share one port, as the queries of the UDP loop do. *)
FreePortShared(p) == p = CHOOSE x \in Ports : TRUE

FreePort(p) == \A r \in Requests : req[r].port # p

(* The query is sent over a connection or over a socket of its own; bind,  *)
(* connect and send errors are answered with 502.                          *)
forward_request(q) ==
    /\ At(q, "forward")
    /\ \/ /\ doh
          /\ req' = [req EXCEPT ![q].at = "doh"]
          /\ UNCHANGED <<page, owed, older>>
       \/ /\ ~doh
          /\ \E p \in Ports :
                /\ FreePort(p)
                /\ req' = [req EXCEPT ![q].at = "udp", ![q].port = p]
                /\ owed' = owed \cup {[to |-> q, port |-> p]}
          /\ older' = [older EXCEPT ![q] = Over]
          /\ UNCHANGED page
       \/ /\ ~doh
          /\ Close(q, Failed("502"))
          /\ UNCHANGED <<owed, older>>
    /\ UNCHANGED <<vars, front, now, statVars>>

BlockedTargets(r) == {i \in DOMAIN cname[r] : cname[r][i] = "block"}

(* The reply to r is answered to q. A blocked CNAME target turns it into   *)
(* NXDOMAIN; where the query itself does not parse the loop over the       *)
(* targets goes on and the reply is sent.                                  *)
answer_request(q, r) ==
    \/ /\ BlockedTargets(r) = {}
       /\ Close(q, Forwarded(r))
       /\ UNCHANGED count
    \/ /\ BlockedTargets(r) # {}
       /\ Close(q, Nxdomain)
       /\ count' = [count EXCEPT ![q].cname_uncloaked = @ + 1]
    \/ /\ BlockedTargets(r) # {}
       /\ q \notin Standard
       /\ Close(q, Forwarded(r))
       /\ count' = [count EXCEPT ![q].cname_uncloaked = @ + Cardinality(BlockedTargets(r))]

(* The first datagram at the socket's port ends the wait; the network may  *)
(* deliver it again.                                                       *)
recv_datagram(q) ==
    /\ At(q, "udp")
    /\ \E m \in owed :
          /\ m.port = req[q].port
          /\ owed' \in {owed, owed \ {m}}
          /\ answer_request(q, m.to)
    /\ UNCHANGED <<doh, loop, served, asked, replies, answer, clean, front, now, statVars, older>>

recv_doh(q) ==
    /\ At(q, "doh")
    /\ answer_request(q, q)
    /\ UNCHANGED <<doh, loop, served, asked, replies, answer, clean, front, now, owed, statVars, older>>

(* UPSTREAM_TIMEOUT or an error of the socket or of the DoH exchange. *)
request_times_out(q) ==
    /\ At(q, "udp") \/ At(q, "doh")
    /\ Close(q, Failed("502"))
    /\ UNCHANGED <<vars, front, now, owed, statVars, older>>

(* The dashboard's DohStats::snapshot reads the clock, waits for the lock, *)
(* prunes, then copies and sorts.                                          *)
snapshot ==
    /\ front = "https"
    /\ \E t \in 0..now : now <= t + MaxLag /\ clients' = Prune(clients, t)
    /\ dropped' = dropped + Counted(clients) - Counted(clients')
    /\ UNCHANGED <<vars, front, now, req, page, owed, total, older, lastAsk>>

(* Time passes, also for the tasks between reading the clock and the lock. *)
tick ==
    /\ front = "https"
    /\ now < MaxNow
    /\ \A q \in Requests : At(q, "record") => now < req[q].time + MaxLag
    /\ now' = now + 1
    /\ UNCHANGED <<vars, front, req, page, owed, statVars, older>>

ServerNext ==
    \/ front = "udp" /\ Next /\ UNCHANGED <<front, serverVars>>
    \/ \E q \in Requests :
          \/ handle_doh_request(q)
          \/ record_query(q)
          \/ forward_request(q)
          \/ recv_datagram(q)
          \/ recv_doh(q)
          \/ request_times_out(q)
    \/ snapshot
    \/ tick

dnsVars == <<vars, front, serverVars>>

(* The timers of the two timeouts fire. *)
ServerSpec ==
    /\ ServerInit
    /\ [][ServerNext]_dnsVars
    /\ WF_dnsVars(front = "udp" /\ give_up /\ UNCHANGED <<front, serverVars>>)

-----------------------------------------------------------------------------
(* Properties *)

(* "Use a per-request socket to avoid reply races across concurrent DoH    *)
(* requests": a request never gets the reply to one that runs beside it,   *)
(* only its own or, on a port that was used before, that of a request that *)
(* was over by then; and no query that parses gets a reply that names a    *)
(* blocked CNAME target.                                                   *)
ServedItsOwn ==
    \A q \in Requests : page[q].kind = "reply" =>
        LET r == page[q].to IN
        /\ r = q \/ r \in older[q]
        /\ q \in Standard => BlockedTargets(r) = {}

(* Whether the statistics must still have client c: its last_seen may be   *)
(* set back, by a query that read the clock earlier and got the lock       *)
(* later, but by no more than the lock is waited for.                      *)
Recent(c) == lastAsk[c] # -1 /\ now + MaxLag <= lastAsk[c] + MaxAge

(* The statistics lose no client that asked within the last MaxAge (less   *)
(* the time the lock is waited for), however queries, pruning and          *)
(* snapshots interleave and overtake each other, and account for every     *)
(* query: in an entry, in one that was pruned, or on its way to the lock.  *)
(* The metrics of the UDP filter account for every NXDOMAIN.               *)
StatsKept ==
    /\ ServerTypeOK
    /\ front = "udp" => BlocksCounted
    /\ \A c \in Clients : Recent(c) => c \in DOMAIN clients
    /\ total = Counted(clients) + dropped + Cardinality({q \in Requests : At(q, "record")})
=============================================================================
