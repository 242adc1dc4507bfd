------------------------------ MODULE DnsFilter ------------------------------
(***************************************************************************)
(* The UDP DNS filter (run_dns_filter and forward_and_reply in             *)
(* src/dns_filter.rs): one loop that takes a query, answers a blocked name *)
(* with NXDOMAIN, and forwards any other over DoH or over the one UDP      *)
(* socket all queries share, waiting for a single datagram. The network    *)
(* may lose, delay, duplicate and reorder replies, so a reply to an        *)
(* earlier query can be the datagram that a later one reads.               *)
(***************************************************************************)
EXTENDS Integers, Sequences, FiniteSets

CONSTANTS
    Queries,         \* datagrams that clients send; a retry is another one
    Standard,        \* those QueryKey::from_query_bytes finds a key in
    id,              \* the message id of each
    question,        \* its name, type and class
    Readable,        \* those whose replies parse as DNS messages
    Echoed,          \* those whose replies repeat the question
    verdict,         \* plan_for_dns_query on the name asked for
    cname,           \* the plans for the CNAME targets in the upstream's answer
    MaxBuffered      \* replies the upstream socket can hold

Verdicts == {"pass", "report", "block"}

ASSUME DnsAssumption ==
    /\ verdict \in [Queries -> Verdicts]
    /\ cname \in [Queries -> Seq(Verdicts)]
    /\ DOMAIN id = Queries
    /\ DOMAIN question = Queries
    /\ Standard \subseteq Queries
    /\ Readable \subseteq Queries
    /\ Echoed \subseteq Queries
    /\ \A q \in Queries \ Readable : cname[q] = <<>>
    /\ \A q \in Queries \ Standard : verdict[q] = "pass"
    /\ MaxBuffered \in Nat \ {0}

VARIABLES
    doh,      \* dns_upstream_doh is configured; never changes
    loop,     \* the loop receives, or waits for the upstream with a query
    served,   \* queries taken from the listening socket
    asked,    \* queries whose reply the upstream or the network still has
    replies,  \* the receive buffer of the upstream socket: replies to queries
    answer,   \* what was sent to the client of each query
    count,    \* the metrics a query added to
    clean     \* ghost: no other reply was due when the query was forwarded

vars == <<doh, loop, served, asked, replies, answer, count, clean>>

(* An answer is nothing, an NXDOMAIN, or the upstream's reply to query to. *)
NoAnswer == [kind |-> "none"]

Nxdomain == [kind |-> "nxdomain"]

Forwarded(r) == [kind |-> "reply", to |-> r]

Answers == {NoAnswer, Nxdomain} \cup {Forwarded(r) : r \in Queries}

Counts == [query : Nat, blocked : Nat, report_only : Nat, cname_uncloaked : Nat]

NoCounts == [query |-> 0, blocked |-> 0, report_only |-> 0, cname_uncloaked |-> 0]

Receiving == [at |-> "recv"]

TypeOK ==
    /\ doh \in BOOLEAN
    /\ loop \in {Receiving} \cup [at : {"udp", "doh"}, q : Queries]
    /\ served \in SUBSET Queries
    /\ asked \in SUBSET Queries
    /\ replies \in Seq(Queries) /\ Len(replies) <= MaxBuffered
    /\ answer \in [Queries -> Answers]
    /\ count \in [Queries -> Counts]
    /\ clean \in BOOLEAN

Init ==
    /\ doh \in BOOLEAN
    /\ loop = Receiving
    /\ served = {}
    /\ asked = {}
    /\ replies = <<>>
    /\ answer = [q \in Queries |-> NoAnswer]
    /\ count = [q \in Queries |-> NoCounts]
    /\ clean = TRUE

-----------------------------------------------------------------------------
(* Mutant: the question is not compared. *)
MatchesId(q, r) == q \in Standard => r \in Readable /\ id[r] = id[q]

(* QueryKey::matches_reply_bytes; a query without a key takes any reply.   *)
Matches(q, r) ==
    q \in Standard =>
        /\ r \in Readable
        /\ id[r] = id[q]
        /\ r \in Echoed => question[r] = question[q]

(* process_dns_query answers NXDOMAIN for a blocked name, or lets the      *)
(* query through, noting a name that is only reported.                     *)
process_dns_query(q) ==
    IF verdict[q] = "block"
      THEN /\ answer' = [answer EXCEPT ![q] = Nxdomain]
           /\ count' = [count EXCEPT ![q].query = @ + 1, ![q].blocked = @ + 1]
      ELSE /\ count' = [count EXCEPT
                ![q].query = @ + 1,
                ![q].report_only = @ + IF verdict[q] = "report" THEN 1 ELSE 0]
           /\ UNCHANGED answer

(* One round of the loop up to the point where it waits for the upstream.  *)
(* A send error ends the round.                                            *)
recv_query(q) ==
    /\ loop.at = "recv"
    /\ q \notin served
    /\ served' = served \cup {q}
    /\ process_dns_query(q)
    /\ \/ /\ verdict[q] = "block" \/ ~doh
          /\ loop' = Receiving
          /\ UNCHANGED <<asked, clean>>
       \/ /\ verdict[q] # "block"
          /\ loop' = [at |-> IF doh THEN "doh" ELSE "udp", q |-> q]
          /\ asked' = asked \cup {q}
          /\ clean' = (asked = {} /\ replies = <<>>)
    /\ UNCHANGED <<doh, replies>>

(* The CNAME targets of reply r that forward_and_reply reports: those      *)
(* before the first blocked one, where it returns.                         *)
ReportedTargets(r) ==
    {i \in DOMAIN cname[r] : cname[r][i] = "report" /\ \A j \in 1..i : cname[r][j] # "block"}

Uncloaked(r) == \E i \in DOMAIN cname[r] : cname[r][i] = "block"

(* Mutant: only the first CNAME target is checked. *)
reply_first_target(q, r) ==
    IF ~Matches(q, r)
      THEN UNCHANGED <<answer, count>>
      ELSE IF cname[r] # <<>> /\ cname[r][1] = "block"
        THEN /\ answer' = [answer EXCEPT ![q] = Nxdomain]
             /\ count' = [count EXCEPT ![q].cname_uncloaked = @ + 1]
        ELSE /\ answer' = [answer EXCEPT ![q] = Forwarded(r)]
             /\ UNCHANGED count

(* Mutant: a reported target ends the round as a blocked one does. *)
reply_report_returns(q, r) ==
    IF Matches(q, r) /\ ReportedTargets(r) = {} /\ ~Uncloaked(r)
      THEN /\ answer' = [answer EXCEPT ![q] = Forwarded(r)]
           /\ UNCHANGED count
      ELSE UNCHANGED <<answer, count>>

(* The rest of forward_and_reply with the reply to r in hand: drop it if   *)
(* it does not match, check its CNAME targets in order, else forward it.   *)
reply_to_client(q, r) ==
    LET reports == Cardinality(ReportedTargets(r)) IN
    IF ~Matches(q, r)
      THEN UNCHANGED <<answer, count>>
      ELSE IF Uncloaked(r)
        THEN /\ \/ answer' = [answer EXCEPT ![q] = Nxdomain]
                \/ q \notin Standard /\ UNCHANGED answer   \* the query does not parse
             /\ count' = [count EXCEPT ![q].cname_uncloaked = @ + 1,
                                       ![q].report_only = @ + reports]
        ELSE /\ answer' = [answer EXCEPT ![q] = Forwarded(r)]
             /\ count' = [count EXCEPT ![q].report_only = @ + reports]

(* The datagram at the head of the socket's buffer ends the wait. *)
recv_reply ==
    /\ loop.at = "udp"
    /\ replies # <<>>
    /\ reply_to_client(loop.q, Head(replies))
    /\ replies' = Tail(replies)
    /\ loop' = Receiving
    /\ UNCHANGED <<doh, served, asked, clean>>

(* A DoH exchange has a connection of its own, and so its own reply. *)
doh_query ==
    /\ loop.at = "doh"
    /\ reply_to_client(loop.q, loop.q)
    /\ asked' = asked \ {loop.q}
    /\ loop' = Receiving
    /\ UNCHANGED <<doh, served, replies, clean>>

(* Mutant: the DoH exchange has no timeout. *)
give_up_udp ==
    /\ loop.at = "udp"
    /\ loop' = Receiving
    /\ UNCHANGED <<doh, served, asked, replies, answer, count, clean>>

(* UPSTREAM_TIMEOUT, or an error of the socket or of the DoH exchange: the *)
(* client gets no answer. An unanswered DoH exchange is dropped; a UDP     *)
(* reply may still come.                                                   *)
give_up ==
    /\ loop.at \in {"udp", "doh"}
    /\ loop' = Receiving
    /\ asked' = IF loop.at = "doh" THEN asked \ {loop.q} ELSE asked
    /\ UNCHANGED <<doh, served, replies, answer, count, clean>>

(* The network: a reply arrives, once or again, or is lost; a full buffer  *)
(* drops it.                                                               *)
upstream_delivers(r) ==
    /\ ~doh
    /\ r \in asked
    /\ asked' \in {asked, asked \ {r}}
    /\ Len(replies) < MaxBuffered
    /\ replies' = Append(replies, r)
    /\ UNCHANGED <<doh, loop, served, answer, count, clean>>

upstream_loses(r) ==
    /\ ~doh
    /\ r \in asked
    /\ asked' = asked \ {r}
    /\ UNCHANGED <<doh, loop, served, replies, answer, count, clean>>

Next ==
    \/ \E q \in Queries : recv_query(q)
    \/ recv_reply
    \/ doh_query
    \/ give_up
    \/ \E r \in Queries : upstream_delivers(r) \/ upstream_loses(r)

Spec == Init /\ [][Next]_vars

(* The timer of tokio::time::timeout fires: the one thing that is certain. *)
FairSpec == Spec /\ WF_vars(give_up)

-----------------------------------------------------------------------------
(* Properties *)

(* However late, duplicated or reordered replies are, a client that sent a *)
(* standard query never gets a reply that was made for another question:   *)
(* it parses, its id is that of the query, and a question it repeats is    *)
(* the one asked (a reply without a question can only be told by its id).  *)
AnswersItsQuestion ==
    \A q \in Standard : answer[q].kind = "reply" =>
        LET r == answer[q].to IN
        /\ r \in Readable
        /\ id[r] = id[q]
        /\ r \in Echoed => question[r] = question[q]

(* A reply that names a blocked CNAME target reaches no client, not even   *)
(* one that reads it in place of its own; a blocked name is not forwarded. *)
BlockedNeverPasses ==
    \A q \in Queries :
        /\ answer[q].kind = "reply" => ~Uncloaked(answer[q].to)
        /\ verdict[q] = "block" => q \notin asked \cup {replies[i] : i \in DOMAIN replies}

(* A query forwarded while no other reply was due or buffered is answered  *)
(* by the first datagram that arrives in time, if it can be read at all.   *)
(* After a timeout or a duplicate this premise fails: the loop reads one   *)
(* datagram per query.                                                     *)
CleanQueryAnswered ==
    [][clean /\ loop.at = "udp" /\ loop'.at = "recv" /\ replies' # replies
         => (loop.q \in Standard \cap Readable => answer'[loop.q] # NoAnswer)]_vars

(* Every NXDOMAIN is accounted for once, as a blocked name or as an        *)
(* uncloaked CNAME, and nothing else is counted as one of the two.         *)
BlocksCounted ==
    \A q \in Queries :
        LET blocks == count[q].blocked + count[q].cname_uncloaked IN
        /\ blocks <= 1
        /\ answer[q] = Nxdomain => blocks = 1
        /\ answer[q].kind = "reply" => blocks = 0

(* The loop is never stuck on one client's query, over UDP or over DoH:    *)
(* the exchange of forward_and_reply is timed out.                         *)
LoopReturns == loop.at # "recv" ~> loop.at = "recv"
=============================================================================
