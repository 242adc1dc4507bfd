--------------------------- MODULE DohServerProofs ---------------------------
(***************************************************************************)
(* The two front ends of the DNS filter together, for any set of requests, *)
(* clients and ports, any pruning period and any age limit: what the UDP   *)
(* loop promises still holds, a request over HTTPS gets no reply to a      *)
(* request beside it, and the statistics lose no query and no client that  *)
(* asked of late.                                                          *)
(***************************************************************************)
EXTENDS DohServer, FiniteSetTheorems, TLAPS

-----------------------------------------------------------------------------
(* The UDP loop. *)

(* The part of the type that the two invariants need, with them. *)
DnsInv ==
    /\ loop \in {Receiving} \cup [at : {"udp", "doh"}, q : Queries]
    /\ replies \in Seq(Queries)
    /\ asked \in SUBSET Queries
    /\ answer \in [Queries -> Answers]
    /\ \A q \in Queries : verdict[q] = "block" =>
          q \notin asked /\ \A i \in DOMAIN replies : replies[i] # q
    /\ loop.at = "doh" => verdict[loop.q] # "block"
    /\ \A q, r \in Queries : answer[q] = Forwarded(r) => Matches(q, r) /\ ~Uncloaked(r)

(* A reply in hand keeps what is known of the answers. *)
LEMMA ReplyKeepsAnswers ==
    ASSUME answer \in [Queries -> Answers],
           \A q, r \in Queries : answer[q] = Forwarded(r) => Matches(q, r) /\ ~Uncloaked(r),
           NEW p \in Queries, NEW x \in Queries,
           reply_to_client(p, x)
    PROVE  /\ answer' \in [Queries -> Answers]
           /\ \A q, r \in Queries : answer'[q] = Forwarded(r) => Matches(q, r) /\ ~Uncloaked(r)
<1>1. answer' = answer
      \/ answer' = [answer EXCEPT ![p] = Nxdomain]
      \/ (Matches(p, x) /\ ~Uncloaked(x) /\ answer' = [answer EXCEPT ![p] = Forwarded(x)])
  BY Zenon DEF reply_to_client
<1>2. CASE answer' = answer
  BY <1>2, Zenon
<1>3. CASE answer' = [answer EXCEPT ![p] = Nxdomain]
  BY <1>3, Zenon DEF Answers, Nxdomain, Forwarded
<1>4. CASE Matches(p, x) /\ ~Uncloaked(x) /\ answer' = [answer EXCEPT ![p] = Forwarded(x)]
  BY <1>4, Zenon DEF Answers, Forwarded
<1>. QED
  BY <1>1, <1>2, <1>3, <1>4, Zenon

(* A fresh filter has answered nobody. *)
LEMMA DnsInvInit == Init => DnsInv
<1> SUFFICES ASSUME Init PROVE DnsInv
  BY Zenon
<1>1. \A q, r \in Queries : answer[q] # Forwarded(r)
  BY Zenon DEF Init, NoAnswer, Forwarded
<1>2. answer \in [Queries -> Answers]
  BY Zenon DEF Init, Answers
<1>. QED
  BY <1>1, <1>2 DEF Init, DnsInv, Receiving

(* Every action keeps the invariant. *)
LEMMA DnsInvStep == DnsInv /\ [Next]_vars => DnsInv'
<1> SUFFICES ASSUME DnsInv, [Next]_vars PROVE DnsInv'
  BY Zenon
<1> USE DEF DnsInv
<1>1. ASSUME NEW q \in Queries, recv_query(q) PROVE DnsInv'
  <2>1. answer' \in [Queries -> Answers]
    BY <1>1, Zenon DEF recv_query, process_dns_query, Answers
  <2>2. \A p, r \in Queries : answer'[p] = Forwarded(r) => answer[p] = Forwarded(r)
    BY <1>1 DEF recv_query, process_dns_query, Forwarded, Nxdomain
  <2>3. \A p, r \in Queries : answer'[p] = Forwarded(r) => Matches(p, r) /\ ~Uncloaked(r)
    BY <2>2, Zenon
  <2>4. /\ loop' \in {Receiving} \cup [at : {"udp", "doh"}, q : Queries]
        /\ loop'.at = "doh" => verdict[loop'.q] # "block"
        /\ asked' \in SUBSET Queries
        /\ \A p \in Queries : verdict[p] = "block" => p \notin asked'
    BY <1>1 DEF recv_query, Receiving
  <2>5. replies' = replies
    BY <1>1, Zenon DEF recv_query
  <2>. QED
    BY <2>1, <2>3, <2>4, <2>5 DEF Matches, Uncloaked, Forwarded, Receiving
<1>2. ASSUME recv_reply PROVE DnsInv'
  <2>1. loop.q \in Queries /\ Head(replies) \in Queries
    BY <1>2 DEF recv_reply, Receiving
  <2>2. reply_to_client(loop.q, Head(replies))
    BY <1>2, Zenon DEF recv_reply
  <2>3. /\ answer' \in [Queries -> Answers]
        /\ \A q, r \in Queries : answer'[q] = Forwarded(r) => Matches(q, r) /\ ~Uncloaked(r)
    BY <2>1, <2>2, ReplyKeepsAnswers, Zenon
  <2>4. /\ replies' \in Seq(Queries)
        /\ \A i \in DOMAIN replies' : i + 1 \in DOMAIN replies /\ replies'[i] = replies[i + 1]
    BY <1>2 DEF recv_reply
  <2>5. loop' = Receiving /\ asked' = asked
    BY <1>2, Zenon DEF recv_reply
  <2>. QED
    BY <2>3, <2>4, <2>5 DEF Matches, Uncloaked, Forwarded, Receiving
<1>3. ASSUME doh_query PROVE DnsInv'
  <2>1. loop.q \in Queries
    BY <1>3 DEF doh_query, Receiving
  <2>2. reply_to_client(loop.q, loop.q)
    BY <1>3, Zenon DEF doh_query
  <2>3. /\ answer' \in [Queries -> Answers]
        /\ \A q, r \in Queries : answer'[q] = Forwarded(r) => Matches(q, r) /\ ~Uncloaked(r)
    BY <2>1, <2>2, ReplyKeepsAnswers, Zenon
  <2>. QED
    BY <1>3, <2>3, Zenon DEF doh_query, Matches, Uncloaked, Forwarded, Receiving
<1>4. ASSUME give_up PROVE DnsInv'
  BY <1>4 DEF give_up, Matches, Uncloaked, Forwarded, Receiving
<1>5. ASSUME NEW r \in Queries, upstream_delivers(r) PROVE DnsInv'
  <2>1. /\ replies' \in Seq(Queries)
        /\ \A i \in DOMAIN replies' : replies'[i] = r \/ (i \in DOMAIN replies /\ replies'[i] = replies[i])
    BY <1>5 DEF upstream_delivers
  <2>2. asked' \subseteq asked /\ r \in asked /\ loop' = loop /\ answer' = answer
    BY <1>5, Zenon DEF upstream_delivers
  <2>. QED
    BY <2>1, <2>2 DEF Matches, Uncloaked, Forwarded, Receiving
<1>6. ASSUME NEW r \in Queries, upstream_loses(r) PROVE DnsInv'
  BY <1>6 DEF upstream_loses, Matches, Uncloaked, Forwarded, Receiving
<1>7. ASSUME UNCHANGED vars PROVE DnsInv'
  BY <1>7 DEF vars, Matches, Uncloaked, Forwarded, Receiving
<1>. QED
  BY <1>1, <1>2, <1>3, <1>4, <1>5, <1>6, <1>7, Zenon DEF Next

-----------------------------------------------------------------------------
(* What the loop counts and what it answers.                               *)

(* A query is answered and its block counted at most once, since the loop  *)
(* takes every query once and waits for one reply only.                    *)
Sound(a, k) ==
    /\ k.blocked + k.cname_uncloaked <= 1
    /\ a = Nxdomain => k.blocked + k.cname_uncloaked = 1
    /\ a.kind = "reply" => k.blocked + k.cname_uncloaked = 0

Open(q) == answer[q] = NoAnswer /\ count[q].blocked = 0 /\ count[q].cname_uncloaked = 0

CountInv ==
    /\ DnsInv
    /\ served \in SUBSET Queries
    /\ count \in [Queries -> Counts]
    /\ \A q \in Queries : q \notin served => Open(q)
    /\ loop.at # "recv" => loop.q \in served /\ Open(loop.q)
    /\ \A q \in Queries : Sound(answer[q], count[q])

(* A query forwarded into silence waits for no reply but its own. *)
CleanInv ==
    clean /\ loop.at = "udp" =>
        asked \subseteq {loop.q} /\ \A i \in DOMAIN replies : replies[i] = loop.q

(* How a counter record may change. *)
LEMMA CountsChange ==
    ASSUME NEW k \in Counts, NEW n \in Nat
    PROVE  /\ k.query \in Nat /\ k.blocked \in Nat /\ k.report_only \in Nat
           /\ k.cname_uncloaked \in Nat
           /\ [k EXCEPT !.query = k.query + 1, !.blocked = k.blocked + 1] \in Counts
           /\ [k EXCEPT !.query = k.query + 1, !.report_only = k.report_only + n] \in Counts
           /\ [k EXCEPT !.cname_uncloaked = k.cname_uncloaked + 1,
                        !.report_only = k.report_only + n] \in Counts
           /\ [k EXCEPT !.report_only = k.report_only + n] \in Counts
<1>1. /\ k.query \in Nat /\ k.blocked \in Nat /\ k.report_only \in Nat
      /\ k.cname_uncloaked \in Nat
  BY Zenon DEF Counts
<1>2. /\ k.query + 1 \in Nat /\ k.blocked + 1 \in Nat /\ k.report_only + n \in Nat
      /\ k.cname_uncloaked + 1 \in Nat
  BY <1>1
<1>3. \A a, b \in Nat : /\ [k EXCEPT !.query = a, !.blocked = b] \in Counts
                        /\ [k EXCEPT !.query = a, !.report_only = b] \in Counts
                        /\ [k EXCEPT !.cname_uncloaked = a, !.report_only = b] \in Counts
                        /\ [k EXCEPT !.report_only = b] \in Counts
  BY Zenon DEF Counts
<1> QED
  BY <1>1, <1>2, <1>3, Zenon

(* A reply names finitely many reported targets. *)
LEMMA ReportsType ==
    ASSUME NEW r \in Queries
    PROVE  Cardinality(ReportedTargets(r)) \in Nat
<1>0. cname[r] \in Seq(Verdicts)
  BY DnsAssumption, Zenon
<1> DEFINE s == cname[r]
<1>1. DOMAIN s = 1..Len(s) /\ Len(s) \in Nat
  <2> HIDE DEF s
  <2> QED
    BY <1>0 DEF s
<1>2. IsFiniteSet(1..Len(cname[r]))
  BY <1>1, FS_Interval
<1>3. ReportedTargets(r) \in SUBSET (1..Len(cname[r]))
  BY <1>1, Zenon DEF ReportedTargets
<1> QED
  BY <1>2, <1>3, FS_Subset, FS_CardinalityType, Zenon

(* Only the answer and the counters of query q change, to sound values. *)
Settles(q) ==
    /\ count' \in [Queries -> Counts]
    /\ \A p \in Queries : p # q => answer'[p] = answer[p] /\ count'[p] = count[p]
    /\ Sound(answer'[q], count'[q])

(* It does if both become a sound pair. *)
LEMMA SettleForm ==
    ASSUME answer \in [Queries -> Answers], count \in [Queries -> Counts],
           NEW q \in Queries, NEW a, NEW k \in Counts,
           answer' = [answer EXCEPT ![q] = a] \/ (answer' = answer /\ a = answer[q]),
           count' = [count EXCEPT ![q] = k],
           Sound(a, k)
    PROVE  Settles(q) /\ answer'[q] = a /\ count'[q] = k
BY Zenon DEF Settles

(* process_dns_query settles a blocked name and leaves any other open. *)
LEMMA ProcessSettles ==
    ASSUME answer \in [Queries -> Answers], count \in [Queries -> Counts],
           NEW q \in Queries, Open(q), process_dns_query(q)
    PROVE  Settles(q) /\ (verdict[q] # "block" => Open(q)')
<1> DEFINE k == count[q]
<1>0. k \in Counts /\ k.blocked = 0 /\ k.cname_uncloaked = 0 /\ answer[q] = NoAnswer
  BY Zenon DEF Open
<1> HIDE DEF k
<1>1. CASE verdict[q] = "block"
  <2> DEFINE l == [k EXCEPT !.query = k.query + 1, !.blocked = k.blocked + 1]
  <2>1. l \in Counts
    BY <1>0, CountsChange, Zenon
  <2>2. l.blocked = 1 /\ l.cname_uncloaked = 0
    BY <1>0 DEF Counts
  <2>3. answer' = [answer EXCEPT ![q] = Nxdomain] /\ count' = [count EXCEPT ![q] = l]
    BY <1>1, Zenon DEF process_dns_query, k
  <2> HIDE DEF l
  <2>4. Sound(Nxdomain, l)
    BY <2>2 DEF Sound, Nxdomain
  <2> QED
    BY <1>1, <2>1, <2>3, <2>4, SettleForm, Zenon
<1>2. CASE verdict[q] # "block"
  <2> DEFINE n == IF verdict[q] = "report" THEN 1 ELSE 0
             l == [k EXCEPT !.query = k.query + 1, !.report_only = k.report_only + n]
  <2>0. n \in Nat
    BY Zenon
  <2>1. count' = [count EXCEPT ![q] = l] /\ answer' = answer
    BY <1>2, Zenon DEF process_dns_query, k
  <2> HIDE DEF n
  <2>2. l \in Counts
    BY <1>0, <2>0, CountsChange, Zenon
  <2>3. l.blocked = 0 /\ l.cname_uncloaked = 0
    BY <1>0, Zenon DEF Counts
  <2> HIDE DEF l
  <2>4. Sound(NoAnswer, l)
    BY <2>3 DEF Sound, NoAnswer, Nxdomain
  <2>5. Settles(q) /\ answer'[q] = NoAnswer /\ count'[q] = l
    BY <1>0, <2>1, <2>2, <2>4, SettleForm, Zenon
  <2> QED
    BY <2>3, <2>5, Zenon DEF Open
<1> QED
  BY <1>1, <1>2, Zenon

(* A reply in hand settles the query that waits for it, and answers a      *)
(* standard query whose reply it is.                                       *)
LEMMA ReplySettles ==
    ASSUME answer \in [Queries -> Answers], count \in [Queries -> Counts],
           NEW q \in Queries, NEW r \in Queries, Open(q), reply_to_client(q, r)
    PROVE  /\ Settles(q)
           /\ q \in Standard /\ Matches(q, r) => answer'[q] # NoAnswer
<1> DEFINE k == count[q]
           n == Cardinality(ReportedTargets(r))
<1>0. /\ k \in Counts /\ k.blocked = 0 /\ k.cname_uncloaked = 0 /\ answer[q] = NoAnswer
      /\ n \in Nat
  BY ReportsType, Zenon DEF Open
<1> HIDE DEF k, n
<1>1. CASE ~Matches(q, r)
  <2>1. answer' = answer /\ count' = [count EXCEPT ![q] = k]
    BY <1>1, Zenon DEF reply_to_client, k
  <2>2. Sound(NoAnswer, k)
    BY <1>0 DEF Sound, NoAnswer, Nxdomain
  <2> QED
    BY <1>0, <1>1, <2>1, <2>2, SettleForm, Zenon
<1>2. CASE Matches(q, r) /\ Uncloaked(r)
  <2> DEFINE l == [k EXCEPT !.cname_uncloaked = k.cname_uncloaked + 1,
                            !.report_only = k.report_only + n]
  <2>1. l \in Counts
    BY <1>0, CountsChange, Zenon
  <2>2. l.blocked = 0 /\ l.cname_uncloaked = 1
    BY <1>0 DEF Counts
  <2>3. /\ count' = [count EXCEPT ![q] = l]
        /\ \/ answer' = [answer EXCEPT ![q] = Nxdomain]
           \/ q \notin Standard /\ answer' = answer
    BY <1>2, Zenon DEF reply_to_client, k, n
  <2> HIDE DEF l
  <2>4. Sound(Nxdomain, l) /\ Sound(NoAnswer, l) /\ Nxdomain # NoAnswer
    BY <2>2 DEF Sound, Nxdomain, NoAnswer
  <2> QED
    BY <1>0, <2>1, <2>3, <2>4, SettleForm, Zenon
<1>3. CASE Matches(q, r) /\ ~Uncloaked(r)
  <2> DEFINE l == [k EXCEPT !.report_only = k.report_only + n]
  <2>1. l \in Counts
    BY <1>0, CountsChange, Zenon
  <2>2. l.blocked = 0 /\ l.cname_uncloaked = 0
    BY <1>0, Zenon DEF Counts
  <2>3. count' = [count EXCEPT ![q] = l] /\ answer' = [answer EXCEPT ![q] = Forwarded(r)]
    BY <1>3, Zenon DEF reply_to_client, k, n
  <2> HIDE DEF l
  <2>4. Sound(Forwarded(r), l) /\ Forwarded(r) # NoAnswer
    BY <2>2 DEF Sound, Forwarded, Nxdomain, NoAnswer
  <2> QED
    BY <1>0, <2>1, <2>3, <2>4, SettleForm, Zenon
<1> QED
  BY <1>1, <1>2, <1>3, Zenon

(* A round that settles the query it took, and no other, keeps the count. *)
LEMMA SettledCount ==
    ASSUME CountInv, DnsInv', NEW q \in Queries, Settles(q), served' = served \cup {q},
           loop'.at # "recv" => loop'.q = q /\ Open(q)'
    PROVE  CountInv'
<1>1. \A p \in Queries : p \notin served' => Open(p)'
  <2> SUFFICES ASSUME NEW p \in Queries, p \notin served' PROVE Open(p)'
    BY Zenon
  <2>1. p # q /\ Open(p) /\ answer'[p] = answer[p] /\ count'[p] = count[p]
    BY Zenon DEF CountInv, Settles
  <2> QED
    BY <2>1, Zenon DEF Open
<1>2. \A p \in Queries : Sound(answer'[p], count'[p])
  BY Zenon DEF CountInv, Settles
<1>3. count' \in [Queries -> Counts] /\ served' \in SUBSET Queries /\ q \in served'
  BY Zenon DEF CountInv, Settles
<1> QED
  BY <1>1, <1>2, <1>3, Zenon DEF CountInv, Sound, Open

(* A step that touches neither answers nor counters keeps the count. *)
LEMMA QuietCount ==
    ASSUME CountInv, DnsInv', answer' = answer, count' = count, served' = served,
           loop' = loop \/ loop' = Receiving
    PROVE  CountInv'
BY DEF CountInv, Open, Sound, Receiving

(* A fresh filter has counted nothing. *)
LEMMA CountInvInit == Init => CountInv /\ CleanInv
<1> SUFFICES ASSUME Init PROVE CountInv /\ CleanInv
  BY Zenon
<1>1. DnsInv
  BY DnsInvInit, Zenon
<1>2. count \in [Queries -> Counts]
  BY Zenon DEF Init, NoCounts, Counts
<1>3. \A q \in Queries : Open(q) /\ Sound(answer[q], count[q])
  BY DEF Init, NoCounts, Open, Sound, NoAnswer, Nxdomain
<1> QED
  BY <1>1, <1>2, <1>3, Zenon DEF Init, CountInv, CleanInv, Receiving

(* Every step of the loop and of the network keeps both. *)
LEMMA CountInvStep == CountInv /\ [Next]_vars => CountInv'
<1> SUFFICES ASSUME CountInv, [Next]_vars PROVE CountInv'
  BY Zenon
<1>0. DnsInv /\ DnsInv'
  BY DnsInvStep, Zenon DEF CountInv
<1>1. ASSUME NEW q \in Queries, recv_query(q) PROVE CountInv'
  <2>1. Open(q) /\ process_dns_query(q) /\ answer \in [Queries -> Answers]
        /\ count \in [Queries -> Counts]
    BY <1>1, Zenon DEF recv_query, CountInv, DnsInv
  <2>2. Settles(q) /\ (verdict[q] # "block" => Open(q)')
    BY <2>1, ProcessSettles, Zenon
  <2>3. served' = served \cup {q} /\ (loop'.at # "recv" => loop'.q = q /\ verdict[q] # "block")
    BY <1>1 DEF recv_query, Receiving
  <2> QED
    BY <1>0, <2>2, <2>3, SettledCount, Zenon
<1>2. ASSUME recv_reply PROVE CountInv'
  <2>1. loop.q \in Queries /\ Head(replies) \in Queries /\ reply_to_client(loop.q, Head(replies))
    BY <1>0, <1>2 DEF recv_reply, DnsInv, Receiving
  <2>2. Open(loop.q) /\ loop.q \in served /\ answer \in [Queries -> Answers]
        /\ count \in [Queries -> Counts]
    BY <1>2, Zenon DEF recv_reply, CountInv, DnsInv
  <2>3. Settles(loop.q)
    BY <2>1, <2>2, ReplySettles, Zenon
  <2>4. served' = served \cup {loop.q} /\ loop'.at = "recv"
    BY <1>2, <2>2, Zenon DEF recv_reply, Receiving
  <2> QED
    BY <1>0, <2>1, <2>3, <2>4, SettledCount, Zenon
<1>3. ASSUME doh_query PROVE CountInv'
  <2>1. loop.q \in Queries /\ reply_to_client(loop.q, loop.q)
    BY <1>0, <1>3 DEF doh_query, DnsInv, Receiving
  <2>2. Open(loop.q) /\ loop.q \in served /\ answer \in [Queries -> Answers]
        /\ count \in [Queries -> Counts]
    BY <1>3, Zenon DEF doh_query, CountInv, DnsInv
  <2>3. Settles(loop.q)
    BY <2>1, <2>2, ReplySettles, Zenon
  <2>4. served' = served \cup {loop.q} /\ loop'.at = "recv"
    BY <1>3, <2>2, Zenon DEF doh_query, Receiving
  <2> QED
    BY <1>0, <2>1, <2>3, <2>4, SettledCount, Zenon
<1>4. ASSUME give_up \/ (\E r \in Queries : upstream_delivers(r) \/ upstream_loses(r))
             \/ UNCHANGED vars
      PROVE  CountInv'
  <2>1. answer' = answer /\ count' = count /\ served' = served /\ (loop' = loop \/ loop' = Receiving)
    BY <1>4, Zenon DEF give_up, upstream_delivers, upstream_loses, vars
  <2> QED
    BY <1>0, <2>1, QuietCount, Zenon
<1> QED
  BY <1>1, <1>2, <1>3, <1>4, Zenon DEF Next

(* Until the query forwarded into silence is over, its own replies are the *)
(* only ones there can be.                                                 *)
LEMMA CleanInvStep == DnsInv /\ CleanInv /\ [Next]_vars => CleanInv'
<1> SUFFICES ASSUME DnsInv, CleanInv, [Next]_vars, clean', loop'.at = "udp"
             PROVE  asked' \subseteq {loop'.q} /\ \A i \in DOMAIN replies' : replies'[i] = loop'.q
  BY Zenon DEF CleanInv
<1>1. ASSUME NEW q \in Queries, recv_query(q)
      PROVE  asked' \subseteq {loop'.q} /\ \A i \in DOMAIN replies' : replies'[i] = loop'.q
  <2>0. loop' # Receiving
    BY DEF Receiving
  <2>1. /\ loop' = [at |-> IF doh THEN "doh" ELSE "udp", q |-> q] /\ asked' = asked \cup {q}
        /\ clean' = (asked = {} /\ replies = <<>>) /\ replies' = replies
    BY <1>1, <2>0, Zenon DEF recv_query
  <2>2. asked = {} /\ replies = <<>>
    BY <2>1, Zenon
  <2> QED
    BY <2>1, <2>2
<1>2. CASE recv_reply \/ doh_query \/ give_up
  <2>1. loop' = Receiving
    BY <1>2, Zenon DEF recv_reply, doh_query, give_up
  <2> QED
    BY <2>1, Zenon DEF Receiving
<1>3. ASSUME NEW r \in Queries, upstream_delivers(r)
      PROVE  asked' \subseteq {loop'.q} /\ \A i \in DOMAIN replies' : replies'[i] = loop'.q
  <2>1. /\ loop' = loop /\ asked \subseteq {loop.q}
        /\ \A i \in DOMAIN replies : replies[i] = loop.q
    BY <1>3, Zenon DEF upstream_delivers, CleanInv
  <2>2. \A i \in DOMAIN replies' : replies'[i] = r \/ (i \in DOMAIN replies /\ replies'[i] = replies[i])
    BY <1>3 DEF upstream_delivers, DnsInv
  <2>3. r \in asked /\ asked' \subseteq asked
    BY <1>3, Zenon DEF upstream_delivers
  <2>4. r = loop.q
    BY <2>1, <2>3, Zenon
  <2>5. \A i \in DOMAIN replies' : replies'[i] = loop.q
    BY <2>1, <2>2, <2>4, Zenon
  <2> QED
    BY <2>1, <2>3, <2>5, Zenon
<1>4. CASE (\E r \in Queries : upstream_loses(r)) \/ UNCHANGED vars
  BY <1>4, Zenon DEF upstream_loses, vars, CleanInv
<1> QED
  BY <1>1, <1>2, <1>3, <1>4, Zenon DEF Next

(* The step that ends the wait of a query forwarded into silence. *)
LEMMA CleanAnswer ==
    ASSUME CountInv, CleanInv, Next, loop.at = "udp", loop'.at = "recv", replies' # replies,
           clean, loop.q \in Standard \cap Readable
    PROVE  answer'[loop.q] # NoAnswer
<1>1. recv_reply
  BY Zenon DEF Next, recv_query, doh_query, give_up, upstream_delivers, upstream_loses
<1>2. loop.q \in Queries /\ Head(replies) \in Queries /\ reply_to_client(loop.q, Head(replies))
  BY <1>1 DEF recv_reply, CountInv, DnsInv, Receiving
<1>3. Open(loop.q) /\ answer \in [Queries -> Answers] /\ count \in [Queries -> Counts]
  BY <1>1, Zenon DEF recv_reply, CountInv, DnsInv
<1>4. 1 \in DOMAIN replies /\ Head(replies) = replies[1]
  BY <1>1 DEF recv_reply, CountInv, DnsInv
<1>5. Head(replies) = loop.q
  BY <1>4, Zenon DEF CleanInv
<1>6. Matches(loop.q, Head(replies))
  BY <1>5, Zenon DEF Matches
<1> QED
  BY <1>2, <1>3, <1>6, ReplySettles, Zenon

-----------------------------------------------------------------------------
(* What the invariant shows.                                               *)

(* An answer that is a reply matches its query. *)
LEMMA DnsInvAnswers == DnsInv => AnswersItsQuestion
<1> SUFFICES ASSUME DnsInv, NEW q \in Standard, answer[q].kind = "reply"
             PROVE  /\ answer[q].to \in Readable
                    /\ id[answer[q].to] = id[q]
                    /\ answer[q].to \in Echoed => question[answer[q].to] = question[q]
  BY Zenon DEF AnswersItsQuestion
<1>1. q \in Queries
  BY DnsAssumption, Zenon
<1>2. PICK r \in Queries : answer[q] = Forwarded(r)
  BY <1>1 DEF DnsInv, Answers, NoAnswer, Nxdomain
<1>3. Matches(q, r) /\ answer[q].to = r
  BY <1>1, <1>2 DEF DnsInv, Forwarded
<1>. QED
  BY <1>3, Zenon DEF Matches

(* And names no blocked CNAME target. *)
LEMMA DnsInvBlocks == DnsInv => BlockedNeverPasses
<1> SUFFICES ASSUME DnsInv, NEW q \in Queries
             PROVE  /\ answer[q].kind = "reply" => ~Uncloaked(answer[q].to)
                    /\ verdict[q] = "block" =>
                          q \notin asked \cup {replies[i] : i \in DOMAIN replies}
  BY Zenon DEF BlockedNeverPasses
<1>1. ASSUME answer[q].kind = "reply" PROVE ~Uncloaked(answer[q].to)
  <2>1. PICK r \in Queries : answer[q] = Forwarded(r)
    BY <1>1 DEF DnsInv, Answers, NoAnswer, Nxdomain
  <2>. QED
    BY <2>1 DEF DnsInv, Forwarded
<1>. QED
  BY <1>1, Zenon DEF DnsInv

(* The UDP loop by itself, without the server beside it, answers no client *)
(* with another's reply or with a blocked name, and counts every NXDOMAIN  *)
(* once.                                                                   *)
THEOREM LoopIsSound == Spec => [](AnswersItsQuestion /\ BlockedNeverPasses /\ BlocksCounted)
<1>1. CountInv => BlocksCounted /\ DnsInv
  BY Zenon DEF CountInv, BlocksCounted, Sound
<1>2. Init => CountInv
  BY CountInvInit, Zenon
<1>. QED
  BY <1>1, <1>2, CountInvStep, DnsInvAnswers, DnsInvBlocks, PTL DEF Spec

-----------------------------------------------------------------------------
(* The two front ends. *)

(* What the entries of DohStats add up to. The sum is a fold that picks    *)
(* the clients one by one, so that what it returns takes inductions over   *)
(* the number of clients and over the sets of clients.                     *)

(* A set of numbers has a least one. *)
LEMMA LeastNatural ==
    ASSUME NEW T \in SUBSET Nat, T # {}
    PROVE  \E n \in T : \A m \in T : n <= m
<1> DEFINE Less == {ss \in Nat \X Nat : ss[1] < ss[2]}
<1>1. IsWellFoundedOn(Less, Nat)
  BY NatLessThanWellFounded, Zenon DEF OpToRel
<1> HIDE DEF Less
<1>2. PICK n \in T : \A m \in T : ~ (<<m, n>> \in Less)
  BY <1>1, WFMin, Zenon
<1>3. ASSUME NEW m \in T PROVE ~(m < n)
  <2>1. m \in Nat /\ n \in Nat
    BY Zenon
  <2>2. m < n => <<m, n>> \in Less
    BY <2>1, Zenon DEF Less
  <2> QED
    BY <1>2, <2>2, Zenon
<1> QED
  BY <1>3

(* The client that the fold takes next. *)
Pick(s) == CHOOSE x \in s : TRUE

(* One step of the fold, and the equation that defines it. *)
Sums(e, g, s) == IF s = {} THEN 0 ELSE e[Pick(s)].query_total + g[s \ {Pick(s)}]

SumOn(e, S) == CHOOSE g : g = [s \in SUBSET S |-> Sums(e, g, s)]

(* It is one of the set. *)
LEMMA PickIn == \A s : s # {} => Pick(s) \in s
BY Zenon DEF Pick

(* Counted is this fold. *)
LEMMA CountedIsSum == ASSUME NEW e PROVE Counted(e) = SumOn(e, DOMAIN e)[DOMAIN e]
BY Zenon DEF Counted, MapThenSumSet, MapThenFoldSet, SumOn, Sums, Pick

(* The equation of the fold. *)
FoldEquation(e, S) ==
    \A s \in SUBSET S :
        /\ s = {} => SumOn(e, S)[s] = 0
        /\ s # {} => SumOn(e, S)[s] = e[Pick(s)].query_total + SumOn(e, S)[s \ {Pick(s)}]

(* The fold exists: it is built up by the size of the subsets. *)
LEMMA SumExists ==
    ASSUME NEW e, NEW S, IsFiniteSet(S)
    PROVE  FoldEquation(e, S)
<1> DEFINE Upto(n) == {s \in SUBSET S : Cardinality(s) <= n}
           Has(n) == \E g : g = [s \in Upto(n) |-> Sums(e, g, s)]
           Bad == {n \in Nat : ~Has(n)}
<1>1. \A s \in SUBSET S : IsFiniteSet(s) /\ Cardinality(s) \in Nat
  BY FS_Subset, FS_CardinalityType, Zenon
<1>2. \A s \in SUBSET S : s # {} => /\ Pick(s) \in s
                                    /\ s \ {Pick(s)} \in SUBSET S
                                    /\ Cardinality(s \ {Pick(s)}) = Cardinality(s) - 1
                                    /\ Cardinality(s) >= 1
  <2> SUFFICES ASSUME NEW s \in SUBSET S, s # {}
               PROVE  /\ Pick(s) \in s
                      /\ s \ {Pick(s)} \in SUBSET S
                      /\ Cardinality(s \ {Pick(s)}) = Cardinality(s) - 1
                      /\ Cardinality(s) >= 1
    BY Zenon
  <2>1. Pick(s) \in s
    BY PickIn, Zenon
  <2>2. IsFiniteSet(s) /\ Cardinality(s) \in Nat
    BY <1>1, Zenon
  <2>3. Cardinality(s \ {Pick(s)}) = Cardinality(s) - 1
    BY <2>1, <2>2, FS_RemoveElement, Zenon
  <2>4. Cardinality(s) # 0
    BY <2>2, FS_EmptySet, Zenon
  <2> QED
    BY <2>1, <2>2, <2>3, <2>4
<1>3. Has(0)
  <2> DEFINE g == [s \in Upto(0) |-> 0]
  <2>1. \A s \in Upto(0) : s = {}
    <3> SUFFICES ASSUME NEW s \in SUBSET S, Cardinality(s) <= 0 PROVE s = {}
      BY Zenon
    <3>1. Cardinality(s) \in Nat /\ (s # {} => Cardinality(s) >= 1)
      BY <1>1, <1>2, Zenon
    <3> QED
      BY <3>1
  <2>2. \A s \in Upto(0) : Sums(e, g, s) = 0
    BY <2>1, Zenon DEF Sums
  <2>3. g = [s \in Upto(0) |-> Sums(e, g, s)]
    BY <2>2, Zenon
  <2> QED
    BY <2>3, Zenon
<1>4. ASSUME NEW m \in Nat, Has(m) PROVE Has(m + 1)
  <2>1. PICK g : g = [s \in Upto(m) |-> Sums(e, g, s)]
    BY <1>4, Zenon
  <2> DEFINE h == [s \in Upto(m + 1) |-> Sums(e, g, s)]
  <2>2. \A s \in Upto(m + 1) : s # {} => s \ {Pick(s)} \in Upto(m) /\ s \ {Pick(s)} \in Upto(m + 1)
    BY <1>1, <1>2
  <2>3. \A s \in Upto(m) : s \in Upto(m + 1) /\ h[s] = g[s]
    <3>1. \A s \in Upto(m) : s \in Upto(m + 1)
      BY <1>1
    <3>2. \A s \in Upto(m) : g[s] = Sums(e, g, s)
      BY <2>1, Zenon
    <3> QED
      BY <3>1, <3>2, Zenon
  <2>4. \A s \in Upto(m + 1) : Sums(e, g, s) = Sums(e, h, s)
    <3> HIDE DEF h
    <3> QED
      BY <2>2, <2>3, Zenon DEF Sums
  <2>5. h = [s \in Upto(m + 1) |-> Sums(e, h, s)]
    <3>1. \A s \in Upto(m + 1) : h[s] = Sums(e, h, s)
      BY <2>4, Zenon
    <3> QED
      BY <3>1, Zenon
  <2> QED
    BY <2>5, Zenon
<1>5. \A n \in Nat : Has(n)
  <2> HIDE DEF Has
  <2>1. SUFFICES ASSUME Bad # {} PROVE FALSE
    BY Zenon
  <2>2. PICK n \in Bad : \A m \in Bad : n <= m
    BY <2>1, LeastNatural, Zenon
  <2>3. n # 0 /\ n \in Nat /\ ~Has(n)
    BY <1>3, <2>2, Zenon
  <2>4. n - 1 \in Nat /\ ~(n <= n - 1) /\ n = (n - 1) + 1
    BY <2>3
  <2>5. n - 1 \notin Bad
    BY <2>2, <2>4, Zenon
  <2>6. Has(n - 1)
    BY <2>4, <2>5, Zenon
  <2> QED
    BY <1>4, <2>3, <2>4, <2>6, Zenon
<1>6. Cardinality(S) \in Nat /\ Upto(Cardinality(S)) = SUBSET S
  BY <1>1, FS_CardinalityType, FS_Subset, Zenon
<1>7. \E g : g = [s \in SUBSET S |-> Sums(e, g, s)]
  BY <1>5, <1>6, Zenon
<1> DEFINE G == SumOn(e, S)
<1>8. G = [s \in SUBSET S |-> Sums(e, G, s)]
  BY <1>7, Zenon DEF SumOn
<1> HIDE DEF G, Upto, Has, Bad
<1>9. \A s \in SUBSET S : G[s] = Sums(e, G, s)
  BY <1>8, Zenon
<1>10. ASSUME NEW s \in SUBSET S
       PROVE  /\ s = {} => G[s] = 0
              /\ s # {} => G[s] = e[Pick(s)].query_total + G[s \ {Pick(s)}]
  BY <1>9, Zenon DEF Sums
<1> QED
  BY <1>10, Zenon DEF FoldEquation, G

(* Of a collection of subsets of a finite set, one contains no other. *)
LEMMA LeastSubset ==
    ASSUME NEW S, IsFiniteSet(S), NEW T \in SUBSET (SUBSET S), T # {}
    PROVE  \E s \in T : \A r \in T : ~(r \subseteq s /\ r # s)
<1>1. IsWellFoundedOn(StrictSubsetOrdering(S), SUBSET S)
  BY FS_StrictSubsetOrderingWellFounded, FS_FiniteSubsetsOfFinite, Zenon
<1>2. PICK s \in T : \A r \in T : ~(<<r, s>> \in StrictSubsetOrdering(S))
  BY <1>1, WFMin, Zenon
<1>3. \A r \in T : r \subseteq s /\ r # s => <<r, s>> \in StrictSubsetOrdering(S)
  <2> SUFFICES ASSUME NEW r \in T, r \subseteq s, r # s
               PROVE  <<r, s>> \in StrictSubsetOrdering(S)
    BY Zenon
  <2>1. r \in SUBSET S /\ s \in SUBSET S
    BY Zenon
  <2>2. <<r, s>> \in (SUBSET S) \X (SUBSET S)
    BY <2>1, Zenon
  <2> QED
    BY <2>2, Zenon DEF StrictSubsetOrdering
<1>4. \A r \in T : ~(r \subseteq s /\ r # s)
  BY <1>2, <1>3, Zenon
<1> QED
  BY <1>4, Zenon

(* The sum does not depend on the order in which the fold takes the        *)
(* elements.                                                               *)
LEMMA SumTakes ==
    ASSUME NEW e, NEW S, IsFiniteSet(S), \A c \in S : e[c].query_total \in Nat
    PROVE  \A s \in SUBSET S :
              /\ SumOn(e, S)[s] \in Nat
              /\ \A c \in s : SumOn(e, S)[s] = e[c].query_total + SumOn(e, S)[s \ {c}]
<1> DEFINE G == SumOn(e, S)
           P(s) == G[s] \in Nat /\ \A c \in s : G[s] = e[c].query_total + G[s \ {c}]
           Bad == {s \in SUBSET S : ~P(s)}
<1>1. ASSUME NEW s \in SUBSET S
      PROVE  /\ s = {} => G[s] = 0
             /\ s # {} => G[s] = e[Pick(s)].query_total + G[s \ {Pick(s)}]
  <2>1. FoldEquation(e, S)
    BY SumExists, Zenon
  <2> QED
    BY <2>1, Zenon DEF FoldEquation
<1> HIDE DEF G
<1>2. SUFFICES ASSUME Bad # {} PROVE FALSE
  BY Zenon DEF G
<1> HIDE DEF P
<1>3. PICK s \in Bad : \A r \in Bad : ~(r \subseteq s /\ r # s)
  <2>1. Bad \in SUBSET (SUBSET S)
    BY Zenon
  <2> HIDE DEF Bad
  <2> QED
    BY <1>2, <2>1, LeastSubset
<1>4. s \in SUBSET S /\ ~P(s)
  BY <1>3, Zenon
<1>5. \A r \in SUBSET S : r \subseteq s /\ r # s => P(r)
  BY <1>3, Zenon
<1> HIDE DEF Bad
<1>6. s # {}
  <2>1. s = {} => G[s] = 0
    BY <1>1, <1>4, Zenon
  <2> QED
    BY <1>4, <2>1 DEF P
<1> DEFINE x == Pick(s)
<1>7. x \in s /\ x \in S
  BY <1>4, <1>6, PickIn, Zenon
<1>8. G[s] = e[x].query_total + G[s \ {x}]
  BY <1>1, <1>4, <1>6, Zenon
<1> HIDE DEF x
<1>9. \A c \in s : /\ P(s \ {c}) /\ e[c].query_total \in Nat
                   /\ \A d \in s : d # c => P((s \ {c}) \ {d}) /\ d \in s \ {c}
  <2> SUFFICES ASSUME NEW c \in s
               PROVE  /\ P(s \ {c}) /\ e[c].query_total \in Nat
                      /\ \A d \in s : d # c => P((s \ {c}) \ {d}) /\ d \in s \ {c}
    BY Zenon
  <2>1. s \ {c} \in SUBSET S /\ s \ {c} \subseteq s /\ s \ {c} # s
    BY <1>4, Zenon
  <2>2. \A d \in s : (s \ {c}) \ {d} \in SUBSET S /\ (s \ {c}) \ {d} \subseteq s /\ (s \ {c}) \ {d} # s
    BY <1>4, Zenon
  <2> QED
    BY <1>4, <1>5, <2>1, <2>2, Zenon
<1>10. G[s \ {x}] \in Nat /\ e[x].query_total \in Nat
  BY <1>7, <1>9, Zenon DEF P
<1>11. ASSUME NEW c \in s, c # x PROVE G[s] = e[c].query_total + G[s \ {c}]
  <2>1. (s \ {x}) \ {c} = (s \ {c}) \ {x}
    BY Zenon
  <2>2. G[s \ {x}] = e[c].query_total + G[(s \ {x}) \ {c}]
    BY <1>7, <1>9, <1>11, Zenon DEF P
  <2>3. G[s \ {c}] = e[x].query_total + G[(s \ {c}) \ {x}]
    BY <1>7, <1>9, <1>11, Zenon DEF P
  <2>4. G[(s \ {x}) \ {c}] \in Nat /\ e[c].query_total \in Nat
    BY <1>7, <1>9, <1>11, Zenon DEF P
  <2> DEFINE k == G[(s \ {x}) \ {c}]
  <2>5. G[s \ {c}] = e[x].query_total + k
    BY <2>1, <2>3, Zenon
  <2> HIDE DEF k
  <2> QED
    BY <1>8, <1>10, <2>2, <2>4, <2>5 DEF k
<1>12. G[s] \in Nat
  BY <1>8, <1>10
<1> QED
  BY <1>4, <1>8, <1>11, <1>12, Zenon DEF P

(* It depends on the entries that are summed only. *)
LEMMA SumSame ==
    ASSUME NEW e, NEW d, NEW S, NEW R, IsFiniteSet(S), IsFiniteSet(R), NEW D,
           D \subseteq S, D \subseteq R, \A c \in D : e[c] = d[c]
    PROVE  SumOn(e, S)[D] = SumOn(d, R)[D]
<1> DEFINE G == SumOn(e, S)
           H == SumOn(d, R)
           Bad == {s \in SUBSET D : G[s] # H[s]}
<1>1. ASSUME NEW s \in SUBSET S
      PROVE  /\ s = {} => G[s] = 0
             /\ s # {} => G[s] = e[Pick(s)].query_total + G[s \ {Pick(s)}]
  <2>1. FoldEquation(e, S)
    BY SumExists, Zenon
  <2> QED
    BY <2>1, Zenon DEF FoldEquation
<1>2. ASSUME NEW s \in SUBSET R
      PROVE  /\ s = {} => H[s] = 0
             /\ s # {} => H[s] = d[Pick(s)].query_total + H[s \ {Pick(s)}]
  <2>1. FoldEquation(d, R)
    BY SumExists, Zenon
  <2> QED
    BY <2>1, Zenon DEF FoldEquation
<1> HIDE DEF G, H
<1>3. SUFFICES ASSUME Bad # {} PROVE FALSE
  <2>1. Bad = {} => G[D] = H[D]
    BY Zenon
  <2> QED
    BY <2>1, Zenon DEF G, H
<1>4. PICK s \in Bad : \A r \in Bad : ~(r \subseteq s /\ r # s)
  <2>1. Bad \in SUBSET (SUBSET D) /\ IsFiniteSet(D)
    BY FS_Subset, Zenon
  <2> HIDE DEF Bad
  <2> QED
    BY <1>3, <2>1, LeastSubset
<1>5. s \in SUBSET D /\ G[s] # H[s] /\ s \in SUBSET S /\ s \in SUBSET R
  BY <1>4, Zenon
<1>6. s # {}
  BY <1>1, <1>2, <1>5, Zenon
<1>7. Pick(s) \in s
  BY <1>6, PickIn, Zenon
<1>8. G[s \ {Pick(s)}] = H[s \ {Pick(s)}]
  <2>1. s \ {Pick(s)} \in SUBSET D /\ s \ {Pick(s)} \subseteq s /\ s \ {Pick(s)} # s
    BY <1>5, <1>7, Zenon
  <2> QED
    BY <1>4, <2>1, Zenon
<1>9. e[Pick(s)].query_total = d[Pick(s)].query_total
  BY <1>5, <1>7, Zenon
<1> QED
  BY <1>1, <1>2, <1>5, <1>6, <1>8, <1>9, Zenon

(* One more query of client c counts for one. *)
LEMMA CountedRecord ==
    ASSUME NEW e, IsFiniteSet(DOMAIN e), \A d \in DOMAIN e : e[d].query_total \in Nat,
           NEW c, NEW t
    PROVE  /\ Counted(e) \in Nat
           /\ Counted(Record(e, c, t)) = Counted(e) + 1
<1> DEFINE D == DOMAIN e
           r == Record(e, c, t)
           S == D \cup {c}
<1>1. /\ DOMAIN r = S
      /\ r[c].query_total = IF c \in D THEN e[c].query_total + 1 ELSE 1
      /\ \A d \in D : d # c => r[d] = e[d]
  BY DEF Record
<1> HIDE DEF r
<1>2. IsFiniteSet(S) /\ \A d \in S : r[d].query_total \in Nat
  <2>1. IsFiniteSet(S)
    BY FS_AddElement, Zenon
  <2> QED
    BY <1>1, <2>1
<1>3. Counted(e) = SumOn(e, D)[D] /\ Counted(r) = SumOn(r, S)[S]
  BY <1>1, CountedIsSum, Zenon
<1>4. SumOn(r, S)[S] = r[c].query_total + SumOn(r, S)[S \ {c}]
  <2>1. S \in SUBSET S /\ c \in S
    BY Zenon
  <2> HIDE DEF S
  <2> QED
    BY <1>2, <2>1, SumTakes
<1>5. SumOn(r, S)[D \ {c}] = SumOn(e, D)[D \ {c}]
  <2>1. \A d \in D \ {c} : r[d] = e[d]
    BY <1>1, Zenon
  <2> QED
    BY <1>2, <2>1, SumSame
<1>6. SumOn(e, D)[D] \in Nat /\ SumOn(e, D)[D \ {c}] \in Nat
  BY SumTakes, Zenon
<1>7. S \ {c} = D \ {c}
  BY Zenon
<1> DEFINE k == SumOn(e, D)[D \ {c}]
<1>8. Counted(r) = r[c].query_total + k /\ k \in Nat
  BY <1>3, <1>4, <1>5, <1>6, <1>7, Zenon
<1>9. CASE c \in D
  <2>1. Counted(e) = e[c].query_total + k /\ e[c].query_total \in Nat
    <3>1. D \in SUBSET D /\ IsFiniteSet(D) /\ \A d \in D : e[d].query_total \in Nat
      BY Zenon
    <3> HIDE DEF D
    <3>2. SumOn(e, D)[D] = e[c].query_total + SumOn(e, D)[D \ {c}]
      BY <1>9, <3>1, SumTakes
    <3> QED
      BY <1>3, <1>9, <3>1, <3>2, Zenon
  <2>2. r[c].query_total = e[c].query_total + 1
    BY <1>1, <1>9, Zenon
  <2> HIDE DEF k
  <2> QED
    BY <1>8, <2>1, <2>2 DEF r
<1>10. CASE c \notin D
  <2>1. Counted(e) = k
    <3>1. D \ {c} = D
      BY <1>10, Zenon
    <3> QED
      BY <1>3, <3>1, Zenon
  <2>2. r[c].query_total = 1
    BY <1>1, <1>10, Zenon
  <2> HIDE DEF k
  <2> QED
    BY <1>8, <2>1, <2>2 DEF r
<1> QED
  BY <1>9, <1>10, Zenon
-----------------------------------------------------------------------------
(* The DNS-over-HTTPS server.                                              *)

(* Who may get which reply: the upstream owes replies to the ports of      *)
(* requests that are over or that wait at that port, so that the socket a  *)
(* request waits at can only bring its own reply or that of a request      *)
(* that was over when the socket was bound.                                *)
SocketInv ==
    /\ req \in [Requests -> Tasks]
    /\ page \in [Requests -> Pages]
    /\ owed \in SUBSET [to : Requests, port : Ports]
    /\ older \in [Requests -> SUBSET Requests]
    /\ \A m \in owed :
          req[m.to].at = "closed" \/ (req[m.to].at = "udp" /\ req[m.to].port = m.port)
    /\ \A q \in Requests : req[q].at = "udp" =>
          \A m \in owed : m.port = req[q].port => m.to = q \/ m.to \in older[q]
    /\ \A q \in Requests : page[q].kind = "reply" => req[q].at = "closed"
    /\ ServedItsOwn

Recording == {q \in Requests : At(q, "record")}

(* No entry is older than what the client asked last by more than MaxLag.  *)
Fresh(e, ask) == \A c \in DOMAIN e : ask[c] <= e[c].last_seen + MaxLag

(* The clients that are Recent at time n have an entry. *)
Present(e, ask, n) ==
    \A c \in Clients : ask[c] # -1 /\ n + MaxLag <= ask[c] + MaxAge => c \in DOMAIN e

(* What the statistics hold: an entry is at most MaxLag behind what its    *)
(* client asked last, and a request on its way to the lock at most MaxLag  *)
(* behind the clock; the totals add up.                                    *)
StatInv ==
    /\ now \in 0..MaxNow
    /\ total \in Nat
    /\ dropped \in Int
    /\ clients \in [DOMAIN clients -> Entries]
    /\ DOMAIN clients \subseteq Clients
    /\ IsFiniteSet(DOMAIN clients)
    /\ lastAsk \in [Clients -> {-1} \cup 0..MaxNow]
    /\ \A q \in Recording : req[q].time \in 0..now /\ now <= req[q].time + MaxLag
    /\ \A c \in Clients : lastAsk[c] <= now
    /\ Fresh(clients, lastAsk)
    /\ Present(clients, lastAsk, now)
    /\ IsFiniteSet(Recording)
    /\ total = Counted(clients) + dropped + Cardinality(Recording)

ServerInv ==
    /\ front \in {"udp", "https"}
    /\ DnsInv
    /\ front = "udp" => CountInv
    /\ CleanInv
    /\ SocketInv
    /\ StatInv

(* A step that sends no page. *)
LEMMA PagesKept ==
    ASSUME ServedItsOwn, page' = page, older' = older
    PROVE  ServedItsOwn'
<1> SUFFICES ASSUME NEW r \in Requests, page[r].kind = "reply"
             PROVE  /\ page[r].to = r \/ page[r].to \in older[r]
                    /\ r \in Standard => BlockedTargets(page[r].to) = {}
  BY Zenon DEF ServedItsOwn, BlockedTargets
<1> QED
  BY Zenon DEF ServedItsOwn

(* A request that waits at no socket goes on. *)
LEMMA TaskMoves ==
    ASSUME SocketInv, NEW q \in Requests, NEW t \in Tasks,
           req[q].at \notin {"udp", "closed"}, t.at # "udp",
           req' = [req EXCEPT ![q] = t], page' = page, owed' = owed, older' = older
    PROVE  SocketInv'
<1>1. req' \in [Requests -> Tasks] /\ req'[q] = t /\ \A r \in Requests : r # q => req'[r] = req[r]
  BY Zenon DEF SocketInv
<1>2. \A m \in owed : m.to \in Requests /\ m.to # q
  BY Zenon DEF SocketInv
<1>3. \A m \in owed : req'[m.to].at = "closed" \/ (req'[m.to].at = "udp" /\ req'[m.to].port = m.port)
  BY <1>1, <1>2, Zenon DEF SocketInv
<1>4. \A r \in Requests : req'[r].at = "udp" =>
         \A m \in owed : m.port = req'[r].port => m.to = r \/ m.to \in older[r]
  BY <1>1 DEF SocketInv
<1>5. \A r \in Requests : page[r].kind = "reply" => req'[r].at = "closed"
  BY <1>1, Zenon DEF SocketInv
<1>6. ServedItsOwn'
  BY PagesKept, Zenon DEF SocketInv
<1> QED
  BY <1>1, <1>3, <1>4, <1>5, <1>6, Zenon DEF SocketInv

(* The answer p is one the client of q may get. *)
OwnPage(q, p) ==
    p.kind = "reply" => /\ p.to = q \/ p.to \in older[q]
                        /\ q \in Standard => BlockedTargets(p.to) = {}

(* The task of a request that is over. *)
LEMMA ClosedTask ==
    /\ [NewReq EXCEPT !.at = "closed"] \in Tasks
    /\ [NewReq EXCEPT !.at = "closed"].at = "closed"
BY ServerAssumption DEF NewReq, Tasks

(* A request is answered. *)
LEMMA TaskCloses ==
    ASSUME SocketInv, NEW q \in Requests, NEW p \in Pages, Close(q, p), OwnPage(q, p),
           owed' \subseteq owed, older' = older
    PROVE  SocketInv'
<1> DEFINE t == [NewReq EXCEPT !.at = "closed"]
<1>0. t \in Tasks /\ t.at = "closed" /\ req' = [req EXCEPT ![q] = t] /\ page' = [page EXCEPT ![q] = p]
  BY ClosedTask, Zenon DEF Close
<1> HIDE DEF t
<1>1. req' \in [Requests -> Tasks] /\ req'[q] = t /\ \A r \in Requests : r # q => req'[r] = req[r]
  BY <1>0, Zenon DEF SocketInv
<1>2. page' \in [Requests -> Pages] /\ page'[q] = p /\ \A r \in Requests : r # q => page'[r] = page[r]
  BY <1>0, Zenon DEF SocketInv
<1>3. \A m \in owed' : req'[m.to].at = "closed" \/ (req'[m.to].at = "udp" /\ req'[m.to].port = m.port)
  <2> SUFFICES ASSUME NEW m \in owed'
               PROVE  req'[m.to].at = "closed" \/ (req'[m.to].at = "udp" /\ req'[m.to].port = m.port)
    BY Zenon
  <2>1. m \in owed /\ m.to \in Requests
    BY DEF SocketInv
  <2>2. CASE m.to = q
    BY <1>0, <1>1, <2>2, Zenon
  <2>3. CASE m.to # q
    BY <1>1, <2>1, <2>3, Zenon DEF SocketInv
  <2> QED
    BY <2>2, <2>3, Zenon
<1>4. \A r \in Requests : req'[r].at = "udp" =>
         \A m \in owed' : m.port = req'[r].port => m.to = r \/ m.to \in older[r]
  BY <1>0, <1>1, Zenon DEF SocketInv
<1>5. \A r \in Requests : page'[r].kind = "reply" => req'[r].at = "closed"
  BY <1>0, <1>1, <1>2, Zenon DEF SocketInv
<1>6. ServedItsOwn'
  <2> SUFFICES ASSUME NEW r \in Requests, page'[r].kind = "reply"
               PROVE  /\ page'[r].to = r \/ page'[r].to \in older'[r]
                      /\ r \in Standard => BlockedTargets(page'[r].to) = {}
    BY Zenon DEF ServedItsOwn, BlockedTargets
  <2>1. CASE r = q
    BY <1>2, <2>1, Zenon DEF OwnPage
  <2>2. CASE r # q
    BY <1>2, <2>2, Zenon DEF SocketInv, ServedItsOwn
  <2> QED
    BY <2>1, <2>2, Zenon
<1> QED
  BY <1>1, <1>2, <1>3, <1>4, <1>5, <1>6, Zenon DEF SocketInv

(* A request binds a socket of its own and sends its query from there. *)
LEMMA TaskBinds ==
    ASSUME SocketInv, NEW q \in Requests, req[q].at = "forward", NEW p \in Ports, FreePort(p),
           NEW t \in Tasks, t.at = "udp", t.port = p, req' = [req EXCEPT ![q] = t],
           owed' = owed \cup {[to |-> q, port |-> p]}, older' = [older EXCEPT ![q] = Over],
           page' = page
    PROVE  SocketInv'
<1> DEFINE n == [to |-> q, port |-> p]
<1>0. n \in [to : Requests, port : Ports] /\ n.to = q /\ n.port = p
  BY Zenon
<1> HIDE DEF n
<1>1. req' \in [Requests -> Tasks] /\ req'[q] = t /\ \A r \in Requests : r # q => req'[r] = req[r]
  BY <1>0, Zenon DEF SocketInv
<1>2. owed' = owed \cup {n} /\ owed' \in SUBSET [to : Requests, port : Ports]
  BY <1>0, Zenon DEF SocketInv, n
<1>3. /\ older' \in [Requests -> SUBSET Requests] /\ older'[q] = Over
      /\ \A r \in Requests : r # q => older'[r] = older[r]
  BY Zenon DEF SocketInv, Over
<1>4. \A m \in owed : m.to \in Requests /\ m.to # q
  BY Zenon DEF SocketInv
<1>5. \A m \in owed' : req'[m.to].at = "closed" \/ (req'[m.to].at = "udp" /\ req'[m.to].port = m.port)
  BY <1>0, <1>1, <1>2, <1>4, Zenon DEF SocketInv
<1>6. \A m \in owed : m.port = p => m.to \in Over
  BY <1>4 DEF SocketInv, FreePort, Over
<1>7. ASSUME NEW r \in Requests, req'[r].at = "udp", NEW m \in owed', m.port = req'[r].port
      PROVE  m.to = r \/ m.to \in older'[r]
  <2>1. CASE r = q
    BY <1>0, <1>1, <1>2, <1>3, <1>6, <1>7, <2>1, Zenon
  <2>2. CASE r # q
    <3>1. req[r].at = "udp" /\ m.port = req[r].port /\ m.port # p
      BY <1>1, <1>7, <2>2, Zenon DEF FreePort
    <3>2. m \in owed
      BY <1>0, <1>2, <3>1, Zenon
    <3> QED
      BY <1>3, <2>2, <3>1, <3>2, Zenon DEF SocketInv
  <2> QED
    BY <2>1, <2>2, Zenon
<1>8. \A r \in Requests : page[r].kind = "reply" => r # q /\ req'[r].at = "closed"
  BY <1>1, Zenon DEF SocketInv
<1>9. ServedItsOwn'
  <2> SUFFICES ASSUME NEW r \in Requests, page[r].kind = "reply"
               PROVE  /\ page[r].to = r \/ page[r].to \in older'[r]
                      /\ r \in Standard => BlockedTargets(page[r].to) = {}
    BY Zenon DEF ServedItsOwn, BlockedTargets
  <2>1. older'[r] = older[r]
    BY <1>3, <1>8, Zenon
  <2> QED
    BY <2>1, Zenon DEF SocketInv, ServedItsOwn
<1> QED
  BY <1>1, <1>2, <1>3, <1>5, <1>7, <1>8, <1>9, Zenon DEF SocketInv

(* Pruning drops entries and changes none. *)
LEMMA PruneKeeps ==
    ASSUME NEW e, IsFiniteSet(DOMAIN e), e \in [DOMAIN e -> Entries], NEW t,
           NEW p, p = Prune(e, t)
    PROVE  /\ DOMAIN p \subseteq DOMAIN e /\ IsFiniteSet(DOMAIN p)
           /\ p \in [DOMAIN p -> Entries]
           /\ \A c \in DOMAIN p : p[c] = e[c]
           /\ \A c \in DOMAIN e : c \notin DOMAIN p => ~(t <= e[c].last_seen + MaxAge)
           /\ Counted(p) \in Nat
<1>1. /\ DOMAIN p \subseteq DOMAIN e
      /\ p \in [DOMAIN p -> Entries]
      /\ \A c \in DOMAIN p : p[c] = e[c]
      /\ \A c \in DOMAIN e : c \notin DOMAIN p => ~(t <= e[c].last_seen + MaxAge)
  BY Zenon DEF Prune
<1>2. IsFiniteSet(DOMAIN p)
  BY <1>1, FS_Subset, Zenon
<1>3. \A c \in DOMAIN p : p[c].query_total \in Nat
  BY <1>1, Zenon DEF Entries
<1>4. Counted(p) \in Nat
  BY <1>2, <1>3, CountedRecord, Zenon
<1> QED
  BY <1>1, <1>2, <1>4, Zenon

(* The entry of the client that asks is made or brought up to date. *)
Recorded(e, c, t, r) ==
    /\ DOMAIN r = DOMAIN e \cup {c} /\ IsFiniteSet(DOMAIN r)
    /\ r \in [DOMAIN r -> Entries]
    /\ r[c].last_seen = t
    /\ \A d \in DOMAIN e : d # c => r[d] = e[d]
    /\ Counted(e) \in Nat /\ Counted(r) = Counted(e) + 1

(* Record does just that. *)
LEMMA RecordKeeps ==
    ASSUME NEW e, IsFiniteSet(DOMAIN e), e \in [DOMAIN e -> Entries], NEW c, NEW t \in 0..MaxNow,
           NEW r, r = Record(e, c, t)
    PROVE  Recorded(e, c, t, r)
<1> DEFINE n == IF c \in DOMAIN e THEN e[c].query_total ELSE 0
           new == [query_total |-> n + 1, last_seen |-> t]
<1>0. \A d \in DOMAIN e : e[d].query_total \in Nat /\ e[d] \in Entries
  BY Zenon DEF Entries
<1>1. Counted(e) \in Nat /\ Counted(r) = Counted(e) + 1
  BY <1>0, CountedRecord, Zenon
<1>2. n + 1 \in Nat
  BY <1>0
<1>3. r = [d \in DOMAIN e \cup {c} |-> IF d = c THEN new ELSE e[d]]
  BY Zenon DEF Record
<1> HIDE DEF n
<1>4. new \in Entries /\ new.last_seen = t
  BY <1>2, Zenon DEF Entries
<1> HIDE DEF new
<1>5. /\ DOMAIN r = DOMAIN e \cup {c}
      /\ r \in [DOMAIN r -> Entries]
      /\ r[c].last_seen = t
      /\ \A d \in DOMAIN e : d # c => r[d] = e[d]
  BY <1>0, <1>3, <1>4, Zenon
<1>6. IsFiniteSet(DOMAIN r)
  BY <1>5, FS_AddElement
<1> QED
  BY <1>1, <1>5, <1>6, Zenon DEF Recorded

(* A step beside the statistics. *)
LEMMA StatQuiet ==
    ASSUME StatInv, UNCHANGED <<statVars, now>>, Recording' = Recording,
           \A q \in Recording : req'[q] = req[q]
    PROVE  StatInv'
<1>1. Counted(clients)' = Counted(clients)
  BY DEF statVars, Counted, MapThenSumSet, MapThenFoldSet
<1> QED
  BY <1>1, Zenon DEF StatInv, statVars, Fresh, Present

(* A request takes its number. *)
LEMMA StatTakes ==
    ASSUME StatInv, UNCHANGED <<clients, lastAsk, dropped, now>>, total' = total + 1,
           NEW q, q \notin Recording, Recording' = Recording \cup {q},
           \A r \in Recording : req'[r] = req[r], req'[q].time = now
    PROVE  StatInv'
<1>1. IsFiniteSet(Recording') /\ Cardinality(Recording') = Cardinality(Recording) + 1
  BY FS_AddElement, Zenon DEF StatInv
<1>2. Cardinality(Recording) \in Nat /\ Counted(clients) \in Nat
  <2>1. Cardinality(Recording) \in Nat
    BY FS_CardinalityType, Zenon DEF StatInv
  <2>2. \A d \in DOMAIN clients : clients[d].query_total \in Nat
    BY Zenon DEF StatInv, Entries
  <2> QED
    BY <2>1, <2>2, CountedRecord, Zenon DEF StatInv
<1>3. Counted(clients)' = Counted(clients)
  BY DEF Counted, MapThenSumSet, MapThenFoldSet
<1>4. total' \in Nat /\ total' = Counted(clients)' + dropped' + Cardinality(Recording')
  BY <1>1, <1>2, <1>3 DEF StatInv
<1>5. \A r \in Recording' : req'[r].time \in 0..now' /\ now' <= req'[r].time + MaxLag
  <2>1. now \in 0..now /\ now <= now + MaxLag
    BY ServerAssumption DEF StatInv
  <2> QED
    BY <2>1, Zenon DEF StatInv
<1> QED
  BY <1>1, <1>4, <1>5, Zenon DEF StatInv, Fresh, Present

(* What pruning, at a time t that may be past by now, leaves of such       *)
(* entries.                                                                *)
LEMMA PruneIsDue ==
    ASSUME NEW e, IsFiniteSet(DOMAIN e), e \in [DOMAIN e -> Entries],
           NEW ask \in [Clients -> {-1} \cup 0..MaxNow], DOMAIN e \subseteq Clients,
           NEW n \in Nat, NEW t \in 0..n, NEW p, p = Prune(e, t),
           Fresh(e, ask), Present(e, ask, n)
    PROVE  /\ p \in [DOMAIN p -> Entries] /\ DOMAIN p \subseteq Clients /\ IsFiniteSet(DOMAIN p)
           /\ Fresh(p, ask)
           /\ Present(p, ask, n)
           /\ Counted(p) \in Nat
<1>1. /\ DOMAIN p \subseteq DOMAIN e /\ IsFiniteSet(DOMAIN p)
      /\ p \in [DOMAIN p -> Entries]
      /\ \A c \in DOMAIN p : p[c] = e[c]
      /\ \A c \in DOMAIN e : c \notin DOMAIN p => ~(t <= e[c].last_seen + MaxAge)
      /\ Counted(p) \in Nat
  BY PruneKeeps
<1>2. ASSUME NEW c \in Clients, ask[c] # -1, n + MaxLag <= ask[c] + MaxAge PROVE c \in DOMAIN p
  <2>1. c \in DOMAIN e /\ ask[c] <= e[c].last_seen + MaxLag
    BY <1>2, Zenon DEF Fresh, Present
  <2>2. ask[c] \in Int /\ e[c].last_seen \in Int
    BY <2>1 DEF Entries
  <2>3. t <= e[c].last_seen + MaxAge
    BY <1>2, <2>1, <2>2, ServerAssumption
  <2> QED
    BY <1>1, <2>1, <2>3, Zenon
<1>3. DOMAIN p \subseteq Clients /\ Fresh(p, ask)
  BY <1>1, Zenon DEF Fresh
<1> QED
  BY <1>1, <1>2, <1>3, Zenon DEF Present

(* The dashboard's snapshot prunes. *)
LEMMA StatPrunes ==
    ASSUME StatInv, snapshot
    PROVE  StatInv'
<1>0. PICK t \in 0..now : clients' = Prune(clients, t)
  BY Zenon DEF snapshot
<1>1. /\ now' = now /\ req' = req /\ lastAsk' = lastAsk
      /\ total' = total /\ front' = front
      /\ dropped' = dropped + Counted(clients) - Counted(clients')
  BY Zenon DEF snapshot
<1>2. Recording' = Recording
  BY <1>1, Zenon DEF Recording, At
<1>3. /\ clients' \in [DOMAIN clients' -> Entries] /\ DOMAIN clients' \subseteq Clients
      /\ IsFiniteSet(DOMAIN clients')
      /\ Fresh(clients', lastAsk) /\ Present(clients', lastAsk, now)
      /\ Counted(clients') \in Nat
  <2>1. /\ IsFiniteSet(DOMAIN clients) /\ clients \in [DOMAIN clients -> Entries]
        /\ lastAsk \in [Clients -> {-1} \cup 0..MaxNow] /\ DOMAIN clients \subseteq Clients
        /\ Fresh(clients, lastAsk) /\ Present(clients, lastAsk, now)
    BY Zenon DEF StatInv
  <2>2. now \in Nat
    BY DEF StatInv
  <2> QED
    BY <1>0, <2>1, <2>2, PruneIsDue, Zenon
<1>4. Counted(clients) \in Nat /\ Cardinality(Recording) \in Nat
  <2>1. \A d \in DOMAIN clients : clients[d].query_total \in Nat
    BY Zenon DEF StatInv, Entries
  <2> QED
    BY <2>1, CountedRecord, FS_CardinalityType, Zenon DEF StatInv
<1>5. dropped' \in Int /\ total = Counted(clients') + dropped' + Cardinality(Recording)
  BY <1>1, <1>3, <1>4 DEF StatInv
<1>6. \A q \in Recording : req[q].time \in 0..now /\ now <= req[q].time + MaxLag
  BY Zenon DEF StatInv
<1> QED
  BY <1>1, <1>2, <1>3, <1>5, <1>6, Zenon DEF StatInv, Fresh, Present

(* A client's query is recorded under the lock. *)
LEMMA StatRecords ==
    ASSUME StatInv, SocketInv, NEW q \in Requests, record_query(q)
    PROVE  StatInv'
<1> DEFINE c == client_ip[q]
           t == req[q].time
           e == Record(clients, c, t)
<1>0. /\ c \in Clients /\ q \in Recording /\ now \in Nat
      /\ t \in 0..now /\ now <= t + MaxLag /\ t \in 0..MaxNow
  <2>1. c \in Clients /\ q \in Recording /\ t \in 0..now /\ now <= t + MaxLag /\ now \in 0..MaxNow
    BY Zenon DEF Clients, record_query, Recording, StatInv
  <2> HIDE DEF c, t, e
  <2> QED
    BY <2>1, ServerAssumption
<1>1. /\ clients' = IF req[q].nth % PruneEvery = 0 THEN Prune(e, t) ELSE e
      /\ dropped' = dropped + Counted(e) - Counted(clients')
      /\ lastAsk' = [lastAsk EXCEPT ![c] = Later(@, t)]
      /\ now' = now /\ total' = total /\ front' = front
  BY Zenon DEF record_query
<1>2. Recording' = Recording \ {q} /\ \A r \in Recording' : req'[r] = req[r]
  <2>1. PICK s \in {"closed", "forward"} : req' = [req EXCEPT ![q] = [NewReq EXCEPT !.at = s]]
    BY Zenon DEF record_query, Close
  <2>2. req'[q].at # "record" /\ \A r \in Requests : r # q => req'[r] = req[r]
    BY <2>1, Zenon DEF NewReq, SocketInv
  <2> QED
    BY <1>1, <2>2, Zenon DEF Recording, At
<1>3. IsFiniteSet(Recording') /\ Cardinality(Recording') = Cardinality(Recording) - 1
  BY <1>0, <1>2, FS_RemoveElement, Zenon DEF StatInv
<1>4. /\ DOMAIN e = DOMAIN clients \cup {c} /\ IsFiniteSet(DOMAIN e)
      /\ e \in [DOMAIN e -> Entries]
      /\ e[c].last_seen = t
      /\ \A d \in DOMAIN clients : d # c => e[d] = clients[d]
      /\ Counted(clients) \in Nat /\ Counted(e) = Counted(clients) + 1
  <2>1. IsFiniteSet(DOMAIN clients) /\ clients \in [DOMAIN clients -> Entries]
    BY Zenon DEF StatInv
  <2>2. e = Record(clients, c, t)
    BY Zenon
  <2> HIDE DEF c, t, e
  <2>3. Recorded(clients, c, t, e)
    BY <1>0, <2>1, <2>2, RecordKeeps, Zenon
  <2> QED
    BY <2>3, Zenon DEF Recorded
<1> HIDE DEF c, t, e
<1>5. /\ lastAsk' \in [Clients -> {-1} \cup 0..MaxNow]
      /\ \A d \in Clients : lastAsk'[d] <= now
      /\ lastAsk'[c] <= t + MaxLag /\ \A d \in Clients : d # c => lastAsk'[d] = lastAsk[d]
  <2>1. lastAsk[c] \in {-1} \cup 0..MaxNow /\ lastAsk[c] <= now
    BY <1>0, Zenon DEF StatInv
  <2>2. Later(lastAsk[c], t) \in {-1} \cup 0..MaxNow
    BY <1>0, <2>1, Zenon DEF Later
  <2>3. Later(lastAsk[c], t) <= now /\ Later(lastAsk[c], t) <= t + MaxLag
    BY <1>0, <2>1, ServerAssumption DEF Later
  <2> QED
    BY <1>0, <1>1, <2>2, <2>3, Zenon DEF StatInv
<1>6. DOMAIN e \subseteq Clients /\ Fresh(e, lastAsk') /\ Present(e, lastAsk', now)
  <2>1. DOMAIN e \subseteq Clients
    BY <1>0, <1>4, Zenon DEF StatInv
  <2>2. Fresh(e, lastAsk')
    BY <1>4, <1>5, <2>1, Zenon DEF StatInv, Fresh
  <2>3. Present(e, lastAsk', now)
    BY <1>4, <1>5, Zenon DEF StatInv, Present
  <2> QED
    BY <2>1, <2>2, <2>3, Zenon
<1>7. /\ clients' \in [DOMAIN clients' -> Entries] /\ DOMAIN clients' \subseteq Clients
      /\ IsFiniteSet(DOMAIN clients')
      /\ Fresh(clients', lastAsk') /\ Present(clients', lastAsk', now)
      /\ Counted(clients') \in Nat
  <2>1. CASE clients' = e
    BY <1>4, <1>6, <2>1
  <2>2. CASE clients' = Prune(e, t)
    <3>1. PICK ask : ask = lastAsk'
      BY Zenon
    <3>2. PICK p : p = clients'
      BY Zenon
    <3>3. /\ ask \in [Clients -> {-1} \cup 0..MaxNow] /\ Fresh(e, ask) /\ Present(e, ask, now)
          /\ p = Prune(e, t)
      BY <1>5, <1>6, <2>2, <3>1, <3>2, Zenon
    <3>4. /\ p \in [DOMAIN p -> Entries] /\ DOMAIN p \subseteq Clients /\ IsFiniteSet(DOMAIN p)
          /\ Fresh(p, ask) /\ Present(p, ask, now) /\ Counted(p) \in Nat
      BY <1>0, <1>4, <1>6, <3>3, PruneIsDue, Zenon
    <3> QED
      BY <3>1, <3>2, <3>4, Zenon
  <2> QED
    BY <1>1, <2>1, <2>2, Zenon
<1>8. Cardinality(Recording) \in Nat
  BY FS_CardinalityType, Zenon DEF StatInv
<1>9. dropped' \in Int /\ total = Counted(clients') + dropped' + Cardinality(Recording')
  BY <1>1, <1>3, <1>4, <1>7, <1>8 DEF StatInv
<1>10. \A r \in Recording' : req'[r].time \in 0..now /\ now <= req'[r].time + MaxLag
  BY <1>2, Zenon DEF StatInv
<1> QED
  BY <1>1, <1>3, <1>5, <1>7, <1>9, <1>10, Zenon DEF StatInv, Fresh, Present

(* Time passes. *)
LEMMA StatTicks ==
    ASSUME StatInv, tick
    PROVE  StatInv'
<1>1. now' = now + 1 /\ now' \in 0..MaxNow /\ UNCHANGED <<req, front, statVars>>
  BY ServerAssumption DEF tick, StatInv
<1>2. Recording' = Recording
  BY <1>1, Zenon DEF Recording, At
<1>3. Present(clients, lastAsk, now')
  <2> SUFFICES ASSUME NEW c \in Clients, lastAsk[c] # -1, now' + MaxLag <= lastAsk[c] + MaxAge
               PROVE  c \in DOMAIN clients
    BY Zenon DEF Present
  <2>1. lastAsk[c] \in Int
    BY DEF StatInv
  <2>2. now + MaxLag <= lastAsk[c] + MaxAge
    BY <1>1, <2>1, ServerAssumption DEF StatInv
  <2> QED
    BY <2>2, Zenon DEF StatInv, Present
<1>5. ASSUME NEW c \in Clients PROVE lastAsk[c] <= now'
  <2>1. lastAsk[c] \in Int /\ lastAsk[c] <= now
    BY DEF StatInv
  <2> QED
    BY <1>1, <2>1, ServerAssumption DEF StatInv
<1>6. ASSUME NEW q \in Recording PROVE req[q].time \in 0..now' /\ now' <= req[q].time + MaxLag
  <2>1. req[q].time \in 0..now /\ now < req[q].time + MaxLag
    BY Zenon DEF StatInv, tick, Recording
  <2> QED
    BY <1>1, <2>1, ServerAssumption DEF StatInv
<1>4. Counted(clients)' = Counted(clients)
  BY <1>1, Zenon DEF statVars, Counted, MapThenSumSet, MapThenFoldSet
<1> QED
  BY <1>1, <1>2, <1>3, <1>4, <1>5, <1>6, Zenon DEF StatInv, statVars, Fresh, Present

(* A request that is not on its way to the lock, before or after the step. *)
LEMMA StatBeside ==
    ASSUME StatInv, SocketInv, NEW q \in Requests, NEW t, req' = [req EXCEPT ![q] = t],
           req[q].at # "record", t.at # "record", UNCHANGED <<front, now, statVars>>
    PROVE  StatInv'
<1>1. req'[q] = t /\ \A r \in Requests : r # q => req'[r] = req[r]
  BY Zenon DEF SocketInv
<1>2. Recording' = Recording /\ \A r \in Recording : req'[r] = req[r]
  BY <1>1, Zenon DEF Recording, At
<1> QED
  BY <1>2, StatQuiet, Zenon

(* One answered without being recorded. *)
LEMMA StatCloses ==
    ASSUME StatInv, SocketInv, NEW q \in Requests, NEW p, Close(q, p),
           req[q].at # "record", UNCHANGED <<front, now, statVars>>
    PROVE  StatInv'
<1> DEFINE t == [NewReq EXCEPT !.at = "closed"]
<1>1. req' = [req EXCEPT ![q] = t] /\ t.at # "record"
  BY ClosedTask, Zenon DEF Close
<1> HIDE DEF t
<1> QED
  BY <1>1, StatBeside, Zenon

(* The pages the server makes up itself. *)
LEMMA OwnPages ==
    ASSUME NEW q \in Requests
    PROVE  \A p \in {NoAnswer, Nxdomain, Failed("4xx"), Failed("502")} : p \in Pages /\ OwnPage(q, p)
BY DEF Pages, Answers, OwnPage, NoAnswer, Nxdomain, Failed

(* The page made of the reply to r, which q may get. *)
LEMMA ReplyPages ==
    ASSUME SocketInv, NEW q \in Requests, NEW r \in Requests, r = q \/ r \in older[q],
           answer_request(q, r)
    PROVE  \E p \in Pages : Close(q, p) /\ OwnPage(q, p)
<1>1. Forwarded(r) \in Pages
  BY ServerAssumption, Zenon DEF Pages, Answers
<1>2. ASSUME q \in Standard => BlockedTargets(r) = {} PROVE OwnPage(q, Forwarded(r))
  BY <1>2, Zenon DEF OwnPage, Forwarded
<1>3. Nxdomain \in Pages /\ OwnPage(q, Nxdomain)
  BY OwnPages, Zenon
<1> QED
  BY <1>1, <1>2, <1>3, Zenon DEF answer_request

HandlerInv == SocketInv /\ StatInv

(* handle_doh_request up to the lock. *)
LEMMA HandleStep ==
    ASSUME HandlerInv, NEW q \in Requests, handle_doh_request(q)
    PROVE  HandlerInv'
<1>0. SocketInv /\ StatInv /\ req[q].at = "new" /\ front = "https"
  BY Zenon DEF HandlerInv, handle_doh_request, At
<1>1. UNCHANGED <<front, now, owed, clients, lastAsk, dropped, older>>
  BY Zenon DEF handle_doh_request
<1>2. CASE (\E p \in {Failed("4xx"), NoAnswer} : Close(q, p)) /\ total' = total
  <2>1. PICK p \in {Failed("4xx"), NoAnswer} : Close(q, p)
    BY <1>2, Zenon
  <2>2. p \in Pages /\ OwnPage(q, p)
    BY OwnPages, Zenon
  <2>3. SocketInv'
    BY <1>0, <1>1, <2>1, <2>2, TaskCloses, Zenon
  <2>4. StatInv'
    BY <1>0, <1>1, <1>2, <2>1, StatCloses, Zenon DEF statVars
  <2> QED
    BY <2>3, <2>4, Zenon DEF HandlerInv
<1>3. CASE /\ total' = total + 1 /\ page' = page
           /\ req' = [req EXCEPT ![q] = [NewReq EXCEPT !.at = "record", !.nth = total', !.time = now]]
  <2> DEFINE t == [NewReq EXCEPT !.at = "record", !.nth = total', !.time = now]
  <2>1. total' \in Nat /\ now \in 0..MaxNow
    BY <1>0, <1>3 DEF StatInv
  <2>2. t \in Tasks /\ t.at = "record" /\ t.time = now
    BY <2>1, Zenon DEF NewReq, Tasks
  <2>3. req' = [req EXCEPT ![q] = t]
    BY <1>3, Zenon
  <2> HIDE DEF t
  <2>4. SocketInv'
    BY <1>0, <1>1, <1>3, <2>2, <2>3, TaskMoves, Zenon
  <2>5. req'[q] = t /\ \A r \in Requests : r # q => req'[r] = req[r]
    BY <1>0, <2>3, Zenon DEF SocketInv
  <2>6. /\ q \notin Recording /\ Recording' = Recording \cup {q}
        /\ \A r \in Recording : req'[r] = req[r]
    BY <1>0, <1>1, <2>2, <2>5, Zenon DEF Recording, At
  <2>7. StatInv'
    BY <1>0, <1>1, <1>3, <2>2, <2>5, <2>6, StatTakes, Zenon
  <2> QED
    BY <2>4, <2>7, Zenon DEF HandlerInv
<1> QED
  BY <1>2, <1>3, Zenon DEF handle_doh_request

(* record_query and the policy check. *)
LEMMA RecordStep ==
    ASSUME HandlerInv, NEW q \in Requests, record_query(q)
    PROVE  HandlerInv'
<1>0. SocketInv /\ StatInv /\ req[q].at = "record" /\ UNCHANGED <<owed, older>>
  BY Zenon DEF HandlerInv, record_query, At
<1>1. StatInv'
  BY <1>0, StatRecords, Zenon
<1>2. CASE Close(q, Nxdomain)
  <2>1. Nxdomain \in Pages /\ OwnPage(q, Nxdomain)
    BY OwnPages, Zenon
  <2> QED
    BY <1>0, <1>1, <1>2, <2>1, TaskCloses, Zenon DEF HandlerInv
<1>3. CASE req' = [req EXCEPT ![q] = [NewReq EXCEPT !.at = "forward"]] /\ page' = page
  <2> DEFINE t == [NewReq EXCEPT !.at = "forward"]
  <2>1. t \in Tasks /\ t.at = "forward"
    BY ServerAssumption DEF NewReq, Tasks
  <2>2. req' = [req EXCEPT ![q] = t]
    BY <1>3, Zenon
  <2> HIDE DEF t
  <2>3. SocketInv'
    BY <1>0, <1>3, <2>1, <2>2, TaskMoves, Zenon
  <2> QED
    BY <1>1, <2>3, Zenon DEF HandlerInv
<1> QED
  BY <1>2, <1>3, Zenon DEF record_query

(* The query goes upstream, over a connection or a socket of its own. *)
LEMMA ForwardStep ==
    ASSUME HandlerInv, NEW q \in Requests, forward_request(q)
    PROVE  HandlerInv'
<1>0. SocketInv /\ StatInv /\ req[q].at = "forward" /\ UNCHANGED <<front, now, statVars>>
      /\ req[q] \in Tasks
  BY Zenon DEF HandlerInv, forward_request, At, SocketInv
<1>1. CASE req' = [req EXCEPT ![q].at = "doh"] /\ UNCHANGED <<page, owed, older>>
  <2> DEFINE t == [req[q] EXCEPT !.at = "doh"]
  <2>1. t \in Tasks /\ t.at = "doh"
    <3>1. \A k \in Tasks : [k EXCEPT !.at = "doh"] \in Tasks /\ [k EXCEPT !.at = "doh"].at = "doh"
      BY Zenon DEF Tasks
    <3> QED
      BY <1>0, <3>1, Zenon
  <2>2. req' = [req EXCEPT ![q] = t]
    BY <1>1, Zenon
  <2> HIDE DEF t
  <2>3. SocketInv'
    BY <1>0, <1>1, <2>1, <2>2, TaskMoves, Zenon
  <2>4. StatInv'
    BY <1>0, <2>1, <2>2, StatBeside, Zenon
  <2> QED
    BY <2>3, <2>4, Zenon DEF HandlerInv
<1>2. ASSUME NEW p \in Ports, FreePort(p), req' = [req EXCEPT ![q].at = "udp", ![q].port = p],
             owed' = owed \cup {[to |-> q, port |-> p]}, older' = [older EXCEPT ![q] = Over],
             page' = page
      PROVE  HandlerInv'
  <2> DEFINE t == [req[q] EXCEPT !.at = "udp", !.port = p]
  <2>1. t \in Tasks /\ t.at = "udp" /\ t.port = p
    <3>1. \A k \in Tasks : LET u == [k EXCEPT !.at = "udp", !.port = p]
                           IN  u \in Tasks /\ u.at = "udp" /\ u.port = p
      BY Zenon DEF Tasks
    <3> QED
      BY <1>0, <3>1, Zenon
  <2>2. req' = [req EXCEPT ![q] = t]
    BY <1>2, Zenon
  <2> HIDE DEF t
  <2>3. SocketInv'
    BY <1>0, <1>2, <2>1, <2>2, TaskBinds, Zenon
  <2>4. StatInv'
    BY <1>0, <2>1, <2>2, StatBeside, Zenon
  <2> QED
    BY <2>3, <2>4, Zenon DEF HandlerInv
<1>3. CASE Close(q, Failed("502")) /\ UNCHANGED <<owed, older>>
  <2>1. Failed("502") \in Pages /\ OwnPage(q, Failed("502"))
    BY OwnPages, Zenon
  <2>2. SocketInv'
    BY <1>0, <1>3, <2>1, TaskCloses, Zenon
  <2>3. StatInv'
    BY <1>0, <1>3, StatCloses, Zenon
  <2> QED
    BY <2>2, <2>3, Zenon DEF HandlerInv
<1> QED
  BY <1>1, <1>2, <1>3, Zenon DEF forward_request

(* The upstream answers, or the wait for it ends. *)
LEMMA AnswerStep ==
    ASSUME HandlerInv, NEW q \in Requests,
           recv_datagram(q) \/ recv_doh(q) \/ request_times_out(q)
    PROVE  HandlerInv'
<1>0. SocketInv /\ StatInv /\ req[q].at # "record" /\ UNCHANGED <<front, now, statVars, older>>
  BY Zenon DEF HandlerInv, recv_datagram, recv_doh, request_times_out, At
<1>1. ASSUME \E p \in Pages : Close(q, p) /\ OwnPage(q, p), owed' \subseteq owed
      PROVE  HandlerInv'
  <2>1. PICK p \in Pages : Close(q, p) /\ OwnPage(q, p)
    BY <1>1, Zenon
  <2>2. SocketInv'
    BY <1>0, <1>1, <2>1, TaskCloses, Zenon
  <2>3. StatInv'
    BY <1>0, <2>1, StatCloses, Zenon
  <2> QED
    BY <2>2, <2>3, Zenon DEF HandlerInv
<1>2. CASE recv_datagram(q)
  <2>1. PICK m \in owed : /\ m.port = req[q].port
                         /\ owed' \in {owed, owed \ {m}}
                         /\ answer_request(q, m.to)
    BY <1>2, Zenon DEF recv_datagram
  <2>2. m.to \in Requests /\ (m.to = q \/ m.to \in older[q])
    BY <1>0, <1>2, <2>1, Zenon DEF recv_datagram, At, SocketInv
  <2>3. \E p \in Pages : Close(q, p) /\ OwnPage(q, p)
    BY <1>0, <2>1, <2>2, ReplyPages, Zenon
  <2> QED
    BY <1>1, <2>1, <2>3, Zenon
<1>3. CASE recv_doh(q)
  <2>1. answer_request(q, q) /\ owed' = owed
    BY <1>3, Zenon DEF recv_doh
  <2>2. \E p \in Pages : Close(q, p) /\ OwnPage(q, p)
    BY <1>0, <2>1, ReplyPages, Zenon
  <2> QED
    BY <1>1, <2>1, <2>2, Zenon
<1>4. CASE request_times_out(q)
  <2>1. Close(q, Failed("502")) /\ owed' = owed
    BY <1>4, Zenon DEF request_times_out
  <2>2. Failed("502") \in Pages /\ OwnPage(q, Failed("502"))
    BY OwnPages, Zenon
  <2> QED
    BY <1>1, <2>1, <2>2, Zenon
<1> QED
  BY <1>2, <1>3, <1>4, Zenon

(* The policy check of a request that came over HTTPS answers nothing but  *)
(* NXDOMAIN.                                                               *)
LEMMA CheckKeepsDns ==
    ASSUME DnsInv, NEW q \in Requests, record_query(q)
    PROVE  DnsInv' /\ UNCHANGED <<loop, asked, replies, clean>>
<1>1. UNCHANGED <<loop, asked, replies, clean>> /\ process_dns_query(q)
  BY Zenon DEF record_query
<1>2. answer \in [Queries -> Answers] /\ Nxdomain \in Answers /\ q \in Queries
  BY ServerAssumption, Zenon DEF DnsInv, Answers
<1>3. answer' = answer \/ answer' = [answer EXCEPT ![q] = Nxdomain]
  BY <1>1, Zenon DEF process_dns_query
<1>4. answer' \in [Queries -> Answers] /\ \A p \in Queries : answer'[p] \in {answer[p], Nxdomain}
  BY <1>2, <1>3, Zenon
<1>5. \A r \in Queries : Nxdomain # Forwarded(r)
  BY Zenon DEF Forwarded, Nxdomain
<1>6. \A p, r \in Queries : answer'[p] = Forwarded(r) => answer[p] = Forwarded(r)
  BY <1>4, <1>5, Zenon
<1>7. \A p, r \in Queries : answer'[p] = Forwarded(r) => Matches(p, r) /\ ~Uncloaked(r)
  BY <1>6, Zenon DEF DnsInv
<1> QED
  BY <1>1, <1>4, <1>7, Zenon DEF DnsInv, Matches, Uncloaked, Forwarded

(* The server starts with no request, no answer and no entry. *)
LEMMA ServerInvInit == ServerInit => ServerInv
<1> SUFFICES ASSUME ServerInit PROVE ServerInv
  BY Zenon
<1>1. DnsInv /\ CountInv /\ CleanInv /\ front \in {"udp", "https"}
  BY DnsInvInit, CountInvInit, Zenon DEF ServerInit
<1>2. SocketInv
  <2>1. NewReq \in Tasks /\ NoAnswer \in Pages /\ NoAnswer.kind # "reply"
    BY ServerAssumption DEF NewReq, Tasks, Pages, Answers, NoAnswer
  <2> QED
    BY <2>1, Zenon DEF ServerInit, SocketInv, ServedItsOwn
<1>3. StatInv
  <2>1. Recording = {}
    BY Zenon DEF Recording, At, ServerInit, NewReq
  <2>2. Cardinality({}) = 0 /\ IsFiniteSet({})
    BY FS_EmptySet, Zenon
  <2>3. clients = <<>> /\ DOMAIN clients = {} /\ clients \in [DOMAIN clients -> Entries]
    BY DEF ServerInit
  <2>4. Counted(clients) = 0
    <3>1. Counted(clients) = SumOn(clients, DOMAIN clients)[DOMAIN clients]
      BY CountedIsSum, Zenon
    <3>2. FoldEquation(clients, DOMAIN clients)
      BY <2>2, <2>3, SumExists, Zenon
    <3>3. {} \in SUBSET (DOMAIN clients)
      BY Zenon
    <3>4. SumOn(clients, DOMAIN clients)[{}] = 0
      BY <3>2, <3>3, Zenon DEF FoldEquation
    <3> QED
      BY <2>3, <3>1, <3>4, Zenon
  <2> QED
    BY <2>1, <2>2, <2>3, <2>4, ServerAssumption DEF ServerInit, StatInv, Fresh, Present
<1> QED
  BY <1>1, <1>2, <1>3, Zenon DEF ServerInv

(* A step beside the requests. *)
LEMMA SocketQuiet ==
    ASSUME SocketInv, UNCHANGED <<req, page, owed, older>>
    PROVE  SocketInv'
<1>1. ServedItsOwn'
  BY PagesKept, Zenon DEF SocketInv
<1>2. \A m \in owed' :
         req'[m.to].at = "closed" \/ (req'[m.to].at = "udp" /\ req'[m.to].port = m.port)
  BY Zenon DEF SocketInv
<1>3. \A q \in Requests : req'[q].at = "udp" =>
         \A m \in owed' : m.port = req'[q].port => m.to = q \/ m.to \in older'[q]
  BY Zenon DEF SocketInv
<1> QED
  BY <1>1, <1>2, <1>3, Zenon DEF SocketInv

(* A step that changes nothing of the requests and the statistics. *)
LEMMA HandlerQuiet ==
    ASSUME HandlerInv, UNCHANGED <<front, serverVars>>
    PROVE  HandlerInv'
<1>1. UNCHANGED <<front, now, req, page, owed, older>> /\ UNCHANGED statVars
  BY Zenon DEF serverVars
<1>2. SocketInv'
  BY <1>1, SocketQuiet, Zenon DEF HandlerInv
<1>3. Recording' = Recording
  BY <1>1, Zenon DEF Recording, At
<1>4. StatInv'
  BY <1>1, <1>3, StatQuiet, Zenon DEF HandlerInv
<1> QED
  BY <1>2, <1>4, Zenon DEF HandlerInv

(* Every step of either front end keeps the invariant. *)
LEMMA ServerInvStep == ServerInv /\ [ServerNext]_dnsVars => ServerInv'
<1> SUFFICES ASSUME ServerInv, [ServerNext]_dnsVars PROVE ServerInv'
  BY Zenon
<1>0. HandlerInv /\ DnsInv /\ CleanInv
  BY Zenon DEF ServerInv, HandlerInv
<1>1. ASSUME [Next]_vars, UNCHANGED <<front, serverVars>> PROVE ServerInv'
  <2>1. DnsInv' /\ CleanInv' /\ (front = "udp" => CountInv')
    BY <1>0, <1>1, DnsInvStep, CleanInvStep, CountInvStep, Zenon DEF ServerInv
  <2>2. HandlerInv' /\ front' = front
    BY <1>0, <1>1, HandlerQuiet, Zenon
  <2> QED
    BY <2>1, <2>2, Zenon DEF ServerInv, HandlerInv
<1>2. ASSUME front = "https", front' = front, HandlerInv', DnsInv',
             UNCHANGED <<loop, asked, replies, clean>>
      PROVE  ServerInv'
  <2>1. CleanInv'
    BY <1>0, <1>2, Zenon DEF CleanInv
  <2> QED
    BY <1>2, <2>1, Zenon DEF ServerInv, HandlerInv
<1>3. ASSUME front = "https", front' = front, HandlerInv', UNCHANGED vars PROVE ServerInv'
  <2>1. DnsInv'
    BY <1>0, <1>3, DnsInvStep, Zenon
  <2>2. UNCHANGED <<loop, asked, replies, clean>>
    BY <1>3, Zenon DEF vars
  <2> QED
    BY <1>2, <1>3, <2>1, <2>2, Zenon
<1>4. ASSUME front = "https", front' = front, HandlerInv',
             UNCHANGED <<doh, loop, served, asked, replies, answer, clean>>
      PROVE  ServerInv'
  <2>1. DnsInv'
    BY <1>0, <1>4 DEF DnsInv, Matches, Uncloaked, Forwarded, Receiving
  <2> QED
    BY <1>2, <1>4, <2>1, Zenon
<1>5. ASSUME NEW q \in Requests, handle_doh_request(q) \/ forward_request(q) \/ request_times_out(q)
      PROVE  ServerInv'
  <2>1. HandlerInv'
    BY <1>0, <1>5, HandleStep, ForwardStep, AnswerStep, Zenon
  <2>2. front = "https" /\ front' = front /\ UNCHANGED vars
    BY <1>5, Zenon DEF handle_doh_request, forward_request, request_times_out, At
  <2> QED
    BY <1>3, <2>1, <2>2, Zenon
<1>6. ASSUME NEW q \in Requests, record_query(q) PROVE ServerInv'
  <2>1. HandlerInv' /\ DnsInv' /\ UNCHANGED <<loop, asked, replies, clean>>
    BY <1>0, <1>6, RecordStep, CheckKeepsDns, Zenon
  <2>2. front = "https" /\ front' = front
    BY <1>6, Zenon DEF record_query, At
  <2> QED
    BY <1>2, <2>1, <2>2, Zenon
<1>7. ASSUME NEW q \in Requests, recv_datagram(q) \/ recv_doh(q) PROVE ServerInv'
  <2>1. HandlerInv'
    BY <1>0, <1>7, AnswerStep, Zenon
  <2>2. /\ front = "https" /\ front' = front
        /\ UNCHANGED <<doh, loop, served, asked, replies, answer, clean>>
    BY <1>7, Zenon DEF recv_datagram, recv_doh, At
  <2> QED
    BY <1>4, <2>1, <2>2, Zenon
<1>8. ASSUME snapshot \/ tick PROVE ServerInv'
  <2>1. front = "https" /\ front' = front /\ UNCHANGED vars /\ UNCHANGED <<req, page, owed, older>>
    BY <1>8, Zenon DEF snapshot, tick
  <2>2. StatInv'
    BY <1>0, <1>8, StatPrunes, StatTicks, Zenon DEF HandlerInv
  <2>3. SocketInv'
    BY <1>0, <2>1, SocketQuiet, Zenon DEF HandlerInv
  <2> QED
    BY <1>3, <2>1, <2>2, <2>3, Zenon DEF HandlerInv
<1>9. CASE UNCHANGED dnsVars
  BY <1>1, <1>9, Zenon DEF dnsVars
<1> QED
  BY <1>1, <1>5, <1>6, <1>7, <1>8, <1>9, Zenon DEF ServerNext

(* The invariant holds of every behaviour of the two front ends. *)
LEMMA ServerInvariant == ServerSpec => []ServerInv
BY ServerInvInit, ServerInvStep, PTL DEF ServerSpec

-----------------------------------------------------------------------------
(* What the invariant shows.                                               *)

(* No client of a standard query gets the reply to another question,       *)
(* whichever datagram the shared upstream socket hands to forward_and_-    *)
(* reply.                                                                  *)
THEOREM ClientsGetTheirAnswers == ServerSpec => []AnswersItsQuestion
<1>1. ServerInv => DnsInv
  BY Zenon DEF ServerInv
<1>. QED
  BY <1>1, ServerInvariant, DnsInvAnswers, PTL

(* No reply with a blocked CNAME target is forwarded to any client of the  *)
(* UDP filter, and no blocked name is asked upstream.                      *)
THEOREM BlockedNamesStayBlocked == ServerSpec => []BlockedNeverPasses
<1>1. ServerInv => DnsInv
  BY Zenon DEF ServerInv
<1>. QED
  BY <1>1, ServerInvariant, DnsInvBlocks, PTL

(* forward_and_reply answers a query that it sends upstream while no other *)
(* reply is due with the first datagram that arrives in time.              *)
THEOREM CleanQueriesAreAnswered == ServerSpec => CleanQueryAnswered
<1>1. ServerInv /\ [ServerNext]_dnsVars =>
        [clean /\ loop.at = "udp" /\ loop'.at = "recv" /\ replies' # replies
           => (loop.q \in Standard \cap Readable => answer'[loop.q] # NoAnswer)]_vars
  <2> SUFFICES ASSUME ServerInv, [ServerNext]_dnsVars, loop.at = "udp", loop'.at = "recv",
                      replies' # replies, clean, loop.q \in Standard \cap Readable
               PROVE  answer'[loop.q] # NoAnswer
    BY Zenon
  <2>1. ServerNext
    BY Zenon DEF dnsVars, vars
  <2>2. front = "udp" /\ Next
    BY <2>1, Zenon DEF ServerNext, handle_doh_request, record_query, forward_request, recv_datagram,
                recv_doh, request_times_out, snapshot, tick, vars
  <2>3. CountInv /\ CleanInv
    BY <2>2, Zenon DEF ServerInv
  <2> QED
    BY <2>2, <2>3, CleanAnswer, Zenon
<1>. QED
  BY <1>1, ServerInvariant, PTL DEF ServerSpec, CleanQueryAnswered

(* The socket that handle_doh_request binds for a request brings it no     *)
(* reply to a request that runs beside it.                                 *)
THEOREM RequestsGetTheirOwn == ServerSpec => []ServedItsOwn
<1>1. ServerInv => ServedItsOwn
  BY Zenon DEF ServerInv, SocketInv
<1>. QED
  BY <1>1, ServerInvariant, PTL

(* DohStats loses no query and no client that asked of late, for any       *)
(* number of clients, any pruning period and any age limit, and the UDP    *)
(* filter counts every NXDOMAIN once.                                      *)
THEOREM StatisticsAreKept == ServerSpec => []StatsKept
<1>1. ServerInv => StatsKept
  <2> SUFFICES ASSUME ServerInv PROVE StatsKept
    BY Zenon
  <2>1. ServerTypeOK
    BY Zenon DEF ServerInv, SocketInv, StatInv, ServerTypeOK
  <2>2. front = "udp" => BlocksCounted
    BY Zenon DEF ServerInv, CountInv, BlocksCounted, Sound
  <2>3. total = Counted(clients) + dropped + Cardinality({q \in Requests : At(q, "record")})
    BY Zenon DEF ServerInv, StatInv, Recording
  <2> QED
    BY <2>1, <2>2, <2>3, Zenon DEF ServerInv, StatInv, StatsKept, Present, Recent
<1>. QED
  BY <1>1, ServerInvariant, PTL
=============================================================================
