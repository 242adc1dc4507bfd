----------------------------- MODULE RelayProofs -----------------------------
(***************************************************************************)
(* The relay of an intercepted connection, for every response, every       *)
(* request, every way to cut them into reads and every size of the two     *)
(* limits.                                                                 *)
(*                                                                         *)
(* The loop keeps no name for where it is in the response: that is spread  *)
(* over first_response_filtered, buffering_body and three buffers. The     *)
(* inductive invariant says that they always describe one of three phases, *)
(* and in each phase which units every buffer holds.                       *)
(***************************************************************************)
EXTENDS Relay, SequenceTheorems, TLAPS

(* Before the end of the header block: everything read is in pending. *)
Gathered(s) ==
    /\ ~s.filtered /\ ~s.buffering
    /\ s.pending = Units(1, s.read) /\ s.headers = <<>> /\ s.sent = <<>>
    /\ s.rewrites = 0 /\ s.skipped = 0
    /\ s.answer.kind = "none"
    /\ s.policy = "none"

(* Between two reads the block is incomplete and within its limit. *)
Heading(s) ==
    /\ Gathered(s)
    /\ s.read < resp.head /\ s.read <= MaxHead
    /\ s.closed => s.read = 0

(* The headers are deferred and what followed them is buffered. *)
Deferred(s) ==
    /\ s.filtered /\ s.buffering
    /\ s.pending = <<>> /\ s.sent = <<>>
    /\ s.headers = Units(1, resp.head)
    /\ s.read >= resp.head
    /\ s.body = Units(resp.head + 1, s.read)
    /\ s.rewrites = 0 /\ s.skipped = 0
    /\ s.answer.kind = "none"
    /\ s.policy = "applied"

(* Between two reads the buffer is within its limit, and a body that is    *)
(* known to be larger is not buffered at all.                              *)
Buffering(s) ==
    /\ Deferred(s)
    /\ ~s.closed
    /\ Len(s.body) < MaxBody \/ Len(s.body) < ReadSize
    /\ resp.framing = "length" => resp.body <= MaxBody

(* Everything read has been sent. *)
Passing(s) ==
    /\ s.filtered /\ ~s.buffering
    /\ s.pending = <<>> /\ s.headers = <<>>
    /\ s.sent = Units(1, s.read)
    /\ s.read > 0
    /\ s.rewrites + s.skipped <= 1
    /\ s.answer.kind = "rewritten" /\ ~s.answer.ended
         => s.answer.of = resp.body /\ resp.body <= MaxBody
    /\ s.policy = "bypassed" => resp.head + ReadSize > MaxHead + 1

Phase(s) == s \in S2C /\ (Heading(s) \/ Buffering(s) \/ Passing(s))

(* The request: nothing is sent before the first read was checked, and a   *)
(* refused upgrade is never sent.                                          *)
Requested ==
    /\ c2s.checked <=> c2s.read > 0
    /\ c2s.refused => over = "ok" /\ c2s.sent = <<>>
    /\ ~c2s.refused => c2s.sent = Units(1, c2s.read)

RelayInv == TypeOK /\ Phase(s2c) /\ Requested

-----------------------------------------------------------------------------
(* Runs of units *)

(* A run of units is a sequence with one element per unit. *)
LEMMA UnitsType ==
    ASSUME NEW a \in Nat, NEW b \in Nat, a <= b
    PROVE  /\ Units(a + 1, b) \in Seq(Nat)
           /\ Len(Units(a + 1, b)) = b - a
           /\ \A i \in 1..(b - a) : Units(a + 1, b)[i] = a + i
<1>1. Units(a + 1, b) = [i \in 1..(b - a) |-> a + i]
  <2>1. b - (a + 1) + 1 = b - a
    OBVIOUS
  <2>2. \A i \in 1..(b - a) : (a + 1) + i - 1 = a + i
    OBVIOUS
  <2> QED
    BY <2>1, <2>2, Zenon DEF Units
<1>2. b - a \in Nat
  OBVIOUS
<1>3. Units(a + 1, b) \in [1..(b - a) -> Nat]
  BY <1>1
<1>4. Units(a + 1, b) \in Seq(Nat)
  BY <1>2, <1>3 DEF Seq
<1> QED
  BY <1>1, <1>2, <1>3, <1>4, LenProperties

(* The same for a run from the first unit on. *)
LEMMA UnitsFirst ==
    ASSUME NEW m \in Nat
    PROVE  /\ Units(1, m) \in Seq(Nat)
           /\ Len(Units(1, m)) = m
           /\ \A i \in 1..m : Units(1, m)[i] = i
<1>1. Units(1, m) = [i \in 1..m |-> i]
  <2>1. m - 1 + 1 = m /\ \A i \in 1..m : 1 + i - 1 = i
    OBVIOUS
  <2> QED
    BY <2>1, Zenon DEF Units
<1>2. Units(1, m) \in [1..m -> Nat]
  BY <1>1
<1>3. Units(1, m) \in Seq(Nat)
  BY <1>2 DEF Seq
<1> QED
  BY <1>1, <1>2, <1>3, LenProperties

(* The empty runs. *)
LEMMA UnitsNone == Units(1, 0) = <<>> /\ \A b \in Nat : Units(b + 1, b) = <<>>
<1>1. \A b \in Nat : Units(b + 1, b) \in Seq(Nat) /\ Len(Units(b + 1, b)) = 0
  BY UnitsType
<1>2. Units(1, 0) \in Seq(Nat) /\ Len(Units(1, 0)) = 0
  BY UnitsFirst, Zenon
<1> QED
  BY <1>1, <1>2, EmptySeq, Zenon

(* Two runs that follow each other join into one. *)
LEMMA UnitsJoin ==
    ASSUME NEW a \in Nat, NEW b \in Nat, NEW c \in Nat, a <= b, b <= c
    PROVE  Units(a + 1, b) \o Units(b + 1, c) = Units(a + 1, c)
<1> DEFINE x == Units(a + 1, b)
           y == Units(b + 1, c)
           z == Units(a + 1, c)
<1>1. /\ x \in Seq(Nat) /\ Len(x) = b - a
      /\ \A i \in 1..(b - a) : x[i] = a + i
  BY UnitsType, Zenon
<1>2. /\ y \in Seq(Nat) /\ Len(y) = c - b
      /\ \A i \in 1..(c - b) : y[i] = b + i
  BY UnitsType, Zenon
<1>3. /\ z \in Seq(Nat) /\ Len(z) = c - a
      /\ \A i \in 1..(c - a) : z[i] = a + i
  BY UnitsType
<1> HIDE DEF x, y, z
<1>4. /\ x \o y \in Seq(Nat) /\ Len(x \o y) = Len(x) + Len(y)
      /\ \A i \in 1..(Len(x) + Len(y)) :
            (x \o y)[i] = IF i <= Len(x) THEN x[i] ELSE y[i - Len(x)]
  BY <1>1, <1>2, ConcatProperties, Zenon
<1>5. Len(x \o y) = Len(z)
  BY <1>1, <1>2, <1>3, <1>4
<1>6. ASSUME NEW i \in 1..Len(x \o y) PROVE (x \o y)[i] = z[i]
  <2>1. CASE i <= Len(x)
    BY <1>1, <1>2, <1>3, <1>4, <2>1
  <2>2. CASE ~(i <= Len(x))
    <3>1. i - Len(x) \in 1..(c - b)
      BY <1>1, <1>2, <1>4, <2>2
    <3>2. y[i - Len(x)] = b + (i - Len(x))
      BY <1>2, <3>1, Zenon
    <3>3. (x \o y)[i] = y[i - Len(x)]
      <4>1. i \in 1..(Len(x) + Len(y))
        BY <1>4, Zenon
      <4> QED
        BY <1>4, <2>2, <4>1, Zenon
    <3>4. b + (i - Len(x)) = a + i /\ i \in 1..(c - a)
      BY <1>1, <1>2, <1>4
    <3> QED
      BY <1>3, <3>2, <3>3, <3>4, Zenon
  <2> QED
    BY <2>1, <2>2, Zenon
<1>7. x \o y = z
  BY <1>3, <1>4, <1>5, <1>6, SeqEqual, Zenon
<1> QED
  BY <1>7, Zenon DEF x, y, z

(* The same for a run from the first unit on. *)
LEMMA UnitsGrow ==
    ASSUME NEW b \in Nat, NEW c \in Nat, b <= c
    PROVE  Units(1, b) \o Units(b + 1, c) = Units(1, c)
<1>1. ASSUME NEW a \in Nat, a = 0 PROVE Units(1, b) \o Units(b + 1, c) = Units(1, c)
  <2>1. a <= b /\ a + 1 = 1
    BY <1>1
  <2>2. Units(a + 1, b) \o Units(b + 1, c) = Units(a + 1, c)
    BY <2>1, UnitsJoin, Zenon
  <2> QED
    BY <2>1, <2>2, Zenon
<1> QED
  BY <1>1, Zenon

(* The headers and the remainder that filter_headers cuts out of pending. *)
LEMMA UnitsCut ==
    ASSUME NEW m \in Nat, NEW h \in Nat, h <= m
    PROVE  /\ SubSeq(Units(1, m), 1, h) = Units(1, h)
           /\ SubSeq(Units(1, m), h + 1, m) = Units(h + 1, m)
<1> DEFINE p == Units(1, m)
           q == Units(1, h)
           r == Units(h + 1, m)
<1>1. /\ p \in Seq(Nat) /\ Len(p) = m
      /\ \A i \in 1..m : p[i] = i
  BY UnitsFirst, Zenon
<1>2. /\ q \in Seq(Nat) /\ Len(q) = h
      /\ \A i \in 1..h : q[i] = i
  BY UnitsFirst, Zenon
<1>3. /\ r \in Seq(Nat) /\ Len(r) = m - h
      /\ \A i \in 1..(m - h) : r[i] = h + i
  BY UnitsType, Zenon
<1> HIDE DEF p, q, r
<1>4. SubSeq(p, 1, h) = q
  <2>1. /\ SubSeq(p, 1, h) \in Seq(Nat) /\ Len(SubSeq(p, 1, h)) = h
        /\ \A i \in 1..h : SubSeq(p, 1, h)[i] = p[i]
    BY <1>1
  <2> QED
    BY <1>1, <1>2, <2>1, SeqEqual
<1>5. SubSeq(p, h + 1, m) = r
  <2>1. /\ SubSeq(p, h + 1, m) \in Seq(Nat) /\ Len(SubSeq(p, h + 1, m)) = m - h
        /\ \A i \in 1..(m - h) : SubSeq(p, h + 1, m)[i] = p[h + i]
    BY <1>1
  <2> QED
    BY <1>1, <1>3, <2>1, SeqEqual
<1> QED
  BY <1>4, <1>5, Zenon DEF p, q, r
-----------------------------------------------------------------------------
(* The operators on the server-to-client state *)

(* The answers the relay gives are answers. *)
LEMMA AnswerForms ==
    /\ \A k \in {"none", "raw"} : Answer(k) \in Answers /\ Answer(k).kind = k
    /\ \A n \in Nat, e \in BOOLEAN :
          LET a == [kind |-> "rewritten", of |-> n, ended |-> e]
          IN  a \in Answers /\ a.kind = "rewritten" /\ a.of = n /\ a.ended = e
BY Zenon DEF Answer, Answers

(* Counting a rewriting keeps the state typed. *)
LEMMA CountedType ==
    ASSUME NEW s \in S2C, NEW a \in Answers
    PROVE  /\ [s EXCEPT !.skipped = @ + 1] \in S2C
           /\ [s EXCEPT !.rewrites = @ + 1] \in S2C
           /\ [s EXCEPT !.rewrites = @ + 1, !.answer = a] \in S2C
<1>1. s.skipped + 1 \in Nat /\ s.rewrites + 1 \in Nat
  BY DEF S2C
<1>2. [s EXCEPT !.skipped = @ + 1] \in S2C
  BY <1>1, Zenon DEF S2C
<1>3. [s EXCEPT !.rewrites = @ + 1] \in S2C
  BY <1>1, Zenon DEF S2C
<1>4. [s EXCEPT !.rewrites = @ + 1, !.answer = a] \in S2C
  BY <1>1, Zenon DEF S2C
<1> QED
  BY <1>2, <1>3, <1>4, Zenon

(* However attempt_body_rewrite ends, or when it is not tried: headers and *)
(* body are sent once, in order, and nothing is held back.                 *)
LEMMA Released ==
    ASSUME resp \in Responses, NEW s \in S2C, Deferred(s),
           NEW n \in Nat, NEW ended \in BOOLEAN,
           ~ended => n = resp.body /\ resp.body <= MaxBody,
           NEW t, \/ t \in attempt_body_rewrite(s, n, ended)
                  \/ t = SendRaw(s)
                  \/ t = [SendRaw(s) EXCEPT !.skipped = @ + 1]
    PROVE  t \in S2C /\ Passing(t) /\ t.read = s.read /\ t.closed = s.closed
<1> DEFINE r == SendRaw(s)
           all == s.sent \o s.headers \o s.body
           rewritten == [kind |-> "rewritten", of |-> n, ended |-> ended]
<1>1. resp.head \in Nat \ {0}
  BY RelayAssumption, Zenon
<1>2. all = Units(1, s.read) /\ all \in Buffer
  <2>1. s.read \in Nat /\ s.read >= resp.head
    BY Zenon DEF Deferred, S2C
  <2>2. <<>> \o Units(1, resp.head) = Units(1, resp.head)
    BY <1>1, UnitsFirst, ConcatEmptySeq, Zenon
  <2>3. Units(1, resp.head) \o Units(resp.head + 1, s.read) = Units(1, s.read)
    BY <1>1, <2>1, UnitsGrow, Zenon
  <2>4. s.sent = <<>> /\ s.headers = Units(1, resp.head) /\ s.body = Units(resp.head + 1, s.read)
    BY Zenon DEF Deferred
  <2>5. all = Units(1, s.read)
    BY <2>2, <2>3, <2>4, Zenon
  <2> QED
    BY <2>1, <2>5, UnitsFirst, Zenon DEF Buffer
<1>3. r = [s EXCEPT !.sent = all, !.headers = <<>>, !.buffering = FALSE, !.answer = Answer("raw")]
  BY Zenon DEF SendRaw
<1>4. /\ rewritten \in Answers /\ rewritten.kind = "rewritten" /\ rewritten.of = n
      /\ rewritten.ended = ended /\ Answer("raw") \in Answers /\ Answer("raw").kind = "raw"
  BY AnswerForms, Zenon
<1>5. <<>> \in Buffer
  BY DEF Buffer
<1>6. /\ s.filtered /\ s.pending = <<>> /\ s.read > 0
      /\ s.rewrites = 0 /\ s.skipped = 0 /\ s.policy = "applied"
  BY <1>1 DEF Deferred, S2C
<1> HIDE DEF r, all, rewritten
<1>7. \/ t = r
      \/ t = [r EXCEPT !.skipped = @ + 1]
      \/ t = [r EXCEPT !.rewrites = @ + 1]
      \/ t = [r EXCEPT !.rewrites = @ + 1, !.answer = rewritten]
  BY Zenon DEF attempt_body_rewrite, r, rewritten
<1>8. /\ r \in S2C /\ r.closed = s.closed /\ r.read = s.read
      /\ r.sent = all /\ r.headers = <<>> /\ r.buffering = FALSE
      /\ r.pending = s.pending /\ r.filtered = s.filtered /\ r.policy = s.policy
      /\ r.answer = Answer("raw")
      /\ r.rewrites = s.rewrites /\ r.skipped = s.skipped
  BY <1>2, <1>3, <1>4, <1>5, Zenon DEF S2C
<1>9. t \in S2C
  BY <1>4, <1>7, <1>8, CountedType, Zenon
<1>10. /\ t.closed = s.closed /\ t.read = s.read
       /\ t.sent = all /\ t.headers = <<>> /\ t.buffering = FALSE
       /\ t.pending = s.pending /\ t.filtered = s.filtered /\ t.policy = s.policy
  BY <1>7, <1>8, ZenonT(30) DEF S2C
<1>11. t.answer \in {Answer("raw"), rewritten}
  BY <1>7, <1>8, Zenon DEF S2C
<1>12. \/ t.rewrites = r.rewrites /\ t.skipped = r.skipped
       \/ t.rewrites = r.rewrites /\ t.skipped = r.skipped + 1
       \/ t.rewrites = r.rewrites + 1 /\ t.skipped = r.skipped
  BY <1>7, <1>8, Zenon DEF S2C
<1>13. t.rewrites + t.skipped <= 1
  <2>1. r.rewrites = 0 /\ r.skipped = 0
    BY <1>6, <1>8, Zenon
  <2> QED
    BY <1>12, <2>1
<1> QED
  BY <1>2, <1>4, <1>6, <1>9, <1>10, <1>11, <1>13, Zenon DEF Passing

(* Bytes of a body that is being buffered: it stays buffered within its    *)
(* limit, and not when all of it is there, or goes out whole.              *)
LEMMA BufferBody ==
    ASSUME resp \in Responses, NEW s \in S2C, Deferred(s), ~s.closed,
           resp.framing = "length" => resp.body <= MaxBody,
           NEW t \in buffer_body(s)
    PROVE  /\ Phase(t) /\ t.read = s.read
           /\ resp.framing \in {"length", "chunked"} /\ s.read >= resp.head + resp.body
                => ~t.buffering
<1>1. resp.head \in Nat \ {0} /\ resp.body \in Nat /\ MaxBody \in Nat /\ ReadSize \in Nat
  BY RelayAssumption, Zenon
<1>2. s.read \in Nat /\ Len(s.body) = s.read - resp.head
  <2>1. s.read \in Nat /\ resp.head <= s.read /\ s.body = Units(resp.head + 1, s.read)
    BY <1>1, Zenon DEF Deferred, S2C
  <2> QED
    BY <1>1, <2>1, UnitsType, Zenon
<1>3. CASE t \in attempt_body_rewrite(s, resp.body, FALSE) /\ resp.body <= MaxBody
  <2>1. t \in S2C /\ Passing(t) /\ t.read = s.read
    BY <1>1, <1>3, Released, Zenon
  <2> QED
    BY <2>1, Zenon DEF Phase, Passing
<1>4. CASE t = [SendRaw(s) EXCEPT !.skipped = @ + 1]
  <2>1. t \in S2C /\ Passing(t) /\ t.read = s.read
    BY <1>1, <1>4, Released, Zenon
  <2> QED
    BY <2>1, Zenon DEF Phase, Passing
<1>5. CASE /\ t = s /\ Len(s.body) < MaxBody
           /\ ~(resp.framing = "length" /\ Len(s.body) >= resp.body)
           /\ ~(resp.framing = "chunked" /\ Len(s.body) >= resp.body)
  <2>1. Buffering(t)
    BY <1>5, Zenon DEF Buffering
  <2>2. ~(resp.framing \in {"length", "chunked"} /\ s.read >= resp.head + resp.body)
    BY <1>1, <1>2, <1>5
  <2> QED
    BY <1>5, <2>1, <2>2, Zenon DEF Phase, Deferred
<1>6. \/ t \in attempt_body_rewrite(s, resp.body, FALSE) /\ resp.body <= MaxBody
      \/ t = [SendRaw(s) EXCEPT !.skipped = @ + 1]
      \/ /\ t = s /\ Len(s.body) < MaxBody
         /\ ~(resp.framing = "length" /\ Len(s.body) >= resp.body)
         /\ ~(resp.framing = "chunked" /\ Len(s.body) >= resp.body)
  <2> DEFINE at_limit == Len(s.body) >= MaxBody
             at_content_length == resp.framing = "length" /\ Len(s.body) >= resp.body
             chunked_parsed == ~at_limit /\ ChunksComplete(s)
             rewritten == attempt_body_rewrite(s, resp.body, FALSE)
             raw == [SendRaw(s) EXCEPT !.skipped = @ + 1]
  <2>1. buffer_body(s) = IF at_limit /\ ~chunked_parsed /\ ~at_content_length THEN {raw}
                         ELSE IF chunked_parsed \/ at_content_length THEN rewritten ELSE {s}
    BY Zenon DEF buffer_body
  <2>2. chunked_parsed \/ at_content_length => resp.body <= MaxBody
    BY <1>1, <1>2 DEF ChunksComplete
  <2>3. ~at_limit => Len(s.body) < MaxBody
    BY <1>1, <1>2
  <2>4. ~at_limit /\ ~chunked_parsed => ~(resp.framing = "chunked" /\ Len(s.body) >= resp.body)
    BY Zenon DEF ChunksComplete
  <2> HIDE DEF at_limit, at_content_length, chunked_parsed, rewritten, raw
  <2>5. \/ t \in rewritten /\ (chunked_parsed \/ at_content_length)
        \/ t = raw
        \/ t = s /\ ~at_limit /\ ~chunked_parsed /\ ~at_content_length
    BY <2>1, Zenon
  <2> QED
    BY <2>2, <2>3, <2>4, <2>5, Zenon DEF at_content_length, rewritten, raw
<1> QED
  BY <1>3, <1>4, <1>5, <1>6, Zenon

(* Bytes of the header block: it is still incomplete, or over its limit    *)
(* and goes out with what followed it, or is filtered.                     *)
LEMMA FilterHeaders ==
    ASSUME resp \in Responses, NEW s \in S2C, Gathered(s), ~s.closed,
           NEW n \in 1..ReadSize, s.read - n < resp.head, s.read >= n,
           NEW t \in filter_headers(s)
    PROVE  Phase(t) /\ t.read = s.read
<1> DEFINE p == s.pending
           q == s.sent \o p
           h == SubSeq(p, 1, resp.head)
           remainder == SubSeq(p, resp.head + 1, Len(p))
<1>1. /\ resp.head \in Nat \ {0} /\ resp.body \in Nat /\ MaxBody \in Nat
      /\ ReadSize \in Nat /\ MaxHead \in Nat /\ resp.announced \in Nat
      /\ resp.framing = "length" => resp.announced = resp.body
  BY RelayAssumption, Zenon
<1>2. s.read \in Nat /\ s.read > 0 /\ p = Units(1, s.read) /\ Len(p) = s.read /\ p \in Buffer
  BY UnitsFirst DEF Gathered, S2C, Buffer
<1>3. q = Units(1, s.read) /\ q \in Buffer
  <2>1. <<>> \o p = p
    BY <1>2, ConcatEmptySeq, Zenon DEF Buffer
  <2> QED
    BY <1>2, <2>1, Zenon DEF Gathered
<1>4. Answer("raw") \in Answers /\ Answer("raw").kind = "raw" /\ <<>> \in Buffer
  BY AnswerForms DEF Buffer
<1>5. {"applied", "bypassed"} \subseteq Policies
  BY Zenon DEF Policies
<1> HIDE DEF p, q, h, remainder
<1>6. CASE /\ t = [[s EXCEPT !.sent = q, !.pending = <<>>, !.filtered = TRUE,
                             !.answer = Answer("raw")] EXCEPT !.policy = "bypassed"]
           /\ Len(p) > MaxHead
  <2>1. t \in S2C
    BY <1>3, <1>4, <1>5, <1>6, Zenon DEF S2C
  <2>2. /\ t.filtered = TRUE /\ t.buffering = s.buffering /\ t.pending = <<>>
        /\ t.headers = s.headers /\ t.sent = q /\ t.read = s.read /\ t.policy = "bypassed"
        /\ t.answer = Answer("raw") /\ t.rewrites = s.rewrites /\ t.skipped = s.skipped
    BY <1>6, Zenon DEF S2C
  <2>3. resp.head + ReadSize > MaxHead + 1
    BY <1>1, <1>2, <1>6
  <2>4. Passing(t)
    BY <1>2, <1>3, <1>4, <2>2, <2>3 DEF Passing, Gathered
  <2> QED
    BY <2>1, <2>2, <2>4, <1>4, Zenon DEF Phase
<1>7. CASE t = s /\ Len(p) <= MaxHead /\ Len(p) < resp.head
  <2>1. Heading(t)
    BY <1>2, <1>7, Zenon DEF Heading
  <2> QED
    BY <1>7, <2>1, Zenon DEF Phase
<1>8. CASE t = [[s EXCEPT !.sent = q, !.pending = <<>>, !.filtered = TRUE,
                          !.answer = Answer("raw")] EXCEPT !.policy = "applied"]
  <2>1. t \in S2C
    BY <1>3, <1>4, <1>5, <1>8, Zenon DEF S2C
  <2>2. /\ t.filtered = TRUE /\ t.buffering = s.buffering /\ t.pending = <<>>
        /\ t.headers = s.headers /\ t.sent = q /\ t.read = s.read /\ t.policy = "applied"
        /\ t.answer = Answer("raw") /\ t.rewrites = s.rewrites /\ t.skipped = s.skipped
    BY <1>8, Zenon DEF S2C
  <2>3. Passing(t)
    BY <1>2, <1>3, <1>4, <2>2 DEF Passing, Gathered
  <2> QED
    BY <2>1, <2>2, <2>3, <1>4, Zenon DEF Phase
<1>9. CASE t = [[s EXCEPT !.sent = q, !.pending = <<>>, !.filtered = TRUE,
                          !.answer = Answer("raw")]
                  EXCEPT !.policy = "applied", !.skipped = @ + 1]
  <2>1. t \in S2C
    <3> s.skipped + 1 \in Nat
      BY DEF S2C
    <3> QED
      BY <1>3, <1>4, <1>5, <1>9, Zenon DEF S2C
  <2>2. /\ t.filtered = TRUE /\ t.buffering = s.buffering /\ t.pending = <<>>
        /\ t.headers = s.headers /\ t.sent = q /\ t.read = s.read /\ t.policy = "applied"
        /\ t.answer = Answer("raw") /\ t.rewrites = s.rewrites /\ t.skipped = s.skipped + 1
    BY <1>9, Zenon DEF S2C
  <2>3. Passing(t)
    BY <1>2, <1>3, <1>4, <2>2 DEF Passing, Gathered
  <2> QED
    BY <2>1, <2>2, <2>3, <1>4, Zenon DEF Phase
<1>10. CASE /\ t = [[s EXCEPT !.pending = <<>>, !.filtered = TRUE, !.policy = "applied"]
                      EXCEPT !.headers = h, !.body = remainder, !.buffering = TRUE]
            /\ Len(p) >= resp.head
            /\ ~(resp.announced > MaxBody)
  <2>1. /\ h = Units(1, resp.head) /\ h \in Buffer
        /\ remainder = Units(resp.head + 1, s.read) /\ remainder \in Buffer
        /\ Len(remainder) = s.read - resp.head
    <3>1. resp.head <= s.read
      BY <1>2, <1>10, Zenon
    <3>2. h = Units(1, resp.head) /\ remainder = Units(resp.head + 1, s.read)
      BY <1>1, <1>2, <3>1, UnitsCut, Zenon DEF h, remainder
    <3>3. Units(resp.head + 1, s.read) \in Buffer
          /\ Len(Units(resp.head + 1, s.read)) = s.read - resp.head
      BY <1>1, <1>2, <3>1, UnitsType, Zenon DEF Buffer
    <3> QED
      BY <1>1, <3>2, <3>3, UnitsFirst, Zenon DEF Buffer
  <2>2. t \in S2C
    BY <1>4, <1>5, <1>10, <2>1, Zenon DEF S2C
  <2>3. /\ t.filtered = TRUE /\ t.buffering = TRUE /\ t.pending = <<>> /\ t.closed = s.closed
        /\ t.headers = h /\ t.body = remainder /\ t.sent = s.sent /\ t.read = s.read
        /\ t.policy = "applied" /\ t.answer = s.answer
        /\ t.rewrites = s.rewrites /\ t.skipped = s.skipped
    BY <1>10, Zenon DEF S2C
  <2>4. Deferred(t)
    BY <1>2, <1>10, <2>1, <2>3, Zenon DEF Deferred, Gathered
  <2>5. Len(t.body) < ReadSize
    BY <1>1, <1>2, <2>1, <2>3
  <2>6. resp.framing = "length" => resp.body <= MaxBody
    BY <1>1, <1>10
  <2>7. Buffering(t)
    BY <2>3, <2>4, <2>5, <2>6, Zenon DEF Buffering
  <2> QED
    BY <2>2, <2>3, <2>7, Zenon DEF Phase
<1> QED
  BY <1>1, <1>2, <1>6, <1>7, <1>8, <1>9, <1>10 DEF filter_headers, p, q, h, remainder

(* A read from the upstream leads from phase to phase, and the one that    *)
(* completes a buffered body ends the buffering.                           *)
LEMMA UpstreamBytes ==
    ASSUME resp \in Responses, NEW s, Phase(s), ~s.closed,
           NEW n \in 1..ReadSize,
           NEW t \in upstream_bytes([s EXCEPT !.read = @ + n], Units(s.read + 1, s.read + n))
    PROVE  /\ Phase(t) /\ t.read = s.read + n
           /\ /\ s.buffering /\ resp.framing \in {"length", "chunked"}
              /\ t.read >= resp.head + resp.body
              => ~t.buffering
<1> DEFINE m == s.read + n
           new == Units(s.read + 1, s.read + n)
           u == [s EXCEPT !.read = @ + n]
           pending == s.pending \o new
           body == s.body \o new
           sent == s.sent \o new
<1>1. resp.head \in Nat \ {0} /\ ReadSize \in Nat
  BY RelayAssumption, Zenon
<1>2. s \in S2C /\ s.read \in Nat /\ n \in Nat \ {0} /\ m \in Nat /\ m > s.read
  BY <1>1 DEF Phase, S2C
<1>3. u.read = m /\ u \in S2C
  BY <1>2, Zenon DEF S2C
<1>4. new = Units(s.read + 1, m) /\ new \in Buffer
  BY <1>2, UnitsType DEF Buffer
<1>5. /\ u.closed = s.closed /\ u.filtered = s.filtered /\ u.pending = s.pending
      /\ u.buffering = s.buffering /\ u.body = s.body /\ u.headers = s.headers
      /\ u.sent = s.sent /\ u.answer = s.answer /\ u.policy = s.policy
      /\ u.rewrites = s.rewrites /\ u.skipped = s.skipped
  BY <1>2, Zenon DEF S2C
<1> HIDE DEF m, new, u, pending, body, sent
<1>6. t \in IF u.buffering THEN buffer_body([u EXCEPT !.body = body])
             ELSE IF u.filtered THEN {[u EXCEPT !.sent = sent]}
             ELSE filter_headers([u EXCEPT !.pending = pending])
  BY <1>5, Zenon DEF upstream_bytes, u, new, pending, body, sent
<1>7. s.read \in Nat /\ m \in Nat /\ s.read <= m
  BY <1>2
<1>8. Units(1, s.read) \o Units(s.read + 1, m) = Units(1, m)
  BY <1>7, UnitsGrow, Zenon
<1>9. Units(1, m) \in Buffer
  BY <1>2, UnitsFirst, Zenon DEF Buffer
<1>10. CASE Heading(s)
  <2> DEFINE v == [u EXCEPT !.pending = pending]
  <2>1. pending = Units(1, m) /\ pending \in Buffer
    BY <1>4, <1>10, <1>8, <1>9, Zenon DEF Heading, Gathered, pending
  <2>2. v \in S2C
    BY <1>3, <2>1, Zenon DEF S2C
  <2>3. /\ v.closed = s.closed /\ v.filtered = s.filtered /\ v.pending = pending
        /\ v.buffering = s.buffering /\ v.headers = s.headers /\ v.read = m
        /\ v.sent = s.sent /\ v.answer = s.answer /\ v.policy = s.policy
        /\ v.rewrites = s.rewrites /\ v.skipped = s.skipped
    BY <1>3, <1>5, Zenon DEF S2C
  <2>4. t \in filter_headers(v)
    BY <1>5, <1>6, <1>10, Zenon DEF Heading, Gathered
  <2> HIDE DEF v
  <2>5. Gathered(v) /\ ~v.closed
    BY <1>10, <2>1, <2>3, Zenon DEF Heading, Gathered
  <2>6. v.read - n < resp.head /\ v.read >= n
    BY <1>1, <1>2, <1>10, <2>3 DEF Heading, m
  <2>7. Phase(t) /\ t.read = m
    BY <2>2, <2>3, <2>4, <2>5, <2>6, FilterHeaders, Zenon
  <2> QED
    BY <1>10, <2>7, Zenon DEF Heading, Gathered, m
<1>11. CASE Buffering(s)
  <2> DEFINE v == [u EXCEPT !.body = body]
  <2>1. body = Units(resp.head + 1, m) /\ body \in Buffer
    <3>1. s.read >= resp.head /\ s.body = Units(resp.head + 1, s.read)
      BY <1>11, Zenon DEF Buffering, Deferred
    <3>2. Units(resp.head + 1, s.read) \o Units(s.read + 1, m) = Units(resp.head + 1, m)
      BY <1>1, <1>7, <3>1, UnitsJoin, Zenon
    <3>3. resp.head <= m
      BY <1>1, <1>7, <3>1
    <3>4. Units(resp.head + 1, m) \in Buffer
      BY <1>1, <1>7, <3>3, UnitsType, Zenon DEF Buffer
    <3> QED
      BY <1>4, <3>1, <3>2, <3>4, Zenon DEF body
  <2>2. v \in S2C
    BY <1>3, <2>1, Zenon DEF S2C
  <2>3. /\ v.closed = s.closed /\ v.filtered = s.filtered /\ v.pending = s.pending
        /\ v.buffering = s.buffering /\ v.headers = s.headers /\ v.read = m /\ v.body = body
        /\ v.sent = s.sent /\ v.answer = s.answer /\ v.policy = s.policy
        /\ v.rewrites = s.rewrites /\ v.skipped = s.skipped
    BY <1>3, <1>5, Zenon DEF S2C
  <2>4. t \in buffer_body(v)
    BY <1>5, <1>6, <1>11, Zenon DEF Buffering, Deferred
  <2> HIDE DEF v
  <2>5. Deferred(v) /\ ~v.closed
    BY <1>1, <1>2, <1>11, <2>1, <2>3 DEF Buffering, Deferred
  <2>6. resp.framing = "length" => resp.body <= MaxBody
    BY <1>11, Zenon DEF Buffering
  <2>7. /\ Phase(t) /\ t.read = m
        /\ resp.framing \in {"length", "chunked"} /\ m >= resp.head + resp.body => ~t.buffering
    BY <2>2, <2>3, <2>4, <2>5, <2>6, BufferBody, Zenon
  <2> QED
    BY <2>7, Zenon DEF m
<1>12. CASE Passing(s)
  <2>1. sent = Units(1, m) /\ sent \in Buffer
    BY <1>4, <1>12, <1>8, <1>9, Zenon DEF Passing, sent
  <2>2. t = [u EXCEPT !.sent = sent]
    BY <1>5, <1>6, <1>12, Zenon DEF Passing
  <2>3. t \in S2C
    BY <1>3, <2>1, <2>2, Zenon DEF S2C
  <2>4. /\ t.closed = s.closed /\ t.filtered = s.filtered /\ t.pending = s.pending
        /\ t.buffering = s.buffering /\ t.headers = s.headers /\ t.read = m
        /\ t.sent = sent /\ t.answer = s.answer /\ t.policy = s.policy
        /\ t.rewrites = s.rewrites /\ t.skipped = s.skipped
    BY <1>3, <1>5, <2>2, Zenon DEF S2C
  <2>5. Passing(t)
    BY <1>2, <1>12, <2>1, <2>4 DEF Passing
  <2> QED
    BY <1>12, <2>3, <2>4, <2>5, Zenon DEF Phase, Passing, m
<1> QED
  BY <1>10, <1>11, <1>12, Zenon DEF Phase

(* At the end of the stream nothing is held back.                          *)
LEMMA Flushed ==
    ASSUME resp \in Responses, NEW s, Phase(s), ~s.closed, NEW t \in flush(s)
    PROVE  Phase(t) /\ t.read = s.read
<1> DEFINE q == s.sent \o s.pending
           f == s.filtered \/ s.pending # <<>>
           u == [s EXCEPT !.closed = TRUE, !.filtered = f, !.sent = q, !.pending = <<>>]
<1>1. resp.head \in Nat \ {0} /\ resp.body \in Nat
  BY RelayAssumption, Zenon
<1>2. s \in S2C /\ s.read \in Nat
  BY Zenon DEF Phase, S2C
<1>3. <<>> \in Buffer /\ f \in BOOLEAN
  BY DEF Buffer
<1>4. q \in Buffer
  BY <1>2, ConcatProperties, Zenon DEF S2C, Buffer
<1>5. t \in IF ~s.buffering THEN {u}
             ELSE IF resp.framing \in {"chunked", "malformed"}
               THEN IF ChunksComplete(s) THEN attempt_body_rewrite(u, resp.body, TRUE)
                    ELSE {SendRaw(u)}
               ELSE attempt_body_rewrite(u, Len(s.body), TRUE)
  BY Zenon DEF flush
<1> HIDE DEF q, f
<1>6. u \in S2C
  BY <1>2, <1>3, <1>4, Zenon DEF S2C
<1>7. /\ u.closed = TRUE /\ u.filtered = f /\ u.pending = <<>>
      /\ u.buffering = s.buffering /\ u.body = s.body /\ u.headers = s.headers
      /\ u.sent = q /\ u.answer = s.answer /\ u.policy = s.policy /\ u.read = s.read
      /\ u.rewrites = s.rewrites /\ u.skipped = s.skipped
  BY <1>2, Zenon DEF S2C
<1> HIDE DEF u
<1>8. CASE Heading(s)
  <2>1. t = u
    BY <1>5, <1>8, Zenon DEF Heading, Gathered
  <2>2. q = Units(1, s.read)
    BY <1>2, <1>8, UnitsFirst, ConcatEmptySeq, Zenon DEF Heading, Gathered, q
  <2>3. CASE s.read = 0
    <3>1. s.pending = <<>> /\ q = <<>>
      BY <1>8, <2>2, <2>3, UnitsNone, Zenon DEF Heading, Gathered
    <3>2. ~f
      BY <1>8, <3>1, Zenon DEF f, Heading, Gathered
    <3>3. Heading(u)
      BY <1>7, <1>8, <2>2, <2>3, <3>1, <3>2, Zenon DEF Heading, Gathered
    <3> QED
      BY <1>6, <1>7, <2>1, <2>3, <3>3, Zenon DEF Phase
  <2>4. CASE s.read # 0
    <3>1. s.pending # <<>>
      <4>1. Len(s.pending) = s.read
        BY <1>2, <1>8, UnitsFirst, Zenon DEF Heading, Gathered
      <4> QED
        BY <2>4, <4>1, EmptySeq, Zenon
    <3>2. f
      BY <3>1, Zenon DEF f
    <3>3. s.answer.kind = "none"
      BY <1>8, <2>4, Zenon DEF Heading, Gathered
    <3>4. Passing(u)
      BY <1>2, <1>7, <1>8, <2>2, <2>4, <3>2, <3>3 DEF Heading, Gathered, Passing
    <3> QED
      BY <1>6, <1>7, <2>1, <3>4, Zenon DEF Phase, Passing
  <2> QED
    BY <2>3, <2>4, Zenon
<1>9. CASE Buffering(s)
  <2>1. q = <<>> /\ f
    BY <1>9, ConcatEmptySeq, EmptySeq, Zenon DEF Buffering, Deferred, q, f
  <2>2. Deferred(u)
    BY <1>7, <1>9, <2>1, Zenon DEF Buffering, Deferred
  <2>3. Len(s.body) \in Nat
    BY <1>2, LenProperties, Zenon DEF S2C, Buffer
  <2>4. \/ t = SendRaw(u)
        \/ t \in attempt_body_rewrite(u, resp.body, TRUE)
        \/ t \in attempt_body_rewrite(u, Len(s.body), TRUE)
    BY <1>5, <1>9, Zenon DEF Buffering, Deferred
  <2>5. PICK n \in Nat : t = SendRaw(u) \/ t \in attempt_body_rewrite(u, n, TRUE)
    BY <1>1, <2>3, <2>4, Zenon
  <2>6. t \in S2C /\ Passing(t) /\ t.read = u.read
    BY <1>1, <1>6, <2>2, <2>5, Released, ZenonT(30)
  <2> QED
    BY <1>7, <2>6, Zenon DEF Phase, Passing
<1>10. CASE Passing(s)
  <2>1. t = u
    BY <1>5, <1>10, Zenon DEF Passing
  <2>2. q = s.sent /\ f
    BY <1>2, <1>10, ConcatEmptySeq, Zenon DEF Passing, q, f, S2C, Buffer
  <2>3. Passing(u)
    BY <1>7, <1>10, <2>2, Zenon DEF Passing
  <2> QED
    BY <1>6, <1>7, <2>1, <2>3, Zenon DEF Phase, Passing
<1> QED
  BY <1>8, <1>9, <1>10, Zenon DEF Phase
-----------------------------------------------------------------------------
(* The relay *)

(* A connection starts before the first header block, with nothing read.   *)
LEMMA RelayInvInit == Init => RelayInv
<1> SUFFICES ASSUME Init PROVE RelayInv
  BY Zenon
<1>1. resp.head \in Nat \ {0} /\ MaxHead \in Nat
  BY RelayAssumption, Zenon DEF Init
<1>2. <<>> \in Buffer /\ Answer("none") \in Answers /\ Answer("none").kind = "none"
  BY AnswerForms DEF Buffer
<1>3. "none" \in Policies
  BY Zenon DEF Policies
<1>4. s2c \in S2C
  BY <1>2, <1>3, Zenon DEF Init, S2C
<1>5. c2s \in C2S
  BY <1>2, Zenon DEF Init, C2S
<1>6. Heading(s2c)
  <2>1. /\ s2c.closed = FALSE /\ s2c.filtered = FALSE /\ s2c.pending = <<>>
        /\ s2c.buffering = FALSE /\ s2c.headers = <<>> /\ s2c.read = 0 /\ s2c.sent = <<>>
        /\ s2c.answer = Answer("none") /\ s2c.policy = "none" /\ s2c.rewrites = 0
        /\ s2c.skipped = 0
    BY Zenon DEF Init
  <2>2. 0 < resp.head /\ 0 <= MaxHead
    BY <1>1
  <2> QED
    BY <1>2, <2>1, <2>2, UnitsNone, Zenon DEF Heading, Gathered
<1>7. Requested
  BY <1>2, UnitsNone DEF Init, Requested
<1> QED
  BY <1>4, <1>5, <1>6, <1>7, Zenon DEF RelayInv, TypeOK, Phase, Init

(* A phase only depends on the response and on the state it is about. *)
LEMMA PhaseKept ==
    ASSUME Phase(s2c), UNCHANGED <<resp, s2c>>
    PROVE  Phase(s2c)'
BY Zenon DEF Phase, Heading, Gathered, Buffering, Deferred, Passing

(* A phase of the new state is a phase after the step. *)
LEMMA PhaseNext ==
    ASSUME Phase(s2c'), UNCHANGED resp
    PROVE  Phase(s2c)'
<1>1. Heading(s2c') => Heading(s2c)'
  BY Zenon DEF Heading, Gathered
<1>2. Buffering(s2c') => Buffering(s2c)'
  BY Zenon DEF Buffering, Deferred
<1>3. Passing(s2c') => Passing(s2c)'
  BY Zenon DEF Passing
<1> QED
  BY <1>1, <1>2, <1>3, Zenon DEF Phase

(* The client's bytes: the first read is checked before any is sent.       *)
LEMMA ClientRead == RelayInv /\ client_read => RelayInv'
<1> SUFFICES ASSUME RelayInv, client_read PROVE RelayInv'
  BY Zenon
<1>1. PICK n \in 1..ReadSize : c2s.read + n <= req.len /\ (first_request(n) \/ later_request(n))
  BY Zenon DEF client_read
<1>2. /\ over = "no" /\ UNCHANGED <<resp, req>> /\ TypeOK /\ Phase(s2c) /\ Requested
      /\ c2s \in C2S /\ c2s.read \in Nat /\ n \in Nat \ {0} /\ s2c \in S2C
      /\ c2s.refused = FALSE /\ c2s.sent = Units(1, c2s.read) /\ c2s.sent \in Buffer
  BY RelayAssumption DEF RelayInv, TypeOK, client_read, C2S, Requested
<1>3. CASE first_request(n) /\ req.blocked /\ req.upgrade \in 1..n
  <2>1. /\ c2s' = [c2s EXCEPT !.checked = TRUE, !.read = n, !.refused = TRUE] /\ over' = "ok"
        /\ ~c2s.checked /\ UNCHANGED s2c
    BY <1>3, Zenon DEF first_request
  <2>2. /\ c2s' \in C2S /\ c2s'.sent = c2s.sent /\ c2s'.read = n /\ c2s'.checked = TRUE
        /\ c2s'.refused = TRUE
    BY <1>2, <2>1, Zenon DEF C2S
  <2>3. c2s.read = 0
    BY <1>2, <2>1 DEF Requested
  <2>4. c2s.sent = <<>>
    BY <1>2, <2>3, UnitsNone, Zenon
  <2>5. Requested'
    BY <1>2, <2>1, <2>2, <2>4 DEF Requested
  <2> QED
    BY <1>2, <2>1, <2>2, <2>5, PhaseKept, Zenon DEF RelayInv, TypeOK
<1>4. CASE first_request(n) /\ ~(req.blocked /\ req.upgrade \in 1..n)
  <2>1. /\ c2s' = [c2s EXCEPT !.checked = TRUE, !.read = n, !.sent = Units(1, n)]
        /\ UNCHANGED <<s2c, over>>
    BY <1>4, Zenon DEF first_request
  <2>2. Units(1, n) \in Buffer
    BY <1>2, UnitsFirst, Zenon DEF Buffer
  <2>3. /\ c2s' \in C2S /\ c2s'.sent = Units(1, n) /\ c2s'.read = n /\ c2s'.checked = TRUE
        /\ c2s'.refused = FALSE
    BY <1>2, <2>1, <2>2, Zenon DEF C2S
  <2>4. Requested'
    BY <1>2, <2>1, <2>3 DEF Requested
  <2> QED
    BY <1>2, <2>1, <2>3, <2>4, PhaseKept, Zenon DEF RelayInv, TypeOK
<1>5. CASE later_request(n)
  <2> DEFINE m == c2s.read + n
             new == c2s.sent \o Units(c2s.read + 1, m)
  <2>1. /\ c2s' = [c2s EXCEPT !.read = m, !.sent = new]
        /\ c2s.checked /\ UNCHANGED <<s2c, over>>
    BY <1>5, Zenon DEF later_request
  <2>2. m \in Nat /\ m > 0 /\ c2s.read <= m
    BY <1>2
  <2> HIDE DEF m
  <2>3. Units(1, c2s.read) \o Units(c2s.read + 1, m) = Units(1, m)
    BY <1>2, <2>2, UnitsGrow, Zenon
  <2>4. Units(1, m) \in Buffer
    BY <2>2, UnitsFirst, Zenon DEF Buffer
  <2>5. new = Units(1, m) /\ new \in Buffer
    BY <1>2, <2>3, <2>4, Zenon
  <2> HIDE DEF new
  <2>6. /\ c2s' \in C2S /\ c2s'.sent = new /\ c2s'.read = m /\ c2s'.checked = c2s.checked
        /\ c2s'.refused = FALSE
    BY <1>2, <2>1, <2>2, <2>5, Zenon DEF C2S
  <2>7. Requested'
    BY <1>2, <2>1, <2>2, <2>5, <2>6 DEF Requested
  <2> QED
    BY <1>2, <2>1, <2>6, <2>7, PhaseKept, Zenon DEF RelayInv, TypeOK
<1> QED
  BY <1>1, <1>3, <1>4, <1>5, Zenon

(* What a read from the upstream means for the relay's state.              *)
LEMMA UpstreamRead ==
    ASSUME RelayInv, upstream_read
    PROVE  /\ RelayInv'
           /\ /\ s2c.buffering /\ resp.framing \in {"length", "chunked"}
              /\ s2c'.read >= resp.head + resp.body
              => ~s2c'.buffering
<1>1. PICK n \in 1..ReadSize :
         s2c' \in upstream_bytes([s2c EXCEPT !.read = @ + n], Units(s2c.read + 1, s2c.read + n))
  BY Zenon DEF upstream_read
<1>2. /\ resp \in Responses /\ Phase(s2c) /\ ~s2c.closed
      /\ UNCHANGED <<resp, req, c2s, over>>
  BY Zenon DEF RelayInv, TypeOK, upstream_read
<1>3. /\ Phase(s2c')
      /\ /\ s2c.buffering /\ resp.framing \in {"length", "chunked"}
         /\ s2c'.read >= resp.head + resp.body
         => ~s2c'.buffering
  BY <1>1, <1>2, UpstreamBytes, Zenon
<1>4. Phase(s2c)' /\ s2c' \in S2C
  BY <1>2, <1>3, PhaseNext, Zenon DEF Phase
<1>5. Requested'
  BY <1>2, Zenon DEF Requested, RelayInv
<1> QED
  BY <1>2, <1>3, <1>4, <1>5, Zenon DEF RelayInv, TypeOK

(* The end of the upstream's stream.                                       *)
LEMMA UpstreamEof == RelayInv /\ upstream_eof => RelayInv'
<1> SUFFICES ASSUME RelayInv, upstream_eof PROVE RelayInv'
  BY Zenon
<1>1. /\ resp \in Responses /\ Phase(s2c) /\ ~s2c.closed /\ s2c' \in flush(s2c)
      /\ UNCHANGED <<resp, req, c2s>> /\ over' \in {"no", "ok"} /\ over = "no"
  BY Zenon DEF RelayInv, TypeOK, upstream_eof
<1>2. Phase(s2c') /\ s2c'.read = s2c.read
  BY <1>1, Flushed, Zenon
<1>3. Phase(s2c)' /\ s2c' \in S2C
  BY <1>1, <1>2, PhaseNext, Zenon DEF Phase
<1>4. Requested'
  BY <1>1, <1>2, Zenon DEF Requested, RelayInv
<1> QED
  BY <1>1, <1>3, <1>4, Zenon DEF RelayInv, TypeOK

(* Every step keeps the inductive invariant.                               *)
LEMMA RelayInvStep == RelayInv /\ [Next]_vars => RelayInv'
<1> SUFFICES ASSUME RelayInv, [Next]_vars PROVE RelayInv'
  BY Zenon
<1>1. CASE client_eof
  <2>1. /\ c2s' = [c2s EXCEPT !.closed = TRUE] /\ over = "no" /\ over' \in {"no", "ok"}
        /\ UNCHANGED <<resp, req, s2c>> /\ c2s \in C2S
    BY <1>1, Zenon DEF client_eof, RelayInv, TypeOK
  <2>2. /\ c2s' \in C2S /\ c2s'.sent = c2s.sent /\ c2s'.read = c2s.read
        /\ c2s'.checked = c2s.checked /\ c2s'.refused = c2s.refused
    BY <2>1, Zenon DEF C2S
  <2>3. Requested'
    BY <2>1, <2>2, Zenon DEF Requested, RelayInv
  <2> QED
    BY <2>1, <2>2, <2>3, PhaseKept, Zenon DEF RelayInv, TypeOK
<1>2. CASE fails \/ UNCHANGED vars
  <2>1. /\ UNCHANGED <<resp, req, c2s, s2c>> /\ over' \in {over, "error"}
        /\ over = "ok" => over' = "ok"
    BY <1>2, Zenon DEF fails, vars
  <2>2. Requested'
    BY <2>1, Zenon DEF Requested, RelayInv
  <2> QED
    BY <2>1, <2>2, PhaseKept, Zenon DEF RelayInv, TypeOK
<1> QED
  BY <1>1, <1>2, ClientRead, UpstreamRead, UpstreamEof, Zenon DEF Next

-----------------------------------------------------------------------------
(* The theorems *)

(* The inductive invariant always holds. *)
LEMMA RelayInvAlways == Spec => []RelayInv
BY RelayInvInit, RelayInvStep, PTL DEF Spec

(* Every byte of the response is sent once and in order or is still held   *)
(* back, and nothing is once the upstream has closed, for every split into *)
(* reads and every framing (relay_with_first_response_header_policy).      *)
THEOREM ResponseIsKept == Spec => []ResponseBytesKept
<1>1. RelayInv => ResponseBytesKept
  <2> SUFFICES ASSUME RelayInv PROVE ResponseBytesKept
    BY Zenon
  <2>1. s2c \in S2C /\ s2c.read \in Nat /\ resp.head \in Nat \ {0}
    BY RelayAssumption, Zenon DEF RelayInv, TypeOK, S2C
  <2>2. Units(1, s2c.read) \in Seq(Nat) /\ <<>> \in Seq(Nat)
    BY <2>1, UnitsFirst
  <2>3. CASE Heading(s2c)
    <3>1. s2c.sent \o Held = <<>> \o (Units(1, s2c.read) \o <<>> \o <<>>)
          /\ Held = Units(1, s2c.read) \o <<>> \o <<>>
      BY <2>3, Zenon DEF Heading, Gathered, Held
    <3>2. Units(1, s2c.read) \o <<>> = Units(1, s2c.read)
          /\ <<>> \o Units(1, s2c.read) = Units(1, s2c.read)
      BY <2>2, ConcatEmptySeq, Zenon
    <3>3. s2c.closed => s2c.read = 0
      BY <2>3, Zenon DEF Heading
    <3> QED
      BY <3>1, <3>2, <3>3, UnitsNone, Zenon DEF ResponseBytesKept
  <2>4. CASE Buffering(s2c)
    <3> DEFINE x == Units(1, resp.head)
               y == Units(resp.head + 1, s2c.read)
    <3>1. s2c.sent \o Held = <<>> \o ((<<>> \o x) \o y)
      BY <2>4, Zenon DEF Buffering, Deferred, Held
    <3>2. x \in Seq(Nat) /\ x \o y = Units(1, s2c.read)
      BY <2>1, <2>4, UnitsFirst, UnitsGrow, Zenon DEF Buffering, Deferred
    <3>3. <<>> \o x = x /\ <<>> \o Units(1, s2c.read) = Units(1, s2c.read)
      BY <2>2, <3>2, ConcatEmptySeq, Zenon
    <3> HIDE DEF x, y
    <3>4. s2c.sent \o Held = Units(1, s2c.read)
      BY <3>1, <3>2, <3>3, Zenon
    <3> QED
      BY <2>4, <3>4, Zenon DEF Buffering, ResponseBytesKept
  <2>5. CASE Passing(s2c)
    <3>1. Held = <<>> \o <<>> \o <<>> /\ s2c.sent = Units(1, s2c.read)
      BY <2>5, Zenon DEF Passing, Held
    <3>2. <<>> \o <<>> = <<>> /\ Units(1, s2c.read) \o <<>> = Units(1, s2c.read)
      BY <2>2, ConcatEmptySeq, Zenon
    <3> QED
      BY <3>1, <3>2, Zenon DEF ResponseBytesKept
  <2> QED
    BY <2>3, <2>4, <2>5, Zenon DEF RelayInv, Phase
<1> QED
  BY RelayInvAlways, <1>1, PTL

(* The request's bytes reach the upstream once and in order, those of a    *)
(* refused upgrade never, also when the upstream has sent something before *)
(* it; and a refusal ends the relay.                                       *)
THEOREM RequestIsKept == Spec => []RequestBytesKept
<1>1. RelayInv => RequestBytesKept
  BY Zenon DEF RelayInv, Requested, RequestBytesKept
<1> QED
  BY RelayInvAlways, <1>1, PTL

(* A body rewritten before the stream ends is the response's own body,     *)
(* whole and within max_body_bytes, and is counted once                    *)
(* (attempt_body_rewrite).                                                 *)
THEOREM WholeBodiesAreRewritten == Spec => []RewritesWholeBody
<1>1. RelayInv => RewritesWholeBody
  BY DEF RelayInv, Phase, Heading, Gathered, Buffering, Deferred, Passing, RewritesWholeBody
<1> QED
  BY RelayInvAlways, <1>1, PTL

(* What a connection holds in memory stays within the two limits, or the   *)
(* one read that ended the headers, for every MAX_HTTP1_HEADER_BYTES and   *)
(* max_body_bytes; and the state is as typed.                              *)
THEOREM MemoryIsBounded == Spec => []HeldBounded
<1>1. RelayInv => HeldBounded
  <2> SUFFICES ASSUME RelayInv PROVE HeldBounded
    BY Zenon
  <2>1. MaxHead \in Nat /\ s2c.read \in Nat
    BY RelayAssumption, Zenon DEF RelayInv, TypeOK, S2C
  <2>2. \/ s2c.pending = Units(1, s2c.read) /\ s2c.read <= MaxHead
        \/ s2c.pending = <<>>
    BY Zenon DEF RelayInv, Phase, Heading, Gathered, Buffering, Deferred, Passing
  <2>3. Len(s2c.pending) <= MaxHead
    <3>1. Len(Units(1, s2c.read)) = s2c.read /\ Len(<<>>) = 0
      BY <2>1, UnitsFirst, Zenon
    <3>2. 0 <= MaxHead
      BY <2>1
    <3> QED
      BY <2>2, <3>1, <3>2, Zenon
  <2>4. s2c.buffering => Len(s2c.body) < MaxBody \/ Len(s2c.body) < ReadSize
    BY Zenon DEF RelayInv, Phase, Heading, Gathered, Buffering, Passing
  <2> QED
    BY <2>3, <2>4, Zenon DEF RelayInv, HeldBounded
<1> QED
  BY RelayInvAlways, <1>1, PTL

(* A header block that leaves room for one read below the limit is always  *)
(* filtered, whatever body bytes are read with it.                         *)
THEOREM SmallHeadersAreFiltered == Spec => []SmallHeadersFiltered
<1>1. RelayInv => SmallHeadersFiltered
  <2> SUFFICES ASSUME RelayInv, s2c.policy = "bypassed"
               PROVE  ~(resp.head + ReadSize <= MaxHead + 1)
    BY Zenon DEF SmallHeadersFiltered
  <2>1. resp.head + ReadSize > MaxHead + 1
    BY Zenon DEF RelayInv, Phase, Heading, Gathered, Buffering, Deferred, Passing
  <2>2. resp.head \in Nat /\ ReadSize \in Nat /\ MaxHead \in Nat
    BY RelayAssumption, Zenon DEF RelayInv, TypeOK
  <2> QED
    BY <2>1, <2>2
<1> QED
  BY RelayInvAlways, <1>1, PTL

(* The read that completes a buffered body ends the buffering, however the *)
(* limit, the content length and the chunks fall on the reads.             *)
THEOREM CompletedBodiesAreReleased == Spec => CompletedBodyReleased
<1>1. RelayInv /\ [Next]_vars
        => [s2c.buffering /\ s2c'.read > s2c.read /\ resp.framing \in {"length", "chunked"}
              /\ s2c'.read >= resp.head + resp.body
                => ~s2c'.buffering]_vars
  <2> SUFFICES ASSUME RelayInv, Next, s2c.buffering, s2c'.read > s2c.read,
                      resp.framing \in {"length", "chunked"},
                      s2c'.read >= resp.head + resp.body
               PROVE  ~s2c'.buffering
    BY Zenon DEF vars
  <2>1. s2c \in S2C /\ s2c.read \in Nat
    BY Zenon DEF RelayInv, TypeOK, S2C
  <2>2. CASE upstream_read
    BY <2>2, UpstreamRead, Zenon
  <2>3. CASE upstream_eof
    <3>1. s2c'.read = s2c.read
      BY <2>3, Flushed, Zenon DEF upstream_eof, RelayInv, TypeOK
    <3> QED
      BY <2>1, <3>1
  <2>4. ASSUME client_read PROVE s2c'.read = s2c.read
    BY <2>1, <2>4, Zenon DEF client_read, first_request, later_request, S2C
  <2>5. ASSUME client_eof \/ fails PROVE s2c'.read = s2c.read
    BY <2>5, Zenon DEF client_eof, fails
  <2> QED
    BY <2>1, <2>2, <2>3, <2>4, <2>5 DEF Next
<1> QED
  BY RelayInvInit, RelayInvStep, <1>1, PTL DEF Spec, CompletedBodyReleased
=============================================================================
