-------------------------------- MODULE Relay --------------------------------
(***************************************************************************)
(* relay_with_first_response_header_policy (src/mitm.rs): one loop that    *)
(* selects between the client and the upstream of an intercepted HTTP/1.1  *)
(* connection. The first read from the client is checked and may be edited *)
(* or refused; the first response has its header block filtered and, for   *)
(* HTML, its body buffered and rewritten; everything else is copied.       *)
(*                                                                         *)
(* A byte stream is abstracted to numbered units that a read returns 1 to  *)
(* ReadSize at a time. The response is a header block, a body framed by    *)
(* its length, by chunks or by the end of the stream, and perhaps the      *)
(* start of the next response. Nothing makes the upstream wait for the     *)
(* request: it may answer, or give up with a 408, before there is one.     *)
(***************************************************************************)
EXTENDS Integers, Sequences, FiniteSets

CONSTANTS
    ReadSize,   \* units a read can return: the 8192 bytes of upstream_buf
    MaxHead,    \* MAX_HTTP1_HEADER_BYTES
    MaxBody,    \* BodyRewritePlan::max_body_bytes
    Responses,  \* what the upstream sends
    Requests    \* what the client sends

Framings == {"length", "chunked", "malformed", "close"}

ASSUME RelayAssumption ==
    /\ ReadSize \in Nat \ {0}
    /\ MaxHead \in Nat \ {0}
    /\ MaxBody \in Nat
    /\ Responses \subseteq [head : Nat \ {0}, body : Nat, next : Nat, announced : Nat,
                            framing : Framings, rewritable : BOOLEAN]
    /\ \A r \in Responses : r.framing = "length" => r.announced = r.body
    /\ Requests \subseteq [len : Nat \ {0}, upgrade : Nat, blocked : BOOLEAN]

VARIABLES
    resp,  \* the response; rewritable: HTML, known encoding, should_rewrite;
           \*   announced: its Content-Length, which chunks may come with too,
           \*   or 0
    req,   \* the request; upgrade: the unit its upgrade headers end with, or
           \*   0; blocked: tracker host and WebSocket blocking enabled
    c2s,   \* the client-to-server half of the loop's state
    s2c,   \* the server-to-client half
    over   \* how the function returned

vars == <<resp, req, c2s, s2c, over>>

Units(a, b) == [i \in 1..(b - a + 1) |-> a + i - 1]

Total == resp.head + resp.body + resp.next

Buffer == Seq(Nat)

C2S == [closed : BOOLEAN,    \* client_closed
        checked : BOOLEAN,   \* first_request_checked
        read : Nat,          \* units read from the client
        sent : Buffer,       \* units written to the upstream
        refused : BOOLEAN]   \* the client was answered 403

Answers == [kind : {"none", "raw", "rewritten"},
            of : Nat,          \* units of the body that was rewritten
            ended : BOOLEAN]   \* ... because the stream had ended

Policies == {"none", "applied", "bypassed"}

S2C == [closed : BOOLEAN,    \* upstream_closed
        filtered : BOOLEAN,  \* first_response_filtered
        pending : Buffer,
        buffering : BOOLEAN, \* buffering_body
        body : Buffer,       \* body_buffer
        headers : Buffer,    \* deferred_headers
        read : Nat,          \* units read from the upstream
        sent : Buffer,       \* units the client was sent, or a rewriting of
        answer : Answers,
        policy : Policies,   \* header policy
        rewrites : Nat,      \* body_rewrite_total
        skipped : Nat]       \* body_rewrite_skipped_total

TypeOK ==
    /\ resp \in Responses
    /\ req \in Requests
    /\ c2s \in C2S
    /\ s2c \in S2C
    /\ over \in {"no", "ok", "error"}

Answer(k) == [kind |-> k, of |-> 0, ended |-> FALSE]

Init ==
    /\ resp \in Responses
    /\ req \in Requests
    /\ c2s = [closed |-> FALSE, checked |-> FALSE, read |-> 0, sent |-> <<>>, refused |-> FALSE]
    /\ s2c = [closed |-> FALSE, filtered |-> FALSE, pending |-> <<>>, buffering |-> FALSE,
              body |-> <<>>, headers |-> <<>>, read |-> 0, sent |-> <<>>,
              answer |-> Answer("none"), policy |-> "none", rewrites |-> 0, skipped |-> 0]
    /\ over = "no"

-----------------------------------------------------------------------------
(* Client to upstream *)

(* Mutant: the edited bytes are followed by the original ones. *)
first_request_twice(n) ==
    /\ ~c2s.checked
    /\ IF req.blocked /\ req.upgrade \in 1..n
         THEN /\ c2s' = [c2s EXCEPT !.checked = TRUE, !.read = n, !.refused = TRUE]
              /\ over' = "ok"
         ELSE /\ c2s' = [c2s EXCEPT !.checked = TRUE, !.read = n,
                                   !.sent = Units(1, n) \o Units(1, n)]
              /\ UNCHANGED over
    /\ UNCHANGED s2c

(* The first read: an upgrade to a blocked host is answered 403 and ends   *)
(* the relay with whatever it held back of a response, otherwise the       *)
(* (edited) bytes are forwarded.                                           *)
first_request(n) ==
    /\ ~c2s.checked
    /\ IF req.blocked /\ req.upgrade \in 1..n
         THEN /\ c2s' = [c2s EXCEPT !.checked = TRUE, !.read = n, !.refused = TRUE]
              /\ over' = "ok"
         ELSE /\ c2s' = [c2s EXCEPT !.checked = TRUE, !.read = n, !.sent = Units(1, n)]
              /\ UNCHANGED over
    /\ UNCHANGED s2c

later_request(n) ==
    /\ c2s.checked
    /\ c2s' = [c2s EXCEPT !.read = @ + n, !.sent = @ \o Units(c2s.read + 1, c2s.read + n)]
    /\ UNCHANGED <<s2c, over>>

client_read ==
    /\ over = "no"
    /\ ~c2s.closed
    /\ \E n \in 1..ReadSize :
          /\ c2s.read + n <= req.len
          /\ first_request(n) \/ later_request(n)
    /\ UNCHANGED <<resp, req>>

(* End of the client's stream: the upstream is told, its answer may still  *)
(* come.                                                                   *)
client_eof ==
    /\ over = "no"
    /\ ~c2s.closed
    /\ c2s' = [c2s EXCEPT !.closed = TRUE]
    /\ over' = IF s2c.closed THEN "ok" ELSE "no"
    /\ UNCHANGED <<resp, req, s2c>>

-----------------------------------------------------------------------------
(* Upstream to client. The operators below map the server-to-client state  *)
(* s to the set of states the code may go to.                              *)

(* Headers and buffered bytes go out as they came. *)
SendRaw(s) ==
    [s EXCEPT !.sent = @ \o s.headers \o s.body, !.headers = <<>>, !.buffering = FALSE,
              !.answer = Answer("raw")]

(* attempt_body_rewrite on the first n buffered units; the rest is written *)
(* after them. In report-only mode, and when decoding, rewriting or        *)
(* encoding fails, the original is sent. A rewritten body goes out under   *)
(* its own Content-Length.                                                 *)
attempt_body_rewrite(s, n, ended) ==
    {[SendRaw(s) EXCEPT !.rewrites = @ + 1],
     [SendRaw(s) EXCEPT !.skipped = @ + 1],
     [SendRaw(s) EXCEPT !.rewrites = @ + 1,
                        !.answer = [kind |-> "rewritten", of |-> n, ended |-> ended]]}

(* try_decode_chunked_message finds the last chunk and its trailers. *)
ChunksComplete(s) == resp.framing = "chunked" /\ Len(s.body) >= resp.body

(* Mutant: everything buffered is taken for the body. *)
buffer_body_overflowing(s) ==
    IF resp.framing = "length" /\ Len(s.body) >= resp.body
      THEN attempt_body_rewrite(s, Len(s.body), FALSE)
      ELSE {s}

(* Mutant: the size limit is not enforced. *)
buffer_body_unlimited(s) ==
    IF ChunksComplete(s) \/ (resp.framing = "length" /\ Len(s.body) >= resp.body)
      THEN attempt_body_rewrite(s, resp.body, FALSE)
      ELSE {s}

(* Mutant: one byte more than the content length is awaited. *)
buffer_body_waits(s) ==
    IF ChunksComplete(s) \/ (resp.framing = "length" /\ Len(s.body) > resp.body)
      THEN attempt_body_rewrite(s, resp.body, FALSE)
      ELSE IF Len(s.body) >= MaxBody
        THEN {[SendRaw(s) EXCEPT !.skipped = @ + 1]}
        ELSE {s}

(* Upstream bytes while the body is buffered: give up at the limit, re-    *)
(* write once chunks or content length are complete, else wait for more.   *)
buffer_body(s) ==
    LET at_limit == Len(s.body) >= MaxBody
        at_content_length == resp.framing = "length" /\ Len(s.body) >= resp.body
        chunked_parsed == ~at_limit /\ ChunksComplete(s)
    IN
    IF at_limit /\ ~chunked_parsed /\ ~at_content_length
      THEN {[SendRaw(s) EXCEPT !.skipped = @ + 1]}
      ELSE IF chunked_parsed \/ at_content_length
        THEN attempt_body_rewrite(s, resp.body, FALSE)
        ELSE {s}

(* Mutant: the limit itself is too large, and body bytes that came with    *)
(* the headers are dropped.                                                *)
filter_headers_strict(s) ==
    LET p == s.pending IN
    IF Len(p) >= MaxHead
      THEN {[s EXCEPT !.sent = @ \o p, !.pending = <<>>, !.filtered = TRUE,
                      !.policy = "bypassed"]}
      ELSE IF Len(p) < resp.head
        THEN {s}
        ELSE {[s EXCEPT !.sent = @ \o SubSeq(p, 1, resp.head), !.pending = <<>>,
                        !.filtered = TRUE, !.policy = "applied"]}

(* Upstream bytes before the end of the first header block. *)
filter_headers(s) ==
    LET p == s.pending
        flushed == [s EXCEPT !.sent = @ \o p, !.pending = <<>>, !.filtered = TRUE,
                             !.answer = Answer("raw")]
        found == [s EXCEPT !.pending = <<>>, !.filtered = TRUE, !.policy = "applied"]
        h == SubSeq(p, 1, resp.head)
        remainder == SubSeq(p, resp.head + 1, Len(p))
    IN
    IF Len(p) > MaxHead
      THEN {[flushed EXCEPT !.policy = "bypassed"]}
      ELSE IF Len(p) < resp.head
        THEN {s}
        ELSE IF ~resp.rewritable
          THEN {[flushed EXCEPT !.policy = "applied"]}
          ELSE IF resp.announced > MaxBody
            THEN {[flushed EXCEPT !.policy = "applied", !.skipped = @ + 1]}
            ELSE {[found EXCEPT !.headers = h, !.body = remainder, !.buffering = TRUE]}

upstream_bytes(s, new) ==
    IF s.buffering
      THEN buffer_body([s EXCEPT !.body = @ \o new])
      ELSE IF s.filtered
        THEN {[s EXCEPT !.sent = @ \o new]}
        ELSE filter_headers([s EXCEPT !.pending = @ \o new])

upstream_read ==
    /\ over = "no"
    /\ ~s2c.closed
    /\ \E n \in 1..ReadSize :
          /\ s2c.read + n <= Total
          /\ s2c' \in upstream_bytes([s2c EXCEPT !.read = @ + n],
                                     Units(s2c.read + 1, s2c.read + n))
    /\ UNCHANGED <<resp, req, c2s, over>>

(* End of the upstream's stream: pending headers go out unfiltered, a      *)
(* buffered body is rewritten whole unless its chunks are incomplete.      *)
flush(s) ==
    LET t == [s EXCEPT !.closed = TRUE,
                       !.filtered = @ \/ s.pending # <<>>,
                       !.sent = @ \o s.pending,
                       !.pending = <<>>]
    IN
    IF ~s.buffering
      THEN {t}
      ELSE IF resp.framing \in {"chunked", "malformed"}
        THEN IF ChunksComplete(s) THEN attempt_body_rewrite(t, resp.body, TRUE) ELSE {SendRaw(t)}
        ELSE attempt_body_rewrite(t, Len(s.body), TRUE)

upstream_eof ==
    /\ over = "no"
    /\ ~s2c.closed
    /\ s2c' \in flush(s2c)
    /\ over' = IF c2s.closed THEN "ok" ELSE "no"
    /\ UNCHANGED <<resp, req, c2s>>

(* Any read or write fails: `?` returns at once, buffered bytes included.  *)
fails ==
    /\ over = "no"
    /\ over' = "error"
    /\ UNCHANGED <<resp, req, c2s, s2c>>

Next ==
    \/ client_read
    \/ client_eof
    \/ upstream_read
    \/ upstream_eof
    \/ fails

Spec == Init /\ [][Next]_vars

(* The loop polls both halves, the client finishes its request and the     *)
(* server its response. Neither has to close a connection it keeps alive.  *)
FairSpec == Spec /\ WF_vars(client_read) /\ WF_vars(upstream_read)

-----------------------------------------------------------------------------
(* Properties *)

(* What the relay still holds back of the response. *)
Held == s2c.pending \o s2c.headers \o (IF s2c.buffering THEN s2c.body ELSE <<>>)

(* Every byte read from the upstream is sent (as it was or inside the      *)
(* rewritten body) once and in order, or is still held back, across the    *)
(* header, buffering, limit, overflow and end-of-stream paths; and nothing *)
(* is held back once the upstream has closed.                              *)
ResponseBytesKept ==
    /\ s2c.sent \o Held = Units(1, s2c.read)
    /\ s2c.closed => Held = <<>>

(* The client's bytes reach the upstream once and in order: the edited     *)
(* first read is not followed by the bytes it replaces. Of a refused       *)
(* upgrade the upstream never sees a byte, whatever it sent before by      *)
(* itself, and the relay is over, so that nothing follows the 403.         *)
RequestBytesKept ==
    /\ ~c2s.refused => c2s.sent = Units(1, c2s.read)
    /\ c2s.refused => c2s.sent = <<>> /\ over = "ok"

(* A body rewritten while the stream goes on is exactly the response's own *)
(* body: complete, within max_body_bytes, and without the bytes of the     *)
(* next response that were read with it. Rewritten or skipped, it is       *)
(* counted once.                                                           *)
RewritesWholeBody ==
    /\ s2c.rewrites + s2c.skipped <= 1
    /\ s2c.answer.kind = "rewritten" /\ ~s2c.answer.ended
         => s2c.answer.of = resp.body /\ resp.body <= MaxBody

(* What a connection holds in memory is bounded by the two limits, or by   *)
(* the one read that ended the headers; the rest is as typed.              *)
HeldBounded ==
    /\ TypeOK
    /\ Len(s2c.pending) <= MaxHead
    /\ s2c.buffering => Len(s2c.body) < MaxBody \/ Len(s2c.body) < ReadSize

(* The first response never escapes the header policy as long as its       *)
(* header block leaves room for one read below MAX_HTTP1_HEADER_BYTES: the *)
(* limit is compared with everything read, body bytes included. (Headers   *)
(* that the end of the stream cuts off are sent as they are.)              *)
SmallHeadersFiltered ==
    resp.head + ReadSize <= MaxHead + 1 => s2c.policy # "bypassed"

(* A read that brings the rest of a buffered body releases it, rewritten   *)
(* or as it came: the relay does not wait for more than the response has.  *)
CompletedBodyReleased ==
    [][s2c.buffering /\ s2c'.read > s2c.read /\ resp.framing \in {"length", "chunked"}
         /\ s2c'.read >= resp.head + resp.body
           => ~s2c'.buffering]_vars

(* A complete response reaches the client although the connection stays    *)
(* open, unless the relay is cut off ("BufferingBody -> rewrite + send").  *)
CompleteResponseDelivered ==
    (s2c.read >= resp.head + resp.body /\ resp.framing \in {"length", "chunked"})
        ~> (Len(s2c.sent) >= resp.head + resp.body \/ over # "no")
=============================================================================
