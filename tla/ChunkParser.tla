----------------------------- MODULE ChunkParser -----------------------------
(***************************************************************************)
(* The two decoders of chunked bodies: try_decode_chunked_message of       *)
(* src/mitm.rs, which the relay calls again and again on what it has       *)
(* buffered so far, and decode_chunked of src/filter_list.rs, which gets   *)
(* what a download had received when its connection closed. A byte is a    *)
(* number.                                                                 *)
(***************************************************************************)
EXTENDS Integers, Sequences, FiniteSetsExt, Bytes

CRLF == <<13, 10>>

Semicolon == 59

(* The white space of ASCII, which trim() takes away. *)
Blanks == (9..13) \cup {32}

Plus == 43

(* None, or the Err of decode_chunked. *)
NotDecoded == [body |-> <<>>, consumed |-> -1]

Decoded(body, consumed) == [body |-> body, consumed |-> consumed]

HasAt(data, pos, s) ==
    pos + Len(s) <= Len(data) /\ SubSeq(data, pos + 1, pos + Len(s)) = s

(* windows(Len(s)).position(): the first place at or after pos where s is. *)
Places(data, pos, s) == {i \in pos..Len(data) : HasAt(data, i, s)}

(* The value of a hexadecimal digit; -1 for other bytes. *)
Digit(b) ==
    IF b \in 48..57
      THEN b - 48
      ELSE IF b \in 65..70 THEN b - 55 ELSE IF b \in 97..102 THEN b - 87 ELSE -1

(* The value of hexadecimal digits, one at a time. *)
number(digits) ==
    LET first[n \in 0..Len(digits)] == IF n = 0 THEN 0 ELSE 16 * first[n - 1] + Digit(digits[n]) IN
    IF digits = <<>> \/ \E i \in DOMAIN digits : Digit(digits[i]) = -1 THEN -1 ELSE first[Len(digits)]

(* A plus sign may come before the digits; -1 where it fails. A number     *)
(* beyond a usize is one that no buffer is long enough for.                *)
from_str_radix(s) == number(IF Len(s) > 1 /\ s[1] = Plus THEN Tail(s) ELSE s)

(* The size on a line, without its extension and the blanks around it. *)
chunk_size(line) ==
    LET end == Min({Len(line) + 1} \cup {i \in DOMAIN line : line[i] = Semicolon})
        solid == {i \in 1..(end - 1) : line[i] \notin Blanks}
    IN from_str_radix(IF solid = {} THEN <<>> ELSE SubSeq(line, Min(solid), Max(solid)))

(* The loop of both decoders, from a position and with a body so far: a    *)
(* size line, as many bytes and a CRLF, until the size is 0. What is       *)
(* consumed ends with the line of that size.                               *)
chunks(data) ==
    LET chunk[state \in (0..Len(data)) \X Seq(0..255)] ==
            LET pos == state[1]
                body == state[2]
                crlf == Min(Places(data, pos, CRLF))
                size == chunk_size(SubSeq(data, pos + 1, crlf))
                start == crlf + 2
            IN IF Places(data, pos, CRLF) = {} \/ size = -1
                 THEN NotDecoded
                 ELSE IF size = 0
                   THEN Decoded(body, start)
                   ELSE IF HasAt(data, start + size, CRLF)
                     THEN chunk[<<start + size + 2, body \o SubSeq(data, start + 1, start + size)>>]
                     ELSE NotDecoded
    IN chunk

(* A download is over with the last chunk. *)
decode_chunked(data) == chunks(data)[<<0, <<>>>>]

(* The relay also waits for the CRLF after it, or for trailers and the     *)
(* empty line that ends them.                                              *)
try_decode_chunked_message(data) ==
    LET read == chunks(data)[<<0, <<>>>>]
        trailers == Places(data, read.consumed, CRLF \o CRLF)
    IN IF read = NotDecoded
         THEN NotDecoded
         ELSE IF HasAt(data, read.consumed, CRLF)
           THEN Decoded(read.body, read.consumed + 2)
           ELSE IF trailers = {} THEN NotDecoded ELSE Decoded(read.body, Min(trailers) + 4)

-----------------------------------------------------------------------------
(* A chunked body and its bytes, as RFC 9112 lays them out: chunks with    *)
(* the spelling of their size, and the lines of the trailers.              *)

ChunkBytes(c) == c.size \o CRLF \o c.data \o CRLF

LastChunk == <<48>> \o CRLF

ChunksOf(m) == Concat([i \in DOMAIN m.chunks |-> ChunkBytes(m.chunks[i])]) \o LastChunk

MessageBytes(m) == ChunksOf(m) \o Concat([i \in DOMAIN m.trailers |-> m.trailers[i] \o CRLF]) \o CRLF

DataOf(m) == Concat([i \in DOMAIN m.chunks |-> m.chunks[i].data])
=============================================================================
