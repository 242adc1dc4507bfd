---------------------------- MODULE StreamParsers ----------------------------
(* What is read of a stream of which a part has arrived, for one input at  *)
(* a time: the ClientHello that was peeked at, or a chunked body.          *)
EXTENDS SniParser, ChunkParser

VARIABLE input

NoInput == [kind |-> "none"]

(* The first n bytes of a hello, or the whole of it and what follows. *)
Peeked(h, n) ==
    LET bytes == HelloBytes(h) IN
    IF n <= Len(bytes) THEN SubSeq(bytes, 1, n) ELSE bytes \o [i \in 1..(n - Len(bytes)) |-> 0]

HelloInput(h, n) == [kind |-> "hello", hello |-> h, arrived |-> n]

(* The first n bytes of a chunked body and of another one behind it. *)
ChunksInput(m, n) == [kind |-> "chunks", message |-> m, arrived |-> n]

Arrived(m, n) == SubSeq(MessageBytes(m) \o LastChunk, 1, n)

-----------------------------------------------------------------------------
(* Properties *)

(* Whatever part of a ClientHello has arrived when handle_connection peeks *)
(* at it, parse_sni finds the name the client asks for or none: none while *)
(* anything of it is missing, and the name whatever follows it.            *)
SniRead ==
    input.kind = "hello" =>
        parse_sni(Peeked(input.hello, input.arrived)) =
            IF input.arrived < Len(HelloBytes(input.hello)) THEN NoName ELSE NameAskedFor(input.hello)

(* Whatever part of a chunked body has arrived, and whatever its data and  *)
(* what follows look like, the relay decodes it when all of it is there    *)
(* and not before, to its data, and leaves what follows; a download that   *)
(* was cut off is an error unless all of its data is there.                *)
ChunksRead ==
    input.kind = "chunks" =>
        LET m == input.message
            n == input.arrived
            data == Arrived(m, n)
        IN /\ try_decode_chunked_message(data) =
                 IF n < Len(MessageBytes(m)) THEN NotDecoded ELSE Decoded(DataOf(m), Len(MessageBytes(m)))
           /\ decode_chunked(data) =
                 IF n < Len(ChunksOf(m)) THEN NotDecoded ELSE Decoded(DataOf(m), Len(ChunksOf(m)))

(* What is read of a stream does not depend on how far it has arrived: see *)
(* its two parts.                                                          *)
PrefixRead == SniRead /\ ChunksRead
=============================================================================
