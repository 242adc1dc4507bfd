------------------------------- MODULE MCRelay -------------------------------
(* The relay for TLC: header blocks around the header limit, bodies around *)
(* the body limit, every framing, with and without a following response,   *)
(* and chunks that come with a Content-Length at or above the limit.       *)
EXTENDS Relay

Announced(r) ==
    CASE r.framing = "length" -> {r.body}
      [] r.framing = "close" -> {0}
      [] OTHER -> {0, MaxBody, MaxBody + 1}

MCResponses ==
    {r \in [head : 1..6, body : 0..4, next : 0..1, announced : 0..4, framing : Framings,
            rewritable : BOOLEAN] : r.announced \in Announced(r)}

MCRequests ==
    [len : {3}, upgrade : {0, 2}, blocked : BOOLEAN]

(* Responses with a body, alone on a connection that stays open. *)
KeptAliveResponses ==
    {r \in [head : 1..3, body : 1..5, next : {0}, announced : 0..5, framing : Framings,
            rewritable : BOOLEAN] : r.announced \in Announced(r)}

OneRequest == [len : {1}, upgrade : {0}, blocked : {FALSE}]
=============================================================================
