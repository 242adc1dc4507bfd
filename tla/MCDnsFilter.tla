----------------------------- MODULE MCDnsFilter -----------------------------
(* The DNS filter for TLC: two questions that share a message id, a retry  *)
(* of the first whose reply does not parse, a name that is blocked and a   *)
(* message that is no query, with the same id and answered without a       *)
(* question. Over HTTPS the same blocked name, the first question and the  *)
(* message that is no query, from two clients.                             *)
EXTENDS DohServer, TLC

CONSTANTS q1, q2, retry, blocked, other

MCQueries == {q1, q2, retry, blocked, other}

MCRequests == {q1, blocked, other}

MCStandard == MCQueries \ {other}

MCReadable == MCQueries \ {retry}

MCId == [q \in MCQueries |-> IF q = blocked THEN 2 ELSE 1]

MCQuestion == [q \in MCQueries |->
    CASE q \in {q1, retry} -> "a" [] q = q2 -> "b" [] q = blocked -> "c" [] OTHER -> "none"]

MCVerdict == [q \in MCQueries |->
    CASE q = blocked -> "block" [] q = q2 -> "report" [] OTHER -> "pass"]

(* The upstream's answer for b and for the message that is no query leads  *)
(* over a reported to a blocked name, the one for a to a reported one.     *)
MCCname == [q \in MCQueries |->
    CASE q \in {q2, other} -> <<"report", "block">> [] q = q1 -> <<"report">> [] OTHER -> <<>>]

MCClient == [q \in MCRequests |-> IF q \in {q1, other} THEN "ip1" ELSE "ip2"]
=============================================================================
