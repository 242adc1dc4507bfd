-------------------------------- MODULE Bytes --------------------------------
(* Sequences of bytes: put together from parts, and read as text. *)
EXTENDS Integers, Sequences

(* The parts one behind the other. SequencesExt has this as FlattenSeq, in *)
(* the company of modules that slow every proof down.                      *)
Concat(parts) ==
    LET first[n \in 0..Len(parts)] == IF n = 0 THEN <<>> ELSE first[n - 1] \o parts[n]
    IN first[Len(parts)]

Continuation == 128..191

(* The bytes of one character in UTF-8, without overlong forms, surrogates *)
(* and code points beyond the last.                                        *)
IsCharacter(c) ==
    \/ Len(c) = 1 /\ c[1] \in 0..127
    \/ Len(c) = 2 /\ c[1] \in 194..223 /\ c[2] \in Continuation
    \/ /\ Len(c) = 3 /\ c[1] \in 224..239 /\ c[2] \in Continuation /\ c[3] \in Continuation
       /\ c[1] = 224 => c[2] >= 160
       /\ c[1] = 237 => c[2] < 160
    \/ /\ Len(c) = 4 /\ c[1] \in 240..244 /\ \A i \in 2..4 : c[i] \in Continuation
       /\ c[1] = 240 => c[2] >= 144
       /\ c[1] = 244 => c[2] < 144

(* What from_utf8 accepts: every byte is in a character. No byte can be in *)
(* two, since only the first byte of a character is no continuation byte.  *)
IsText(s) ==
    \A i \in 1..Len(s) : \E first, last \in 1..Len(s) :
        first <= i /\ i <= last /\ last - first < 4 /\ IsCharacter(SubSeq(s, first, last))
=============================================================================
