---------------------------- MODULE StreamProofs ----------------------------
(***************************************************************************)
(* What the two decoders of chunked bodies return, for bodies of any       *)
(* length of which any part has arrived; and, with what is proved of       *)
(* parse_sni, what is read of a stream.                                    *)
(***************************************************************************)
EXTENDS SniProofs

-----------------------------------------------------------------------------
(* The size of a chunk.                                                    *)

(* The value of the first digits, one more at a time. *)
Values(digits, g) ==
    g = [i \in 0..Len(digits) |-> IF i = 0 THEN 0 ELSE 16 * g[i - 1] + Digit(digits[i])]

(* from_str_radix's loop over the digits has a result. *)
LEMMA ValuesExist ==
    ASSUME NEW digits \in Seq(Nat), \A i \in 1..Len(digits) : Digit(digits[i]) # -1
    PROVE  \E g : Values(digits, g)
<1> DEFINE D(i) == Digit(digits[i])
           Val(g, i) == IF i = 0 THEN 0 ELSE 16 * g[i - 1] + D(i)
           Ok(k) == \E g : g = [i \in 0..k |-> Val(g, i)]
           P == {k \in Nat : Ok(k)}
<1> HIDE DEF D
<1>1. 0 \in P
  <2>1. \A i \in 0..0 : i = 0
    OBVIOUS
  <2> DEFINE g == [i \in 0..0 |-> 0]
  <2>2. g = [i \in 0..0 |-> Val(g, i)]
    BY <2>1, Zenon
  <2> HIDE DEF g
  <2>3. Ok(0)
    BY <2>2, Zenon
  <2> HIDE DEF Ok
  <2> QED BY <2>3
<1>2. ASSUME NEW k \in Nat, k \in P PROVE k + 1 \in P
  <2> HIDE DEF Val
  <2>1. PICK f : f = [i \in 0..k |-> Val(f, i)]
    BY <1>2, Zenon
  <2> DEFINE g == [i \in 0..(k + 1) |-> Val(f, i)]
  <2>2. ASSUME NEW i \in 0..(k + 1), i # 0 PROVE i - 1 \in 0..k /\ i - 1 \in 0..(k + 1)
    BY <2>2
  <2>3. ASSUME NEW i \in 0..k, i \in 0..(k + 1) PROVE f[i] = g[i]
    BY <2>1, <2>3, Zenon
  <2>4. g = [i \in 0..(k + 1) |-> Val(g, i)]
    <3>1. ASSUME NEW i \in 0..(k + 1) PROVE Val(f, i) = Val(g, i)
      <4>1. i # 0 => f[i - 1] = g[i - 1]
        <5> HIDE DEF g
        <5> QED BY <2>2, <2>3, Zenon
      <4> HIDE DEF g
      <4> QED BY <4>1, Zenon DEF Val
    <3> QED BY <3>1, Zenon
  <2>5. Ok(k + 1)
    <3> HIDE DEF g
    <3> QED BY <2>4, Zenon
  <2> HIDE DEF Ok
  <2> QED BY <2>5
<1> HIDE DEF Ok
<1>3. \A k \in Nat : k \in P
  <2> HIDE DEF P
  <2> QED BY <1>1, <1>2, Steps, Zenon
<1>4. Ok(Len(digits))
  <2>1. Len(digits) \in Nat
    OBVIOUS
  <2> QED BY <1>3, <2>1, Zenon
<1> QED BY <1>4, Zenon DEF Ok, Values, D

(* The value of digits is a number, or -1. *)
LEMMA DigitsAreNumber ==
    ASSUME NEW digits \in Seq(Nat)
    PROVE  number(digits) = -1 \/ number(digits) \in Nat
<1> DEFINE g == CHOOSE f : Values(digits, f)
<1>1. \/ number(digits) = -1
      \/ /\ number(digits) = g[Len(digits)]
         /\ \A i \in 1..Len(digits) : Digit(digits[i]) # -1
  <2>1. DOMAIN digits = 1..Len(digits)
    OBVIOUS
  <2>2. number(digits) =
          IF digits = <<>> \/ \E i \in DOMAIN digits : Digit(digits[i]) = -1 THEN -1 ELSE g[Len(digits)]
    BY Zenon DEF number, Values
  <2> HIDE DEF g
  <2> QED BY <2>1, <2>2, Zenon
<1> HIDE DEF g
<1>2. SUFFICES ASSUME \A i \in 1..Len(digits) : Digit(digits[i]) # -1
               PROVE  g[Len(digits)] \in Nat
  BY <1>1
<1>3. Values(digits, g)
  BY <1>2, ValuesExist, Zenon DEF g
<1> DEFINE P == {k \in Nat : k <= Len(digits) => g[k] \in Nat}
<1>4. 0 \in P
  <2>1. 0 \in 0..Len(digits) /\ 0 \in Nat
    OBVIOUS
  <2>2. g[0] = 0
    BY <1>3, <2>1, Zenon DEF Values
  <2> QED BY <2>1, <2>2, Zenon
<1>5. ASSUME NEW k \in Nat, k \in P PROVE k + 1 \in P
  <2> SUFFICES ASSUME k + 1 <= Len(digits) PROVE g[k + 1] \in Nat
    OBVIOUS
  <2>1. k <= Len(digits) /\ k + 1 \in 0..Len(digits) /\ k + 1 \in 1..Len(digits) /\ k + 1 # 0 /\ (k + 1) - 1 = k
    OBVIOUS
  <2>2. g[k] \in Nat
    BY <1>5, <2>1, Zenon
  <2>3. g[k + 1] = 16 * g[k] + Digit(digits[k + 1])
    <3>1. g[k + 1] = IF k + 1 = 0 THEN 0 ELSE 16 * g[(k + 1) - 1] + Digit(digits[k + 1])
      BY <1>3, <2>1, Zenon DEF Values
    <3> QED BY <2>1, <3>1, Zenon
  <2>4. digits[k + 1] \in Nat /\ Digit(digits[k + 1]) # -1
    BY <1>2, <2>1
  <2>5. \A b \in Nat : Digit(b) # -1 => Digit(b) \in Nat
    BY DEF Digit
  <2>6. Digit(digits[k + 1]) \in Nat
    BY <2>4, <2>5, Zenon
  <2> QED BY <2>2, <2>3, <2>6
<1>6. \A k \in Nat : k \in P
  <2> HIDE DEF P
  <2> QED BY <1>4, <1>5, Steps, Zenon
<1> QED BY <1>6

(* from_str_radix returns a number, or -1. *)
LEMMA RadixIsNumber ==
    ASSUME NEW s \in Seq(Nat)
    PROVE  from_str_radix(s) = -1 \/ from_str_radix(s) \in Nat
<1> DEFINE digits == IF Len(s) > 1 /\ s[1] = Plus THEN Tail(s) ELSE s
<1>1. Len(s) > 1 => Tail(s) \in Seq(Nat)
  OBVIOUS
<1>2. digits \in Seq(Nat)
  BY <1>1, Zenon
<1>3. from_str_radix(s) = number(digits)
  BY Zenon DEF from_str_radix
<1> HIDE DEF digits
<1> QED BY <1>2, <1>3, DigitsAreNumber, Zenon

(* The greatest member is what Max picks. *)
LEMMA MaxIsGreatest ==
    ASSUME NEW n \in Nat, NEW T \in SUBSET (0..n), T # {}
    PROVE  Max(T) \in T /\ \A m \in T : Max(T) >= m
<1> DEFINE U == {n - i : i \in T}
<1>1. U \in SUBSET Nat /\ U # {}
  <2>1. \A i \in T : n - i \in Nat
    OBVIOUS
  <2> QED BY <2>1, Zenon
<1>2. PICK u \in U : \A w \in U : u <= w
  <2> HIDE DEF U
  <2> QED BY <1>1, LeastNumber, Zenon
<1>3. PICK x \in T : u = n - x
  BY Zenon
<1>4. ASSUME NEW m \in T PROVE x >= m
  <2>1. n - m \in U
    BY Zenon
  <2>2. n - x <= n - m
    BY <1>2, <1>3, <2>1, Zenon
  <2> QED BY <2>2
<1> QED BY <1>4, Zenon DEF Max

(* The size of a line is a number, or -1. *)
LEMMA SizeIsNumber ==
    ASSUME NEW line \in Seq(Nat)
    PROVE  chunk_size(line) = -1 \/ chunk_size(line) \in Nat
<1> DEFINE end == Min({Len(line) + 1} \cup {i \in DOMAIN line : line[i] = Semicolon})
           solid == {i \in 1..(end - 1) : line[i] \notin Blanks}
           digits == IF solid = {} THEN <<>> ELSE SubSeq(line, Min(solid), Max(solid))
<1>1. chunk_size(line) = from_str_radix(digits)
  BY Zenon DEF chunk_size
<1>2. digits \in Seq(Nat)
  <2> DEFINE l == Len(line)
             T == {l + 1} \cup {i \in DOMAIN line : line[i] = Semicolon}
  <2>1. l \in Nat /\ DOMAIN line = 1..l
    OBVIOUS
  <2>2. T \in SUBSET Nat /\ T # {} /\ l + 1 \in T
    BY <2>1
  <2> HIDE DEF T, l
  <2>3. Min(T) \in Nat /\ Min(T) <= l + 1
    BY <2>2, MinIsLeast, Zenon
  <2>4. end = Min(T)
    BY Zenon DEF T, l
  <2> HIDE DEF end
  <2>5. solid \in SUBSET (0..l) /\ solid \in SUBSET Nat /\ \A i \in solid : i \in 1..l
    BY <2>1, <2>3, <2>4
  <2> HIDE DEF solid
  <2>6. solid # {} => Min(solid) \in solid /\ Max(solid) \in solid
    BY <2>1, <2>5, MinIsLeast, MaxIsGreatest, Zenon
  <2>7. solid # {} => Min(solid) \in 1..l /\ Max(solid) \in 1..l
    BY <2>5, <2>6, Zenon
  <2>8. ASSUME NEW p \in 1..l, NEW q \in 1..l PROVE SubSeq(line, p, q) \in Seq(Nat)
    BY DEF l
  <2>9. <<>> \in Seq(Nat)
    OBVIOUS
  <2> QED BY <2>7, <2>8, <2>9, Zenon
<1> HIDE DEF digits
<1> QED BY <1>1, <1>2, RadixIsNumber, Zenon

(* The last chunk has the size 0. *)
LEMMA LastSize ==
    chunk_size(<<48>>) = 0
<1> DEFINE line == <<48>>
           end == Min({Len(line) + 1} \cup {i \in DOMAIN line : line[i] = Semicolon})
           solid == {i \in 1..(end - 1) : line[i] \notin Blanks}
           digits == IF solid = {} THEN <<>> ELSE SubSeq(line, Min(solid), Max(solid))
<1>1. Len(line) = 1 /\ DOMAIN line = 1..1 /\ line[1] = 48 /\ line \in Seq(Nat) /\ SubSeq(line, 1, 1) = line /\ line # <<>>
  <2>1. Len(line) = 1 /\ DOMAIN line = 1..1 /\ line[1] = 48 /\ line \in Seq(Nat) /\ line # <<>>
    OBVIOUS
  <2>2. SubSeq(line, 1, 1) = line
    <3> HIDE DEF line
    <3>1. 0 \in Nat /\ 0 + 1 = 1 /\ 0 + Len(line) <= Len(line) /\ \A i \in 1..Len(line) : line[0 + i] = line[i]
      BY <2>1
    <3>2. SubSeq(line, 0 + 1, 0 + Len(line)) = line
      BY <2>1, <3>1, SlicePart, Zenon
    <3> QED BY <2>1, <3>1, <3>2, Zenon
  <2> QED BY <2>1, <2>2, Zenon
<1>2. chunk_size(line) = from_str_radix(digits)
  BY Zenon DEF chunk_size
<1> HIDE DEF line
<1>3. end = 2
  <2>1. {Len(line) + 1} \cup {i \in DOMAIN line : line[i] = Semicolon} = {2}
    BY <1>1 DEF Semicolon
  <2>2. {2} \in SUBSET Nat /\ {2} # {}
    OBVIOUS
  <2>3. Min({2}) \in {2}
    BY <2>2, MinIsLeast, Zenon
  <2> QED BY <2>1, <2>3, Zenon
<1> HIDE DEF end
<1>4. solid = {1}
  BY <1>1, <1>3 DEF Blanks
<1>5. Min({1}) = 1 /\ Max({1}) = 1
  <2>1. {1} \in SUBSET Nat /\ {1} # {} /\ 1 \in Nat /\ {1} \in SUBSET (0..1)
    OBVIOUS
  <2>2. Min({1}) \in {1} /\ Max({1}) \in {1}
    BY <2>1, MinIsLeast, MaxIsGreatest, Zenon
  <2> QED BY <2>2, Zenon
<1>6. digits = line
  <2> HIDE DEF solid
  <2> QED BY <1>1, <1>4, <1>5, Zenon
<1> HIDE DEF digits
<1>7. Digit(line[1]) = 0 /\ Digit(line[1]) # -1
  BY <1>1 DEF Digit
<1>8. \A i \in 1..1 : i = 1
  OBVIOUS
<1> DEFINE g == CHOOSE f : Values(line, f)
<1>9. Values(line, g)
  BY <1>1, <1>7, <1>8, ValuesExist, Zenon
<1>10. from_str_radix(line) = g[Len(line)]
  <2>1. number(line) =
          IF line = <<>> \/ \E i \in DOMAIN line : Digit(line[i]) = -1 THEN -1 ELSE g[Len(line)]
    BY Zenon DEF number, Values
  <2>2. ~(Len(line) > 1)
    BY <1>1
  <2>3. from_str_radix(line) = number(line)
    BY <2>2, Zenon DEF from_str_radix
  <2> HIDE DEF g
  <2> QED BY <2>1, <2>3, <1>1, <1>7, <1>8, Zenon
<1> HIDE DEF g
<1>11. g[0] = 0 /\ g[1] = 16 * g[1 - 1] + Digit(line[1])
  <2>1. 0 \in 0..1 /\ 1 \in 0..1 /\ 1 # 0
    OBVIOUS
  <2> QED BY <2>1, <1>1, <1>9, Zenon DEF Values
<1>12. g[1] = 0
  BY <1>7, <1>11
<1> QED BY <1>1, <1>2, <1>6, <1>10, <1>12, Zenon DEF line

-----------------------------------------------------------------------------
(* The loop over the chunks.                                               *)

Byte == 0..255

(* What was proved of sequences of numbers holds of sequences of bytes. *)
LEMMA BytesAreNumbers ==
    ASSUME NEW s \in Seq(Byte)
    PROVE  s \in Seq(Nat)
<1>1. Len(s) \in Nat /\ s = [i \in 1..Len(s) |-> s[i]] /\ \A i \in 1..Len(s) : s[i] \in Byte
  OBVIOUS
<1>2. \A b \in Byte : b \in Nat
  BY DEF Byte
<1>3. \A i \in 1..Len(s) : s[i] \in Nat
  BY <1>1, <1>2, Zenon
<1>4. \A n \in Nat : \A f : (\A i \in 1..n : f[i] \in Nat) => [i \in 1..n |-> f[i]] \in Seq(Nat)
  OBVIOUS
<1>5. [i \in 1..Len(s) |-> s[i]] \in Seq(Nat)
  BY <1>1, <1>3, <1>4, Zenon
<1> QED BY <1>1, <1>5, Zenon

(* A slice of a sequence is one. *)
LEMMA SliceIsSeq ==
    ASSUME NEW b \in Seq(Nat), NEW p \in Nat, NEW q \in Nat, q <= Len(b)
    PROVE  SubSeq(b, p + 1, q) \in Seq(Nat)
OBVIOUS

(* What the loop of the decoders does next from a state, given what it     *)
(* returns from the later ones.                                            *)
Goes(data, f, pos, body) ==
    LET crlf == Min(Places(data, pos, CRLF))
        size == chunk_size(SubSeq(data, pos + 1, crlf))
        start == crlf + 2
    IN IF Places(data, pos, CRLF) = {} \/ size = -1
         THEN NotDecoded
         ELSE IF size = 0
           THEN Decoded(body, start)
           ELSE IF HasAt(data, start + size, CRLF)
             THEN f[<<start + size + 2, body \o SubSeq(data, start + 1, start + size)>>]
             ELSE NotDecoded

(* The loop over the chunks: what it returns from each of its states. *)
LEMMA ChunkLoop ==
    ASSUME NEW data \in Seq(Byte), NEW pos \in 0..Len(data), NEW body \in Seq(Byte)
    PROVE  chunks(data)[<<pos, body>>] = Goes(data, chunks(data), pos, body)
<1> DEFINE D == (0..Len(data)) \X Seq(Byte)
           F == chunks(data)
           crlf(d) == Min(Places(data, d[1], CRLF))
           size(d) == chunk_size(SubSeq(data, d[1] + 1, crlf(d)))
           start(d) == crlf(d) + 2
           Bad(d) == Places(data, d[1], CRLF) = {} \/ size(d) = -1
           Last(d) == size(d) = 0
           Whole(d) == HasAt(data, start(d) + size(d), CRLF)
           Next(d) == <<start(d) + size(d) + 2, d[2] \o SubSeq(data, start(d) + 1, start(d) + size(d))>>
           G(f, d) == IF Bad(d) THEN NotDecoded
                      ELSE IF Last(d) THEN Decoded(d[2], start(d))
                      ELSE IF Whole(d) THEN f[Next(d)] ELSE NotDecoded
           stop == {d \in D : Bad(d) \/ Last(d) \/ ~Whole(d)}
           val == [d \in D |-> IF ~Bad(d) /\ Last(d) THEN Decoded(d[2], start(d)) ELSE NotDecoded]
           next == [d \in D |-> Next(d)]
           m == [d \in D |-> d[1]]
<1>1. F = CHOOSE f : f = [d \in D |-> G(f, d)]
  BY Zenon DEF chunks, Byte
<1>2. ASSUME NEW d \in D, ~Bad(d), ~Last(d), Whole(d) PROVE Next(d) \in D /\ Next(d)[1] > d[1]
  <2> DEFINE L == Len(data)
             p == d[1]
             q == crlf(d)
             z == size(d)
             e == q + 2 + z
  <2>1. /\ p \in Nat /\ p <= L /\ d[2] \in Seq(Byte) /\ L \in Nat
        /\ \A x \in Places(data, p, CRLF) : x \in Nat /\ x >= p /\ x <= L
    BY DEF Places
  <2>2. q \in Nat /\ q >= p /\ q <= L
    <3>1. Places(data, p, CRLF) # {}
      BY <1>2, Zenon
    <3>2. Places(data, p, CRLF) \in SUBSET Nat
      BY <2>1, Zenon
    <3>3. q \in Places(data, p, CRLF)
      BY <3>1, <3>2, MinIsLeast, Zenon
    <3> HIDE DEF q
    <3> QED BY <2>1, <3>3, Zenon
  <2>3. z \in Nat
    <3>1. SubSeq(data, p + 1, q) \in Seq(Nat)
      <4>1. data \in Seq(Nat)
        BY BytesAreNumbers, Zenon
      <4> HIDE DEF p, q
      <4> QED BY <4>1, <2>1, <2>2, SliceIsSeq, Zenon
    <3>2. z = -1 \/ z \in Nat
      BY <3>1, SizeIsNumber, Zenon
    <3> QED BY <3>2, <1>2, Zenon
  <2>4. HasAt(data, e, CRLF)
    BY <1>2, Zenon
  <2>5. Next(d) = <<e + 2, d[2] \o SubSeq(data, q + 2 + 1, e)>>
    BY Zenon
  <2> HIDE DEF p, q, z, Next
  <2>6. e \in Nat /\ e + 2 <= L /\ q + 2 + 1 \in Nat /\ q + 2 + 1 >= 1
    <3>1. Len(CRLF) = 2
      BY DEF CRLF
    <3>2. e + Len(CRLF) <= Len(data)
      BY <2>4, Zenon DEF HasAt
    <3>3. e + 2 <= L
      BY <3>1, <3>2, Zenon
    <3> HIDE DEF L
    <3> QED BY <2>1, <2>2, <2>3, <3>3
  <2>7. SubSeq(data, q + 2 + 1, e) \in Seq(Byte)
    <3> DEFINE a == q + 2 + 1
    <3>1. a \in Nat /\ a >= 1 /\ e <= Len(data) /\ e \in Nat
      BY <2>1, <2>6
    <3> HIDE DEF a, e
    <3>2. SubSeq(data, a, e) \in Seq(Byte)
      BY <3>1
    <3> QED BY <3>2, Zenon DEF a
  <2>8. d[2] \o SubSeq(data, q + 2 + 1, e) \in Seq(Byte)
    <3> DEFINE s == SubSeq(data, q + 2 + 1, e)
    <3>1. s \in Seq(Byte)
      BY <2>7, Zenon
    <3> HIDE DEF s
    <3>2. d[2] \o s \in Seq(Byte)
      BY <2>1, <3>1, Joined, Zenon
    <3> QED BY <3>2, Zenon DEF s
  <2>9. e + 2 \in 0..L /\ e + 2 > p
    <3> HIDE DEF L
    <3> QED BY <2>1, <2>2, <2>3, <2>6
  <2> HIDE DEF e, L
  <2>10. <<e + 2, d[2] \o SubSeq(data, q + 2 + 1, e)>> \in (0..L) \X Seq(Byte)
    BY <2>8, <2>9, Zenon
  <2>11. <<e + 2, d[2] \o SubSeq(data, q + 2 + 1, e)>>[1] = e + 2
    OBVIOUS
  <2> QED BY <2>5, <2>9, <2>10, <2>11, Zenon DEF p, L
<1>3. m \in [D -> 0..Len(data)] /\ Len(data) \in Nat /\ \A d \in D : m[d] = d[1]
  OBVIOUS
<1>4. <<pos, body>> \in D /\ <<pos, body>>[1] = pos /\ <<pos, body>>[2] = body
  OBVIOUS
<1>5. Goes(data, F, pos, body) = G(F, <<pos, body>>)
  <2> DEFINE d == <<pos, body>>
  <2>1. d[1] = pos /\ d[2] = body
    OBVIOUS
  <2> HIDE DEF d, F
  <2>2. Goes(data, F, pos, body) = G(F, d)
    BY <2>1, Zenon DEF Goes
  <2> QED BY <2>2, Zenon DEF d
<1> HIDE DEF D, Bad, Last, Whole, Next, m
<1>6. \E f : f = [d \in D |-> G(f, d)]
  <2>1. \A d \in D : d \notin stop => next[d] \in D /\ m[next[d]] > m[d]
    <3>1. \A d \in D : d \notin stop => next[d] = Next(d) /\ ~Bad(d) /\ ~Last(d) /\ Whole(d)
      BY Zenon
    <3> HIDE DEF next, stop
    <3> QED BY <1>2, <1>3, <3>1, Zenon
  <2> HIDE DEF next, stop, val
  <2>2. PICK f : ReturnsOf(f, D, stop, val, next)
    BY <1>3, <2>1, LoopHasResult, Zenon
  <2>3. ASSUME NEW d \in D PROVE (IF d \in stop THEN val[d] ELSE f[next[d]]) = G(f, d)
    <3>1. next[d] = Next(d)
      BY Zenon DEF next
    <3>2. val[d] = IF ~Bad(d) /\ Last(d) THEN Decoded(d[2], start(d)) ELSE NotDecoded
      BY Zenon DEF val
    <3>3. d \in stop <=> (Bad(d) \/ Last(d) \/ ~Whole(d))
      BY Zenon DEF stop
    <3> HIDE DEF start
    <3> QED BY <3>1, <3>2, <3>3, Zenon
  <2>4. [d \in D |-> IF d \in stop THEN val[d] ELSE f[next[d]]] = [d \in D |-> G(f, d)]
    <3> HIDE DEF G
    <3> QED BY <2>3, Zenon
  <2> QED BY <2>2, <2>4, Zenon DEF ReturnsOf
<1>7. F = [d \in D |-> G(F, d)]
  <2> HIDE DEF G
  <2> QED BY <1>1, <1>6, Zenon
<1>8. F[<<pos, body>>] = G(F, <<pos, body>>)
  <2> DEFINE d == <<pos, body>>
  <2>1. d \in D
    BY <1>4, Zenon
  <2> HIDE DEF F, G, d
  <2>2. F[d] = G(F, d)
    BY <1>7, <2>1, Zenon
  <2> QED BY <2>2, Zenon DEF d
<1> HIDE DEF F, G
<1> QED BY <1>5, <1>8, Zenon DEF F

-----------------------------------------------------------------------------
(* What has arrived of a stream, and its lines.                            *)

(* The data has t behind its first p bytes, as far as it has arrived. *)
Agrees(data, p, t) == \A i \in 1..Len(t) : p + i <= Len(data) => data[p + i] = t[i]

(* Data that agrees with two parts in a row agrees with each of them in    *)
(* its place.                                                              *)
LEMMA AgreesParts ==
    ASSUME NEW data \in Seq(Nat), NEW p \in Nat, NEW a \in Seq(Nat), NEW b \in Seq(Nat), Agrees(data, p, a \o b)
    PROVE  Agrees(data, p, a) /\ Agrees(data, p + Len(a), b) /\ p + Len(a) \in Nat
<1> DEFINE v == a \o b
           la == Len(a)
           lb == Len(b)
           n == Len(data)
<1>1. la \in Nat /\ lb \in Nat /\ n \in Nat
  OBVIOUS
<1>2. /\ Len(v) = la + lb
      /\ \A i \in 1..la : v[i] = a[i]
      /\ \A i \in 1..lb : v[la + i] = b[i]
  BY Joined
<1>3. \A i \in 1..Len(v) : p + i <= n => data[p + i] = v[i]
  BY Zenon DEF Agrees
<1> HIDE DEF v, la, lb, n
<1>4. \A i \in 1..la : p + i <= n => data[p + i] = a[i]
  <2> SUFFICES ASSUME NEW i \in 1..la, p + i <= n PROVE data[p + i] = a[i]
    BY Zenon
  <2>1. i \in 1..(la + lb)
    BY <1>1
  <2> QED BY <2>1, <1>2, <1>3, Zenon
<1>5. \A i \in 1..lb : p + la + i <= n => data[p + la + i] = b[i]
  <2> SUFFICES ASSUME NEW i \in 1..lb, p + la + i <= n PROVE data[p + la + i] = b[i]
    BY Zenon
  <2>1. la + i \in 1..(la + lb) /\ p + (la + i) = p + la + i
    BY <1>1
  <2>2. data[p + (la + i)] = v[la + i]
    BY <2>1, <1>2, <1>3, Zenon
  <2> QED BY <2>1, <2>2, <1>2, Zenon
<1>6. p + la \in Nat
  BY <1>1
<1> QED BY <1>4, <1>5, <1>6, Zenon DEF Agrees, la, lb, n

(* t is at p exactly when its bytes are. *)
LEMMA HasAtBytes ==
    ASSUME NEW data \in Seq(Nat), NEW p \in Nat, NEW t \in Seq(Nat)
    PROVE  HasAt(data, p, t) <=> p + Len(t) <= Len(data) /\ \A i \in 1..Len(t) : data[p + i] = t[i]
<1>1. ASSUME HasAt(data, p, t) PROVE p + Len(t) <= Len(data) /\ \A i \in 1..Len(t) : data[p + i] = t[i]
  <2>1. p + Len(t) <= Len(data) /\ SubSeq(data, p + 1, p + Len(t)) = t
    BY <1>1, Zenon DEF HasAt
  <2>2. ASSUME p + Len(t) <= Len(data), NEW i \in 1..Len(t) PROVE SubSeq(data, p + 1, p + Len(t))[i] = data[p + i]
    BY <2>2
  <2> QED BY <2>1, <2>2, Zenon
<1>2. ASSUME p + Len(t) <= Len(data), \A i \in 1..Len(t) : data[p + i] = t[i] PROVE HasAt(data, p, t)
  <2>1. SubSeq(data, p + 1, p + Len(t)) = t
    BY <1>2, SlicePart, Zenon
  <2> QED BY <1>2, <2>1, Zenon DEF HasAt
<1> QED BY <1>1, <1>2, Zenon

(* What the data agrees with is there as soon as all of it has arrived. *)
LEMMA AgreesHas ==
    ASSUME NEW data \in Seq(Nat), NEW p \in Nat, NEW t \in Seq(Nat), Agrees(data, p, t)
    PROVE  /\ HasAt(data, p, t) <=> p + Len(t) <= Len(data)
           /\ p + Len(t) <= Len(data) => SubSeq(data, p + 1, p + Len(t)) = t
<1>1. ASSUME p + Len(t) <= Len(data) PROVE \A i \in 1..Len(t) : data[p + i] = t[i]
  <2>1. \A i \in 1..Len(t) : p + i <= Len(data)
    BY <1>1
  <2> QED BY <2>1, Zenon DEF Agrees
<1> QED BY <1>1, HasAtBytes, Zenon DEF HasAt

(* The two bytes of a line end. *)
LEMMA CRLFBytes ==
    /\ CRLF \in Seq(Nat) /\ Len(CRLF) = 2 /\ CRLF[1] = 13 /\ CRLF[2] = 10
    /\ 1 \in 1..2 /\ 2 \in 1..2 /\ 10 # 13
BY DEF CRLF

(* The first line end is the one behind a line that has none. *)
LEMMA LineEnds ==
    ASSUME NEW data \in Seq(Nat), NEW p \in Nat, NEW line \in Seq(Nat),
           \A i \in 1..Len(line) : line[i] # 13,
           Agrees(data, p, line), Agrees(data, p + Len(line), CRLF)
    PROVE  /\ p + Len(line) + 2 <= Len(data) =>
                /\ Places(data, p, CRLF) # {}
                /\ Min(Places(data, p, CRLF)) = p + Len(line)
                /\ SubSeq(data, p + 1, p + Len(line)) = line
           /\ ~(p + Len(line) + 2 <= Len(data)) => Places(data, p, CRLF) = {}
<1> DEFINE l == Len(line)
           n == Len(data)
           T == Places(data, p, CRLF)
<1>1. l \in Nat /\ n \in Nat /\ p + l \in Nat
  OBVIOUS
<1>2. T \in SUBSET Nat /\ \A x \in T : x \in Nat /\ p <= x /\ HasAt(data, x, CRLF)
  BY DEF Places
<1>3. HasAt(data, p + l, CRLF) <=> p + l + 2 <= n
  BY <1>1, CRLFBytes, AgreesHas, Zenon
<1>4. p + l <= n => SubSeq(data, p + 1, p + l) = line
  BY AgreesHas, Zenon
<1>5. \A i \in 1..l : p + i <= n => data[p + i] = line[i]
  BY Zenon DEF Agrees
<1> HIDE DEF l, n
<1>6. ASSUME NEW x \in T PROVE x >= p + l /\ x + 2 <= n
  <2>1. x \in Nat /\ p <= x /\ HasAt(data, x, CRLF)
    BY <1>2, Zenon
  <2>2. x + 2 <= n /\ data[x + 1] = 13
    <3>1. x + Len(CRLF) <= Len(data) /\ \A i \in 1..Len(CRLF) : data[x + i] = CRLF[i]
      BY <2>1, CRLFBytes, HasAtBytes, Zenon
    <3> QED BY <3>1, CRLFBytes, Zenon DEF n
  <2>3. ASSUME x < p + l PROVE FALSE
    <3> DEFINE i == x + 1 - p
    <3>1. i \in 1..l /\ p + i = x + 1 /\ p + i <= n
      BY <1>1, <2>1, <2>2, <2>3
    <3> HIDE DEF i
    <3>2. data[p + i] = line[i] /\ line[i] # 13
      BY <3>1, <1>5, Zenon DEF l
    <3> QED BY <2>2, <3>1, <3>2, Zenon
  <2> QED BY <1>1, <2>1, <2>2, <2>3
<1>7. ASSUME p + l + 2 <= n
      PROVE  T # {} /\ Min(T) = p + l /\ SubSeq(data, p + 1, p + l) = line
  <2>1. p + l \in p..n /\ p + l <= n
    BY <1>1, <1>7
  <2>2. p + l \in T
    BY <2>1, <1>3, <1>7, Zenon DEF Places, n
  <2> HIDE DEF T
  <2>3. Min(T) \in T /\ Min(T) <= p + l
    BY <2>2, <1>2, MinIsLeast, Zenon
  <2>4. Min(T) \in Nat /\ Min(T) >= p + l
    BY <2>3, <1>2, <1>6, Zenon
  <2>5. Min(T) = p + l
    BY <2>3, <2>4, <1>1
  <2> QED BY <2>1, <2>2, <2>5, <1>4, Zenon
<1>8. ASSUME ~(p + l + 2 <= n) PROVE T = {}
  <2>1. ASSUME NEW x \in T PROVE FALSE
    <3>1. x \in Nat /\ x >= p + l /\ x + 2 <= n
      BY <1>2, <1>6, Zenon
    <3> QED BY <3>1, <1>1, <1>8
  <2> QED BY <2>1, Zenon
<1> QED BY <1>7, <1>8, Zenon DEF l, n

-----------------------------------------------------------------------------
(* Chunks, trailers and messages.                                          *)

(* A chunk has a size line that says how many bytes of data it has, and it *)
(* has some. The line is text without a carriage return: on a line that is *)
(* no text one decoder fails and the other goes on with what it can read.  *)
Chunks ==
    {c \in [size : Seq(Byte), data : Seq(Byte)] :
        /\ c.data # <<>>
        /\ chunk_size(c.size) = Len(c.data)
        /\ IsText(c.size)
        /\ \A i \in 1..Len(c.size) : c.size[i] # 13}

(* The parts of a chunk and the length of its bytes. *)
LEMMA ChunkParts ==
    ASSUME NEW c \in Chunks
    PROVE  /\ c.size \in Seq(Byte) /\ c.size \in Seq(Nat) /\ Len(c.size) \in Nat
           /\ c.data \in Seq(Byte) /\ c.data \in Seq(Nat) /\ Len(c.data) \in Nat /\ Len(c.data) # 0
           /\ chunk_size(c.size) = Len(c.data)
           /\ \A i \in 1..Len(c.size) : c.size[i] # 13
           /\ ChunkBytes(c) \in Seq(Byte) /\ Len(ChunkBytes(c)) = Len(c.size) + Len(c.data) + 4
<1> DEFINE s == c.size
           d == c.data
           e == CRLF
<1>1. s \in Seq(Byte) /\ d \in Seq(Byte)
  BY Zenon DEF Chunks
<1>2. /\ d # <<>> /\ chunk_size(s) = Len(d)
      /\ \A i \in 1..Len(s) : s[i] # 13
  BY Zenon DEF Chunks
<1>3. s \in Seq(Nat) /\ d \in Seq(Nat)
  BY <1>1, BytesAreNumbers, Zenon
<1>4. e \in Seq(Byte)
  BY DEF CRLF, Byte
<1>5. ChunkBytes(c) = s \o e \o d \o e
  BY Zenon DEF ChunkBytes
<1> HIDE DEF s, d, e
<1>6. Len(s) \in Nat /\ Len(d) \in Nat /\ Len(e) \in Nat
  BY <1>1, <1>4
<1>7. Len(d) # 0
  BY <1>1, <1>2
<1>8. s \o e \o d \o e \in Seq(Byte)
  BY <1>1, <1>4
<1>9. Len(s \o e \o d \o e) = Len(s) + Len(e) + Len(d) + Len(e)
  BY <1>1, <1>4
<1>10. Len(e) = 2
  BY CRLFBytes, Zenon DEF e
<1>11. \A p, q \in Nat : p + 2 + q + 2 = p + q + 4
  OBVIOUS
<1>12. Len(s \o e \o d \o e) = Len(s) + Len(d) + 4
  BY <1>6, <1>9, <1>10, <1>11, Zenon
<1> QED BY <1>1, <1>2, <1>3, <1>5, <1>6, <1>7, <1>8, <1>12, Zenon DEF s, d

(* The loop takes a chunk that has arrived and stops at one that has not. *)
LEMMA ChunkStep ==
    ASSUME NEW data \in Seq(Byte), NEW p \in 0..Len(data), NEW body \in Seq(Byte),
           NEW c \in Chunks, Agrees(data, p, ChunkBytes(c))
    PROVE  chunks(data)[<<p, body>>] =
             IF p + Len(ChunkBytes(c)) <= Len(data)
               THEN chunks(data)[<<p + Len(ChunkBytes(c)), body \o c.data>>]
               ELSE NotDecoded
<1> DEFINE F == chunks(data)
           s == c.size
           d == c.data
           n == Len(data)
           ls == Len(s)
           ld == Len(d)
           q == p + ls
           u == q + 2
           w == u + ld
           lc == Len(ChunkBytes(c))
<1>1. data \in Seq(Nat) /\ n \in Nat /\ p \in Nat
  <2>1. n \in Nat /\ p \in Nat
    OBVIOUS
  <2> QED BY <2>1, BytesAreNumbers, Zenon
<1>2. /\ s \in Seq(Nat) /\ ls \in Nat /\ d \in Seq(Nat) /\ ld \in Nat /\ ld # 0 /\ chunk_size(s) = ld
      /\ lc = ls + ld + 4
      /\ \A i \in 1..ls : s[i] # 13
  BY ChunkParts, Zenon
<1>3. ChunkBytes(c) = s \o CRLF \o d \o CRLF
  BY Zenon DEF ChunkBytes
<1> HIDE DEF s, d, F
<1>4. /\ Agrees(data, p, s) /\ Agrees(data, q, CRLF) /\ Agrees(data, u, d) /\ Agrees(data, w, CRLF)
      /\ q \in Nat /\ u \in Nat /\ w \in Nat
  <2> DEFINE a == s \o CRLF
             b == s \o CRLF \o d
  <2>1. CRLF \in Seq(Nat) /\ Len(CRLF) = 2
    BY CRLFBytes, Zenon
  <2>2. a \in Seq(Nat) /\ Len(a) = Len(s) + Len(CRLF)
    <3>1. CRLF \in Seq(Nat) /\ s \in Seq(Nat)
      BY <2>1, <1>2, Zenon
    <3> QED BY <3>1
  <2>3. b = a \o d
    BY Zenon
  <2> HIDE DEF a, b
  <2>4. b \in Seq(Nat) /\ Len(b) = Len(a) + Len(d)
    <3>1. a \in Seq(Nat) /\ d \in Seq(Nat)
      BY <2>2, <1>2, Zenon
    <3> QED BY <3>1, <2>3
  <2>5. Agrees(data, p, b \o CRLF)
    BY <1>3, Zenon DEF b
  <2>6. Agrees(data, p, b) /\ Agrees(data, p + Len(b), CRLF) /\ p + Len(b) \in Nat
    BY <1>1, <2>1, <2>4, <2>5, AgreesParts, Zenon
  <2>7. Agrees(data, p, a) /\ Agrees(data, p + Len(a), d) /\ p + Len(a) \in Nat
    BY <1>1, <1>2, <2>2, <2>3, <2>6, AgreesParts, Zenon
  <2>8. Agrees(data, p, s) /\ Agrees(data, p + Len(s), CRLF) /\ p + Len(s) \in Nat
    BY <1>1, <1>2, <2>1, <2>7, AgreesParts, Zenon DEF a
  <2>9. Len(a) = ls + 2 /\ Len(b) = ls + 2 + ld
    BY <2>1, <2>2, <2>4, Zenon
  <2>10. p + (ls + 2) = u /\ p + (ls + 2 + ld) = w
    <3> HIDE DEF ls, ld
    <3> QED BY <1>1, <1>2
  <2> QED BY <2>6, <2>7, <2>8, <2>9, <2>10, Zenon
<1>5. F[<<p, body>>] = Goes(data, F, p, body)
  BY ChunkLoop, Zenon DEF F
<1>6. /\ q + 2 <= n =>
           /\ Places(data, p, CRLF) # {} /\ Min(Places(data, p, CRLF)) = q
           /\ SubSeq(data, p + 1, q) = s
      /\ ~(q + 2 <= n) => Places(data, p, CRLF) = {}
  BY <1>1, <1>2, <1>4, LineEnds, Zenon
<1>7. /\ HasAt(data, w, CRLF) <=> w + 2 <= n
      /\ w <= n => SubSeq(data, u + 1, w) = d
  BY <1>1, <1>2, <1>4, CRLFBytes, AgreesHas, Zenon
<1> HIDE DEF n, ls, ld, lc
<1>8. p + lc = w + 2 /\ ld # -1 /\ (p + lc <= n => q + 2 <= n /\ w <= n /\ w + 2 <= n) /\ (w + 2 <= n => p + lc <= n)
  BY <1>1, <1>2
<1> HIDE DEF q, u, w
<1>9. CASE q + 2 <= n
  <2>1. /\ Places(data, p, CRLF) # {} /\ Min(Places(data, p, CRLF)) = q
        /\ SubSeq(data, p + 1, q) = s /\ chunk_size(s) = ld /\ ld # -1 /\ ld # 0
    BY <1>2, <1>6, <1>8, <1>9, Zenon
  <2>2. Goes(data, F, p, body) =
          IF HasAt(data, q + 2 + ld, CRLF)
            THEN F[<<q + 2 + ld + 2, body \o SubSeq(data, q + 2 + 1, q + 2 + ld)>>]
            ELSE NotDecoded
    BY <2>1, Zenon DEF Goes
  <2>3. Goes(data, F, p, body) =
          IF HasAt(data, w, CRLF) THEN F[<<w + 2, body \o SubSeq(data, u + 1, w)>>] ELSE NotDecoded
    BY <2>2, Zenon DEF w, u
  <2>4. Goes(data, F, p, body) = IF p + lc <= n THEN F[<<p + lc, body \o d>>] ELSE NotDecoded
    BY <2>3, <1>7, <1>8, Zenon
  <2> QED BY <2>4, <1>5, Zenon DEF F, lc, n, d
<1>10. CASE ~(q + 2 <= n)
  <2>1. Goes(data, F, p, body) = NotDecoded
    BY <1>6, <1>10, Zenon DEF Goes
  <2> QED BY <2>1, <1>5, <1>8, <1>10, Zenon DEF F, lc, n, d
<1> QED BY <1>9, <1>10, Zenon

(* The last chunk ends the body when it has arrived. *)
LEMMA LastStep ==
    ASSUME NEW data \in Seq(Byte), NEW p \in 0..Len(data), NEW body \in Seq(Byte), Agrees(data, p, LastChunk)
    PROVE  chunks(data)[<<p, body>>] = IF p + 3 <= Len(data) THEN Decoded(body, p + 3) ELSE NotDecoded
<1> DEFINE F == chunks(data)
           s == <<48>>
           n == Len(data)
           q == p + 1
<1>1. data \in Seq(Nat) /\ n \in Nat /\ p \in Nat /\ q + 2 = p + 3
  <2>1. n \in Nat /\ p \in Nat /\ q + 2 = p + 3
    OBVIOUS
  <2> QED BY <2>1, BytesAreNumbers, Zenon
<1>2. s \in Seq(Nat) /\ Len(s) = 1 /\ \A i \in 1..1 : s[i] # 13
  OBVIOUS
<1>3. LastChunk = s \o CRLF
  BY Zenon DEF LastChunk
<1>4. chunk_size(s) = 0 /\ 0 # -1
  BY LastSize
<1> HIDE DEF s, F
<1>5. Agrees(data, p, s) /\ Agrees(data, p + Len(s), CRLF)
  BY <1>1, <1>2, <1>3, CRLFBytes, AgreesParts, Zenon
<1>6. /\ p + Len(s) + 2 <= n =>
           /\ Places(data, p, CRLF) # {} /\ Min(Places(data, p, CRLF)) = p + Len(s)
           /\ SubSeq(data, p + 1, p + Len(s)) = s
      /\ ~(p + Len(s) + 2 <= n) => Places(data, p, CRLF) = {}
  BY <1>1, <1>2, <1>5, LineEnds, Zenon
<1>7. /\ q + 2 <= n =>
           /\ Places(data, p, CRLF) # {} /\ Min(Places(data, p, CRLF)) = q
           /\ SubSeq(data, p + 1, q) = s
      /\ ~(q + 2 <= n) => Places(data, p, CRLF) = {}
  BY <1>2, <1>6, Zenon
<1>8. F[<<p, body>>] = Goes(data, F, p, body)
  BY ChunkLoop, Zenon DEF F
<1> HIDE DEF n, q
<1>9. q + 2 <= n => Goes(data, F, p, body) = Decoded(body, q + 2)
  BY <1>4, <1>7, Zenon DEF Goes
<1>10. ~(q + 2 <= n) => Goes(data, F, p, body) = NotDecoded
  BY <1>7, Zenon DEF Goes
<1> QED BY <1>1, <1>8, <1>9, <1>10, Zenon DEF F, n

(* A trailer line is not empty and has no line end. *)
Lines == {t \in Seq(Byte) : t # <<>> /\ \A i \in 1..Len(t) : t[i] # 13}

(* A chunked body with any number of chunks and of trailer lines. *)
Messages == [chunks : Seq(Chunks), trailers : Seq(Lines)]

(* What is taken of a sequence, and the next part of it. *)
LEMMA TakeMore ==
    ASSUME NEW X \in Seq(Byte), NEW a \in Nat, NEW t \in Seq(Byte), a + Len(t) <= Len(X),
           \A j \in 1..Len(t) : X[a + j] = t[j]
    PROVE  /\ SubSeq(X, 1, a) \in Seq(Byte)
           /\ SubSeq(X, 1, a) \o t = SubSeq(X, 1, a + Len(t))
<1> DEFINE l == Len(t)
           k == a + l
           u == SubSeq(X, 1, a)
           v == u \o t
           w == SubSeq(X, 1, k)
<1>1. l \in Nat /\ k \in Nat /\ Len(X) \in Nat /\ k <= Len(X) /\ a <= Len(X)
  OBVIOUS
<1>2. u \in Seq(Byte) /\ Len(u) = a /\ \A i \in 1..a : u[i] = X[i]
  <2> HIDE DEF l
  <2> QED BY <1>1
<1>3. w \in Seq(Byte) /\ Len(w) = k /\ \A i \in 1..k : w[i] = X[i]
  <2> HIDE DEF l, k
  <2> QED BY <1>1
<1> HIDE DEF u, w
<1>4. /\ v \in Seq(Byte) /\ Len(v) = Len(u) + l
      /\ \A i \in 1..Len(u) : v[i] = u[i]
      /\ \A i \in 1..l : v[Len(u) + i] = t[i]
  <2>1. u \in Seq(Byte)
    BY <1>2, Zenon
  <2> QED BY <2>1, Joined
<1> HIDE DEF v, l
<1>5. ASSUME NEW i \in 1..k PROVE v[i] = w[i]
  <2>1. CASE i <= a
    <3>1. i \in 1..a
      BY <2>1
    <3> QED BY <3>1, <1>2, <1>3, <1>4, Zenon
  <2>2. CASE ~(i <= a)
    <3> DEFINE j == i - a
    <3>1. j \in 1..l /\ a + j = i
      BY <2>2, <1>1
    <3> HIDE DEF j
    <3>2. X[a + j] = t[j]
      BY <3>1, Zenon DEF l
    <3>3. v[a + j] = t[j]
      BY <3>1, <1>2, <1>4, Zenon
    <3> QED BY <3>1, <3>2, <3>3, <1>3, Zenon
  <2> QED BY <2>1, <2>2, Zenon
<1> HIDE DEF k
<1>6. Len(v) = k
  BY <1>2, <1>4, Zenon DEF k
<1>7. v = w
  BY <1>3, <1>4, <1>5, <1>6, SameSeq, Zenon
<1> QED BY <1>2, <1>7, Zenon DEF v, u, w, k, l

(* What agrees with a concatenation agrees with its parts. *)
LEMMA AgreesPart ==
    ASSUME NEW data \in Seq(Nat), NEW p \in Nat, NEW s \in Seq(Seq(Nat)), NEW b \in Seq(Nat), NEW o, Layout(s, b, o),
           Agrees(data, p, b), NEW i \in 1..Len(s)
    PROVE  o[i - 1] \in Nat /\ p + o[i - 1] \in Nat /\ Agrees(data, p + o[i - 1], s[i])
<1> DEFINE l == Len(s[i])
           q == o[i - 1]
           n == Len(data)
<1>1. i - 1 \in 0..Len(s) /\ l \in Nat /\ n \in Nat /\ Len(b) \in Nat
  <2>1. s[i] \in Seq(Nat) /\ i - 1 \in 0..Len(s) /\ n \in Nat /\ Len(b) \in Nat
    OBVIOUS
  <2>2. l \in Nat
    BY <2>1
  <2> QED BY <2>1, <2>2, Zenon
<1>2. /\ q \in Nat /\ o[i] = q + l /\ o[i] <= Len(b)
      /\ \A j \in 1..l : b[q + j] = s[i][j]
  BY <1>1, Zenon DEF Layout
<1>3. \A j \in 1..Len(b) : p + j <= n => data[p + j] = b[j]
  BY Zenon DEF Agrees
<1>4. q + l <= Len(b)
  BY <1>2, Zenon
<1> HIDE DEF l, q, n
<1>5. ASSUME NEW j \in 1..l PROVE q + j \in 1..Len(b) /\ p + (q + j) = p + q + j
  BY <1>1, <1>2, <1>4
<1>6. ASSUME NEW j \in 1..l, p + q + j <= n PROVE data[p + q + j] = s[i][j]
  <2>1. data[p + (q + j)] = b[q + j]
    BY <1>3, <1>5, <1>6, Zenon
  <2> QED BY <2>1, <1>2, <1>5, Zenon
<1>7. p + q \in Nat
  BY <1>2
<1> QED BY <1>2, <1>6, <1>7, Zenon DEF Agrees, l, q, n

(* The bytes and the data of the chunks of a message. *)
ChunkPieces(m) == [i \in DOMAIN m.chunks |-> ChunkBytes(m.chunks[i])]

DataParts(m) == [i \in DOMAIN m.chunks |-> m.chunks[i].data]

(* The chunks and the trailers of a message, and the bytes and the data of *)
(* its chunks as sequences of parts.                                       *)
LEMMA MessageParts ==
    ASSUME NEW m \in Messages
    PROVE  /\ m.chunks \in Seq(Chunks) /\ m.trailers \in Seq(Lines)
           /\ Len(m.chunks) \in Nat
           /\ ChunkPieces(m) \in Seq(Seq(Byte)) /\ Len(ChunkPieces(m)) = Len(m.chunks)
           /\ DataParts(m) \in Seq(Seq(Byte)) /\ Len(DataParts(m)) = Len(m.chunks)
           /\ \A i \in 1..Len(m.chunks) :
                 /\ m.chunks[i] \in Chunks
                 /\ ChunkPieces(m)[i] = ChunkBytes(m.chunks[i])
                 /\ DataParts(m)[i] = m.chunks[i].data
<1> DEFINE C == m.chunks
           n == Len(C)
<1>1. C \in Seq(Chunks) /\ m.trailers \in Seq(Lines)
  BY Zenon DEF Messages
<1> HIDE DEF C
<1>2. n \in Nat /\ DOMAIN C = 1..n /\ \A i \in 1..n : C[i] \in Chunks
  BY <1>1
<1>3. \A i \in 1..n : ChunkBytes(C[i]) \in Seq(Byte) /\ C[i].data \in Seq(Byte)
  BY <1>2, ChunkParts, Zenon
<1> HIDE DEF n
<1>4. \A f : (\A i \in 1..n : f[i] \in Seq(Byte)) => [i \in 1..n |-> f[i]] \in Seq(Seq(Byte))
  BY <1>2
<1>5. \A f : Len([i \in 1..n |-> f[i]]) = n
  BY <1>2
<1> DEFINE P == [i \in 1..n |-> ChunkBytes(C[i])]
           Q == [i \in 1..n |-> C[i].data]
<1>6. P = [i \in 1..n |-> P[i]] /\ Q = [i \in 1..n |-> Q[i]]
  BY Zenon
<1>7. \A i \in 1..n : P[i] = ChunkBytes(C[i]) /\ Q[i] = C[i].data
  BY Zenon
<1>8. ChunkPieces(m) = P /\ DataParts(m) = Q
  BY <1>2, Zenon DEF ChunkPieces, DataParts, C
<1> HIDE DEF P, Q
<1>9. \A i \in 1..n : P[i] \in Seq(Byte) /\ Q[i] \in Seq(Byte)
  BY <1>3, <1>7, Zenon
<1>10. P \in Seq(Seq(Byte)) /\ Q \in Seq(Seq(Byte)) /\ Len(P) = n /\ Len(Q) = n
  BY <1>4, <1>5, <1>6, <1>9, Zenon
<1> QED BY <1>1, <1>2, <1>7, <1>8, <1>10, Zenon DEF C, n

(* The same of sequences of parts. *)
LEMMA PartsAreNumbers ==
    ASSUME NEW s \in Seq(Seq(Byte))
    PROVE  s \in Seq(Seq(Nat))
<1>1. Len(s) \in Nat /\ s = [i \in 1..Len(s) |-> s[i]] /\ \A i \in 1..Len(s) : s[i] \in Seq(Byte)
  OBVIOUS
<1>2. \A i \in 1..Len(s) : s[i] \in Seq(Nat)
  BY <1>1, BytesAreNumbers, Zenon
<1>3. \A n \in Nat : \A f : (\A i \in 1..n : f[i] \in Seq(Nat)) => [i \in 1..n |-> f[i]] \in Seq(Seq(Nat))
  OBVIOUS
<1>4. [i \in 1..Len(s) |-> s[i]] \in Seq(Seq(Nat))
  BY <1>1, <1>2, <1>3, Zenon
<1> QED BY <1>1, <1>4, Zenon

(* The bytes of a message up to the line of its last chunk, and its data. *)
LEMMA ChunksOfParts ==
    ASSUME NEW m \in Messages
    PROVE  /\ ChunksOf(m) = Concat(ChunkPieces(m)) \o LastChunk
           /\ Concat(ChunkPieces(m)) \in Seq(Byte)
           /\ LastChunk \in Seq(Byte) /\ Len(LastChunk) = 3
           /\ ChunksOf(m) \in Seq(Byte)
           /\ Len(ChunksOf(m)) = Len(Concat(ChunkPieces(m))) + 3
           /\ DataOf(m) = Concat(DataParts(m)) /\ DataOf(m) \in Seq(Byte)
<1> DEFINE B == Concat(ChunkPieces(m))
           e == LastChunk
<1>1. ChunksOf(m) = B \o e /\ DataOf(m) = Concat(DataParts(m))
  BY Zenon DEF ChunksOf, DataOf, ChunkPieces, DataParts
<1>2. B \in Seq(Byte) /\ Concat(DataParts(m)) \in Seq(Byte)
  BY MessageParts, ConcatLayout, Zenon
<1>3. e \in Seq(Byte) /\ Len(e) = 3
  BY DEF LastChunk, CRLF, Byte
<1> HIDE DEF B, e
<1>4. B \o e \in Seq(Byte) /\ Len(B \o e) = Len(B) + Len(e)
  <2>1. e \in Seq(Byte)
    BY <1>3, Zenon
  <2> QED BY <1>2, <2>1
<1>5. Len(B \o e) = Len(B) + 3
  BY <1>3, <1>4, Zenon
<1> QED BY <1>1, <1>2, <1>3, <1>4, <1>5, Zenon DEF B, e

(* The decoders' loop on what has arrived of a message. *)
LEMMA ChunksDecoded ==
    ASSUME NEW data \in Seq(Byte), NEW m \in Messages, Agrees(data, 0, ChunksOf(m))
    PROVE  chunks(data)[<<0, <<>>>>] =
             IF Len(ChunksOf(m)) <= Len(data) THEN Decoded(DataOf(m), Len(ChunksOf(m))) ELSE NotDecoded
<1> DEFINE C == m.chunks
           n == Len(C)
           N == Len(data)
           P == ChunkPieces(m)
           Q == DataParts(m)
           B == Concat(P)
           X == DataOf(m)
           F == chunks(data)
<1>1. /\ n \in Nat /\ P \in Seq(Seq(Byte)) /\ Len(P) = n /\ Q \in Seq(Seq(Byte)) /\ Len(Q) = n
      /\ \A i \in 1..n : C[i] \in Chunks /\ P[i] = ChunkBytes(C[i]) /\ Q[i] = C[i].data
  BY MessageParts, Zenon
<1>2. /\ ChunksOf(m) = B \o LastChunk /\ B \in Seq(Byte) /\ LastChunk \in Seq(Byte)
      /\ Len(ChunksOf(m)) = Len(B) + 3 /\ X = Concat(Q) /\ X \in Seq(Byte)
  BY ChunksOfParts, Zenon
<1>3. data \in Seq(Nat) /\ B \in Seq(Nat) /\ LastChunk \in Seq(Nat) /\ P \in Seq(Seq(Nat)) /\ N \in Nat
  <2>1. N \in Nat
    OBVIOUS
  <2> QED BY <1>1, <1>2, <2>1, BytesAreNumbers, PartsAreNumbers, Zenon
<1>4. PICK o : Layout(P, B, o)
  BY <1>1, ConcatLayout, Zenon
<1>5. PICK x : Layout(Q, X, x)
  BY <1>1, <1>2, ConcatLayout, Zenon
<1>6. Agrees(data, 0, B) /\ Agrees(data, 0 + Len(B), LastChunk)
  <2>1. Agrees(data, 0, B \o LastChunk) /\ 0 \in Nat
    BY <1>2
  <2> QED BY <1>3, <2>1, AgreesParts, Zenon
<1> HIDE DEF C, n, N, P, Q, B, X, F
<1>7. /\ o \in [0..n -> Nat] /\ o[0] = 0 /\ o[n] = Len(B)
      /\ \A i \in 1..n : o[i] = o[i - 1] + Len(P[i]) /\ o[i] <= Len(B)
  BY <1>1, <1>4, Zenon DEF Layout
<1>8. /\ x \in [0..n -> Nat] /\ x[0] = 0 /\ x[n] = Len(X)
      /\ \A i \in 1..n : x[i] = x[i - 1] + Len(Q[i]) /\ x[i] <= Len(X) /\ \A j \in 1..Len(Q[i]) : X[x[i - 1] + j] = Q[i][j]
  BY <1>1, <1>5, Zenon DEF Layout
<1> DEFINE y(i) == SubSeq(X, 1, x[i])
           r == [i \in 0..n |-> IF o[i] <= N THEN F[<<o[i], y(i)>>] ELSE NotDecoded]
           hit == {i \in 1..n : ~(o[i] <= N)}
           v == [i \in 1..n |-> NotDecoded]
<1>9. ASSUME NEW i \in 1..n PROVE r[i - 1] = IF i \in hit THEN v[i] ELSE r[i]
  <2>1. i \in 0..n /\ i - 1 \in 0..n
    BY <1>1
  <2>2. o[i - 1] \in Nat /\ o[i] \in Nat /\ x[i - 1] \in Nat
    BY <2>1, <1>7, <1>8, Zenon
  <2> DEFINE c == C[i]
  <2>3. c \in Chunks /\ P[i] = ChunkBytes(c) /\ Q[i] = c.data
    BY <1>1, Zenon
  <2>4. c.data \in Seq(Byte) /\ Len(ChunkBytes(c)) \in Nat
    <3>1. /\ c.data \in Seq(Byte) /\ Len(c.size) \in Nat /\ Len(c.data) \in Nat
          /\ Len(ChunkBytes(c)) = Len(c.size) + Len(c.data) + 4
      BY <2>3, ChunkParts, Zenon
    <3> DEFINE e == Len(c.size)
               f == Len(c.data)
               g == Len(ChunkBytes(c))
    <3>2. e \in Nat /\ f \in Nat /\ g = e + f + 4
      BY <3>1, Zenon
    <3> HIDE DEF e, f, g
    <3>3. g \in Nat
      BY <3>2
    <3> QED BY <3>1, <3>3, Zenon DEF g
  <2> HIDE DEF c
  <2>5. o[i] = o[i - 1] + Len(ChunkBytes(c))
    BY <2>3, <1>7, Zenon
  <2>6. y(i - 1) \in Seq(Byte) /\ y(i - 1) \o c.data = y(i)
    <3>1. x[i] = x[i - 1] + Len(c.data) /\ x[i] <= Len(X) /\ \A j \in 1..Len(c.data) : X[x[i - 1] + j] = c.data[j]
      BY <2>3, <1>8, Zenon
    <3>2. x[i - 1] + Len(c.data) <= Len(X)
      BY <3>1, Zenon
    <3>3. /\ SubSeq(X, 1, x[i - 1]) \in Seq(Byte)
          /\ SubSeq(X, 1, x[i - 1]) \o c.data = SubSeq(X, 1, x[i - 1] + Len(c.data))
      <4> DEFINE a == x[i - 1]
                 t == c.data
      <4>1. X \in Seq(Byte) /\ a \in Nat /\ t \in Seq(Byte) /\ a + Len(t) <= Len(X)
        BY <2>2, <2>4, <3>2, <1>2, Zenon
      <4>2. \A j \in 1..Len(t) : X[a + j] = t[j]
        BY <3>1, Zenon
      <4> HIDE DEF a, t
      <4>3. SubSeq(X, 1, a) \in Seq(Byte) /\ SubSeq(X, 1, a) \o t = SubSeq(X, 1, a + Len(t))
        BY <4>1, <4>2, TakeMore, Zenon
      <4> QED BY <4>3, Zenon DEF a, t
    <3> QED BY <3>1, <3>3, Zenon
  <2>7. /\ r[i - 1] = IF o[i - 1] <= N THEN F[<<o[i - 1], y(i - 1)>>] ELSE NotDecoded
        /\ r[i] = IF o[i] <= N THEN F[<<o[i], y(i)>>] ELSE NotDecoded
        /\ v[i] = NotDecoded /\ (i \in hit <=> ~(o[i] <= N))
    <3> HIDE DEF y
    <3> QED BY <2>1, Zenon
  <2>8. CASE o[i - 1] <= N
    <3>1. o[i - 1] \in 0..N
      BY <2>2, <2>8, <1>3
    <3>2. Agrees(data, o[i - 1], ChunkBytes(c))
      <4>1. Agrees(data, 0 + o[i - 1], P[i])
        <5>1. i \in 1..Len(P) /\ 0 \in Nat
          BY <1>1
        <5> QED BY <5>1, <1>3, <1>4, <1>6, AgreesPart, Zenon
      <4>2. 0 + o[i - 1] = o[i - 1]
        BY <2>2
      <4> QED BY <4>1, <4>2, <2>3, Zenon
    <3> DEFINE z == y(i - 1)
    <3>3. z \in Seq(Byte)
      BY <2>6, Zenon
    <3> HIDE DEF z
    <3>4. F[<<o[i - 1], z>>] =
            IF o[i - 1] + Len(ChunkBytes(c)) <= N THEN F[<<o[i - 1] + Len(ChunkBytes(c)), z \o c.data>>] ELSE NotDecoded
      BY <2>3, <3>1, <3>2, <3>3, ChunkStep, Zenon DEF F, N
    <3>5. F[<<o[i - 1], z>>] = IF o[i] <= N THEN F[<<o[i], z \o c.data>>] ELSE NotDecoded
      BY <2>5, <3>4, Zenon
    <3>6. z \o c.data = y(i)
      BY <2>6, Zenon DEF z
    <3>7. F[<<o[i - 1], z>>] = IF o[i] <= N THEN F[<<o[i], y(i)>>] ELSE NotDecoded
      BY <3>5, <3>6, Zenon
    <3>8. r[i - 1] = F[<<o[i - 1], z>>]
      BY <2>7, <2>8, Zenon DEF z
    <3> HIDE DEF r, y, v, hit
    <3> QED BY <2>7, <3>7, <3>8, Zenon
  <2>9. CASE ~(o[i - 1] <= N)
    <3>1. ~(o[i] <= N)
      BY <2>2, <2>4, <2>5, <2>9, <1>3
    <3> HIDE DEF r, y, v, hit
    <3> QED BY <2>7, <2>9, <3>1, Zenon
  <2> QED BY <2>8, <2>9, Zenon
<1>10. Searches(n, r, hit, v)
  BY <1>9, Zenon DEF Searches
<1>11. hit \in SUBSET (1..n)
  BY Zenon
<1>12. 0 \in 0..n /\ n \in 0..n /\ 0 <= N /\ n \in Nat
  BY <1>1, <1>3
<1>13. r[0] = F[<<0, <<>>>>]
  <2>1. y(0) = <<>>
    <3>1. SubSeq(X, 1, 0) = <<>>
      BY <1>2
    <3> QED BY <3>1, <1>8, Zenon
  <2>2. r[0] = F[<<o[0], y(0)>>]
    BY <1>7, <1>12, Zenon
  <2> QED BY <2>1, <2>2, <1>7, Zenon
<1>14. r[n] = IF Len(B) + 3 <= N THEN Decoded(X, Len(B) + 3) ELSE NotDecoded
  <2>1. y(n) = X
    <3>1. SubSeq(X, 1, Len(X)) = X
      BY <1>2
    <3> QED BY <3>1, <1>8, Zenon
  <2>2. r[n] = IF Len(B) <= N THEN F[<<Len(B), X>>] ELSE NotDecoded
    <3>1. r[n] = IF o[n] <= N THEN F[<<o[n], y(n)>>] ELSE NotDecoded
      <4> HIDE DEF y
      <4> QED BY <1>12, Zenon
    <3> HIDE DEF r, y
    <3> QED BY <3>1, <2>1, <1>7, Zenon
  <2> HIDE DEF r, y
  <2>3. Len(B) \in Nat
    BY <1>2
  <2>4. 0 + Len(B) = Len(B) /\ (Len(B) <= N => Len(B) \in 0..N) /\ (~(Len(B) <= N) => ~(Len(B) + 3 <= N))
    <3> DEFINE b == Len(B)
    <3>1. b \in Nat
      BY <2>3, Zenon
    <3> HIDE DEF b
    <3>2. 0 + b = b /\ (b <= N => b \in 0..N) /\ (~(b <= N) => ~(b + 3 <= N))
      BY <3>1, <1>3
    <3> QED BY <3>2, Zenon DEF b
  <2>5. Len(B) <= N => F[<<Len(B), X>>] = IF Len(B) + 3 <= N THEN Decoded(X, Len(B) + 3) ELSE NotDecoded
    BY <1>2, <1>6, <2>4, LastStep, Zenon DEF F, N
  <2> QED BY <2>2, <2>4, <2>5, Zenon
<1>15. r[0] = IF hit = {} THEN r[n] ELSE v[Min(hit)]
  <2> HIDE DEF r, v, hit
  <2> QED BY <1>10, <1>11, <1>12, SearchReturnsFirst, Zenon
<1>16. ASSUME hit # {} PROVE v[Min(hit)] = NotDecoded /\ ~(Len(B) + 3 <= N)
  <2>1. PICK i \in 1..n : ~(o[i] <= N)
    BY <1>16, Zenon
  <2>2. o[i] \in Nat /\ o[i] <= Len(B) /\ Len(B) \in Nat
    <3>1. i \in 0..n
      BY <1>1
    <3>2. Len(B) \in Nat
      BY <1>2
    <3> QED BY <3>1, <3>2, <1>7, Zenon
  <2>3. ~(Len(B) + 3 <= N)
    <3> DEFINE b == Len(B)
    <3>1. b \in Nat /\ o[i] \in Nat /\ o[i] <= b
      BY <2>2, Zenon
    <3> HIDE DEF b
    <3>2. ~(b + 3 <= N)
      BY <3>1, <2>1, <1>3
    <3> QED BY <3>2, Zenon DEF b
  <2>4. Min(hit) \in 1..n
    <3>1. hit \in SUBSET Nat
      BY <1>11
    <3> HIDE DEF hit
    <3> QED BY <3>1, <1>11, <1>16, MinIsLeast, Zenon
  <2> HIDE DEF hit
  <2> QED BY <2>3, <2>4, Zenon
<1> HIDE DEF r, v, hit
<1>17. F[<<0, <<>>>>] = IF Len(B) + 3 <= N THEN Decoded(X, Len(B) + 3) ELSE NotDecoded
  BY <1>13, <1>14, <1>15, <1>16, Zenon
<1> QED BY <1>2, <1>17, Zenon DEF F, N, X

-----------------------------------------------------------------------------
(* The trailers.                                                           *)

(* Every byte of a concatenation is in one of its parts. *)
LEMMA Covered ==
    ASSUME NEW s, NEW b, NEW o, Layout(s, b, o), Len(s) \in Nat, Len(b) \in Nat, NEW x \in 1..Len(b)
    PROVE  \E i \in 1..Len(s) : o[i - 1] < x /\ x <= o[i]
<1> DEFINE n == Len(s)
           T == {i \in 0..n : x <= o[i]}
<1>1. o \in [0..n -> Nat] /\ o[0] = 0 /\ o[n] = Len(b)
  BY Zenon DEF Layout
<1>2. n \in T /\ T \in SUBSET Nat
  BY <1>1
<1>3. PICK i \in T : \A j \in T : i <= j
  <2> HIDE DEF T
  <2> QED BY <1>2, LeastNumber, Zenon
<1>4. i # 0
  BY <1>1, <1>3
<1> HIDE DEF n
<1>5. i \in 1..n /\ i - 1 \in 0..n /\ ~(i <= i - 1)
  BY <1>3, <1>4 DEF n
<1>6. ~(x <= o[i - 1]) /\ o[i - 1] \in Nat
  BY <1>1, <1>3, <1>5, Zenon
<1>7. o[i - 1] < x
  BY <1>6
<1> QED BY <1>3, <1>5, <1>7, Zenon DEF n

(* A trailer line and its end. *)
LEMMA TrailerLine ==
    ASSUME NEW t \in Lines
    PROVE  /\ t \o CRLF \in Seq(Byte) /\ Len(t) \in Nat /\ Len(t) >= 1 /\ Len(t \o CRLF) = Len(t) + 2
           /\ \A i \in 1..Len(t) : (t \o CRLF)[i] # 13
           /\ (t \o CRLF)[Len(t) + 1] = 13 /\ (t \o CRLF)[Len(t) + 2] = 10
<1> DEFINE e == CRLF
           w == t \o e
<1>1. t \in Seq(Byte) /\ t # <<>>
  BY Zenon DEF Lines
<1>2. \A i \in 1..Len(t) : t[i] # 13
  BY Zenon DEF Lines
<1>3. Len(t) \in Nat /\ Len(t) >= 1
  BY <1>1
<1>4. e \in Seq(Byte)
  BY DEF CRLF, Byte
<1> HIDE DEF e
<1>5. /\ w \in Seq(Byte) /\ Len(w) = Len(t) + Len(e)
      /\ \A i \in 1..Len(t) : w[i] = t[i]
      /\ \A i \in 1..Len(e) : w[Len(t) + i] = e[i]
  BY <1>1, <1>4, Joined
<1> HIDE DEF w
<1>6. Len(e) = 2 /\ e[1] = 13 /\ e[2] = 10 /\ 1 \in 1..2 /\ 2 \in 1..2
  BY CRLFBytes, Zenon DEF e
<1>7. w[Len(t) + 1] = 13 /\ w[Len(t) + 2] = 10 /\ Len(w) = Len(t) + 2
  BY <1>5, <1>6, Zenon
<1> QED BY <1>2, <1>3, <1>5, <1>7, Zenon DEF w, e

(* The trailer lines with their ends. *)
TrailerParts(s) == [i \in DOMAIN s |-> s[i] \o CRLF]

(* The line i of the trailers is where it should be in their bytes g. *)
LineAt(s, g, o, i) ==
    /\ o[i - 1] \in Nat /\ o[i] \in Nat /\ o[i] <= Len(g)
    /\ Len(s[i]) \in Nat /\ Len(s[i]) >= 1 /\ o[i] = o[i - 1] + Len(s[i]) + 2
    /\ \A j \in 1..Len(s[i]) : g[o[i - 1] + j] # 13
    /\ g[o[i - 1] + Len(s[i]) + 1] = 13
    /\ g[o[i - 1] + Len(s[i]) + 2] = 10

(* Every trailer line has its place, and every byte of the trailers is in  *)
(* a line.                                                                 *)
LEMMA TrailerLayout ==
    ASSUME NEW s \in Seq(Lines)
    PROVE  LET g == Concat(TrailerParts(s)) IN
           /\ g \in Seq(Byte)
           /\ \E o : /\ o[0] = 0 /\ o[Len(s)] = Len(g)
                     /\ \A i \in 1..Len(s) : LineAt(s, g, o, i)
                     /\ \A x \in 1..Len(g) : \E i \in 1..Len(s) : o[i - 1] < x /\ x <= o[i]
<1> DEFINE P == TrailerParts(s)
           n == Len(s)
           g == Concat(P)
<1>1. n \in Nat /\ DOMAIN s = 1..n /\ \A i \in 1..n : s[i] \in Lines
  OBVIOUS
<1>2. P = [i \in 1..n |-> s[i] \o CRLF]
  BY <1>1, Zenon DEF TrailerParts
<1> HIDE DEF P, n
<1>3. \A i \in 1..n : P[i] = s[i] \o CRLF
  BY <1>2, Zenon
<1>4. \A i \in 1..n : P[i] \in Seq(Byte)
  BY <1>1, <1>3, TrailerLine, Zenon
<1>5. P = [i \in 1..n |-> P[i]]
  BY <1>2, Zenon
<1>6. \A f : (\A i \in 1..n : f[i] \in Seq(Byte)) => [i \in 1..n |-> f[i]] \in Seq(Seq(Byte))
  BY <1>1
<1>7. \A f : Len([i \in 1..n |-> f[i]]) = n
  BY <1>1
<1>8. P \in Seq(Seq(Byte)) /\ Len(P) = n
  BY <1>4, <1>5, <1>6, <1>7, Zenon
<1>9. g \in Seq(Byte)
  BY <1>8, ConcatLayout, Zenon
<1>10. PICK o : Layout(P, g, o)
  BY <1>8, ConcatLayout, Zenon
<1> HIDE DEF g
<1>11. o \in [0..n -> Nat] /\ o[0] = 0 /\ o[n] = Len(g)
  BY <1>8, <1>10, Zenon DEF Layout
<1>12. ASSUME NEW i \in 1..n PROVE LineAt(s, g, o, i)
  <2> DEFINE a == o[i - 1]
             l == Len(s[i])
  <2>1. i - 1 \in 0..n /\ i \in 0..n
    BY <1>1
  <2>2. a \in Nat /\ o[i] \in Nat
    BY <2>1, <1>11, Zenon
  <2>3. /\ o[i] = a + Len(P[i]) /\ o[i] <= Len(g)
        /\ \A j \in 1..Len(P[i]) : g[a + j] = P[i][j]
    BY <1>8, <1>10, Zenon DEF Layout
  <2>4. /\ l \in Nat /\ l >= 1 /\ Len(P[i]) = l + 2
        /\ \A j \in 1..l : P[i][j] # 13
        /\ P[i][l + 1] = 13 /\ P[i][l + 2] = 10
    BY <1>1, <1>3, TrailerLine, Zenon
  <2>5. o[i] = a + (l + 2) /\ \A j \in 1..(l + 2) : g[a + j] = P[i][j]
    BY <2>3, <2>4, Zenon
  <2> HIDE DEF a, l
  <2>6. /\ a + (l + 2) = a + l + 2 /\ a + (l + 1) = a + l + 1
        /\ l + 1 \in 1..(l + 2) /\ l + 2 \in 1..(l + 2) /\ \A j \in 1..l : j \in 1..(l + 2)
    BY <2>2, <2>4
  <2>7. g[a + (l + 1)] = 13 /\ g[a + (l + 2)] = 10
    BY <2>4, <2>5, <2>6, Zenon
  <2>8. \A j \in 1..l : g[a + j] # 13
    BY <2>4, <2>5, <2>6, Zenon
  <2>9. o[i] = a + l + 2 /\ g[a + l + 1] = 13 /\ g[a + l + 2] = 10
    BY <2>5, <2>6, <2>7, Zenon
  <2> QED BY <2>2, <2>3, <2>4, <2>8, <2>9, Zenon DEF LineAt, a, l
<1>13. \A x \in 1..Len(g) : \E i \in 1..n : o[i - 1] < x /\ x <= o[i]
  <2>1. Len(g) \in Nat
    BY <1>9
  <2> QED BY <2>1, <1>1, <1>8, <1>10, Covered, Zenon
<1> QED BY <1>9, <1>11, <1>12, <1>13, Zenon DEF n, g, P

(* The bytes of the trailers: an empty line ends them, and none comes      *)
(* before.                                                                 *)
LEMMA TrailerBytes ==
    ASSUME NEW s \in Seq(Lines)
    PROVE  LET g == Concat(TrailerParts(s)) IN
           /\ g \in Seq(Byte) /\ Len(g) \in Nat
           /\ s = <<>> => g = <<>>
           /\ s # <<>> => /\ Len(g) >= 3 /\ g[1] # 13
                          /\ g[Len(g) - 1] = 13 /\ g[Len(g)] = 10
                          /\ \A x \in 1..(Len(g) - 2) : ~(g[x] = 13 /\ g[x + 2] = 13)
<1> DEFINE g == Concat(TrailerParts(s))
           k == Len(s)
           L == Len(g)
<1>1. g \in Seq(Byte)
  BY TrailerLayout, Zenon
<1>2. PICK o : /\ o[0] = 0 /\ o[k] = L
               /\ \A i \in 1..k : LineAt(s, g, o, i)
               /\ \A x \in 1..L : \E i \in 1..k : o[i - 1] < x /\ x <= o[i]
  BY TrailerLayout, Zenon
<1>3. k \in Nat /\ (s = <<>> <=> k = 0)
  OBVIOUS
<1> HIDE DEF g, k
<1>4. L \in Nat
  BY <1>1
<1>5. s = <<>> => g = <<>>
  <2>1. s = <<>> => L = 0
    BY <1>2, <1>3, Zenon
  <2>2. L = 0 => g = <<>>
    BY <1>1
  <2> QED BY <2>1, <2>2, Zenon
<1> HIDE DEF L
<1>6. ASSUME s # <<>>
      PROVE  L >= 3 /\ g[1] # 13 /\ g[L - 1] = 13 /\ g[L] = 10
  <2>1. 1 \in 1..k /\ k \in 1..k /\ 1 - 1 = 0
    BY <1>3, <1>6
  <2>2. LineAt(s, g, o, 1) /\ LineAt(s, g, o, k)
    BY <1>2, <2>1, Zenon
  <2> DEFINE a == o[k - 1]
             l == Len(s[k])
             f == Len(s[1])
  <2>3. a \in Nat /\ l \in Nat /\ l >= 1 /\ L = a + l + 2 /\ g[a + l + 1] = 13 /\ g[a + l + 2] = 10
    BY <2>2, <1>2, Zenon DEF LineAt
  <2>4. f \in Nat /\ f >= 1 /\ \A j \in 1..f : g[0 + j] # 13
    <3>1. o[1 - 1] = 0
      BY <2>1, <1>2, Zenon
    <3> QED BY <2>2, <3>1, Zenon DEF LineAt
  <2> HIDE DEF a, l, f
  <2>5. L >= 3 /\ L - 1 = a + l + 1
    BY <2>3
  <2>6. 1 \in 1..f /\ 0 + 1 = 1
    BY <2>4
  <2> QED BY <2>3, <2>4, <2>5, <2>6, Zenon
<1>7. ASSUME NEW x \in 1..(L - 2), g[x] = 13 PROVE g[x + 2] # 13
  <2>1. x \in 1..L /\ x \in Nat /\ x + 2 <= L
    BY <1>4
  <2>2. PICK i \in 1..k : o[i - 1] < x /\ x <= o[i]
    BY <1>2, <2>1, Zenon
  <2> DEFINE a == o[i - 1]
             l == Len(s[i])
             j == x - a
  <2>3. /\ a \in Nat /\ l \in Nat /\ l >= 1 /\ o[i] = a + l + 2
        /\ \A y \in 1..l : g[a + y] # 13
        /\ g[a + l + 2] = 10
    BY <1>2, Zenon DEF LineAt
  <2>4. a < x /\ x <= a + l + 2
    BY <2>2, <2>3, Zenon
  <2> HIDE DEF a, l
  <2>5. j \in Nat /\ j >= 1 /\ a + j = x /\ j <= l + 2
    BY <2>1, <2>3, <2>4
  <2>6. ~(j <= l)
    <3>1. j <= l => j \in 1..l
      BY <2>3, <2>5
    <3> HIDE DEF j
    <3> QED BY <3>1, <2>3, <2>5, <1>7, Zenon
  <2>7. j # l + 2
    <3>1. j = l + 2 => x = a + l + 2
      BY <2>3, <2>5
    <3>2. 10 # 13
      OBVIOUS
    <3> HIDE DEF j
    <3> QED BY <3>1, <3>2, <2>3, <1>7, Zenon
  <2>8. x + 2 = o[i] + 1 /\ o[i] \in Nat /\ o[i] # L
    BY <1>4, <2>1, <2>3, <2>5, <2>6, <2>7
  <2>9. i + 1 \in 1..k /\ (i + 1) - 1 = i
    <3>1. i # k
      BY <1>2, <2>8, Zenon
    <3> QED BY <3>1, <1>3
  <2> DEFINE f == Len(s[i + 1])
  <2>10. f \in Nat /\ f >= 1 /\ \A y \in 1..f : g[o[i] + y] # 13
    <3>1. LineAt(s, g, o, i + 1)
      BY <1>2, <2>9, Zenon
    <3> QED BY <3>1, <2>9, Zenon DEF LineAt
  <2> HIDE DEF f
  <2>11. 1 \in 1..f
    BY <2>10
  <2> QED BY <2>8, <2>10, <2>11, Zenon
<1> QED BY <1>1, <1>4, <1>5, <1>6, <1>7, Zenon DEF g, L

(* An end of line and an empty line. *)
LEMMA EmptyLineAt ==
    ASSUME NEW data \in Seq(Nat), NEW x \in Nat
    PROVE  HasAt(data, x, CRLF \o CRLF) <=>
               /\ x + 4 <= Len(data)
               /\ data[x + 1] = 13 /\ data[x + 2] = 10 /\ data[x + 3] = 13 /\ data[x + 4] = 10
<1> DEFINE e == CRLF \o CRLF
           l == Len(e)
<1>1. /\ e \in Seq(Nat) /\ l = 4 /\ e[1] = 13 /\ e[2] = 10 /\ e[3] = 13 /\ e[4] = 10
      /\ 1..4 = {1, 2, 3, 4}
  BY DEF CRLF
<1> HIDE DEF e
<1>2. HasAt(data, x, e) <=> x + l <= Len(data) /\ \A i \in 1..l : data[x + i] = e[i]
  BY <1>1, HasAtBytes, Zenon
<1> HIDE DEF l
<1>3. (\A i \in {1, 2, 3, 4} : data[x + i] = e[i]) <=>
         data[x + 1] = e[1] /\ data[x + 2] = e[2] /\ data[x + 3] = e[3] /\ data[x + 4] = e[4]
  BY Zenon
<1>4. HasAt(data, x, e) <=> x + 4 <= Len(data) /\ \A i \in {1, 2, 3, 4} : data[x + i] = e[i]
  BY <1>1, <1>2, Zenon
<1> QED BY <1>1, <1>3, <1>4, Zenon DEF e

(* Behind the last chunk, the trailers end where they are over, and not    *)
(* before.                                                                 *)
LEMMA TrailersEnd ==
    ASSUME NEW data \in Seq(Nat), NEW q \in Nat, NEW s \in Seq(Lines),
           Agrees(data, q, Concat(TrailerParts(s))),
           Agrees(data, q + Len(Concat(TrailerParts(s))), CRLF)
    PROVE  LET n == Len(data)
               l == q + Len(Concat(TrailerParts(s))) + 2
               found == Places(data, q, CRLF \o CRLF)
           IN /\ HasAt(data, q, CRLF) => s = <<>>
              /\ s = <<>> => l = q + 2 /\ (HasAt(data, q, CRLF) <=> l <= n)
              /\ l <= n /\ s # <<>> => found # {} /\ Min(found) + 4 = l
              /\ ~(l <= n) => found = {}
<1> DEFINE g == Concat(TrailerParts(s))
           k == Len(g)
           n == Len(data)
           l == q + k + 2
           found == Places(data, q, CRLF \o CRLF)
<1>1. /\ g \in Seq(Byte) /\ k \in Nat
      /\ s = <<>> => g = <<>>
      /\ s # <<>> => /\ k >= 3 /\ g[1] # 13
                     /\ g[k - 1] = 13 /\ g[k] = 10
                     /\ \A x \in 1..(k - 2) : ~(g[x] = 13 /\ g[x + 2] = 13)
  BY TrailerBytes, Zenon
<1>2. g \in Seq(Nat)
  BY <1>1, BytesAreNumbers, Zenon
<1> HIDE DEF g
<1>3. n \in Nat /\ (g = <<>> => k = 0)
  BY <1>2
<1>4. Agrees(data, q, g) /\ Agrees(data, q + k, CRLF)
  BY Zenon DEF g
<1>5. \A i \in 1..k : q + i <= n => data[q + i] = g[i]
  BY <1>4, Zenon DEF Agrees
<1>6. /\ q + k + 1 <= n => data[q + k + 1] = 13
      /\ q + k + 2 <= n => data[q + k + 2] = 10
  BY <1>4, CRLFBytes, Zenon DEF Agrees
<1>7. HasAt(data, q, CRLF) <=> q + 2 <= n /\ \A i \in 1..2 : data[q + i] = CRLF[i]
  <2> DEFINE e == CRLF
  <2>1. e \in Seq(Nat) /\ Len(e) = 2
    BY CRLFBytes, Zenon
  <2> HIDE DEF e
  <2>2. HasAt(data, q, e) <=> q + Len(e) <= n /\ \A i \in 1..Len(e) : data[q + i] = e[i]
    BY <2>1, HasAtBytes, Zenon
  <2> QED BY <2>1, <2>2, Zenon DEF e
<1>8. \A x \in found : x \in Nat /\ q <= x /\ HasAt(data, x, CRLF \o CRLF)
  BY <1>3 DEF Places
<1>9. \A x \in found : /\ x \in Nat /\ q <= x /\ x + 4 <= n
                       /\ data[x + 1] = 13 /\ data[x + 3] = 13
  BY <1>8, EmptyLineAt, Zenon
<1>10. found \in SUBSET Nat
  BY <1>8, Zenon
<1>11. \A x \in Nat : q <= x /\ x <= n /\ HasAt(data, x, CRLF \o CRLF) => x \in found
  BY <1>3 DEF Places
<1> HIDE DEF found, k, n
<1>12. ASSUME s = <<>>
       PROVE  l = q + 2 /\ (HasAt(data, q, CRLF) <=> l <= n) /\ (~(l <= n) => found = {})
  <2>1. k = 0
    BY <1>1, <1>3, <1>12, Zenon
  <2>2. l = q + 2 /\ q + k + 1 = q + 1 /\ q + k + 2 = q + 2 /\ (q + 2 <= n => q + 1 <= n)
    BY <2>1, <1>3
  <2> HIDE DEF l
  <2>3. q + 2 <= n => data[q + 1] = 13 /\ data[q + 2] = 10
    BY <1>6, <2>2, Zenon
  <2>4. (\A i \in 1..2 : data[q + i] = CRLF[i]) <=> data[q + 1] = 13 /\ data[q + 2] = 10
    <3>1. 1..2 = {1, 2}
      OBVIOUS
    <3> QED BY <3>1, CRLFBytes, Zenon
  <2>5. HasAt(data, q, CRLF) <=> l <= n
    BY <2>2, <2>3, <2>4, <1>7, Zenon
  <2>6. ~(q + 2 <= n) => \A x \in Nat : ~(q <= x /\ x + 4 <= n)
    BY <1>3
  <2>7. ~(q + 2 <= n) => found = {}
    BY <2>6, <1>9, Zenon
  <2> QED BY <2>2, <2>5, <2>7, Zenon
<1>13. ASSUME s # <<>>
       PROVE  /\ ~HasAt(data, q, CRLF)
              /\ l <= n => found # {} /\ Min(found) + 4 = l
              /\ ~(l <= n) => found = {}
  <2>1. /\ k >= 3 /\ g[1] # 13 /\ g[k - 1] = 13 /\ g[k] = 10
        /\ \A x \in 1..(k - 2) : ~(g[x] = 13 /\ g[x + 2] = 13)
    BY <1>1, <1>13, Zenon
  <2>2. ~HasAt(data, q, CRLF)
    <3>1. 1 \in 1..k /\ (q + 2 <= n => q + 1 <= n)
      BY <2>1, <1>1, <1>3
    <3> QED BY <3>1, <2>1, <1>5, <1>7, CRLFBytes, Zenon
  <2>3. ASSUME NEW x \in found PROVE l <= x + 4
    <3> DEFINE j == x - q
    <3>1. x \in Nat /\ q <= x /\ x + 4 <= n
      BY <1>9, Zenon
    <3>2. data[x + 1] = 13 /\ data[x + 3] = 13
      BY <1>9, Zenon
    <3>3. j \in Nat /\ q + (j + 1) = x + 1 /\ q + (j + 3) = x + 3 /\ q + (j + 1) <= n /\ q + (j + 3) <= n
          /\ (j + 1) + 2 = j + 3
      BY <3>1, <1>3
    <3> HIDE DEF j
    <3>4. SUFFICES ASSUME ~(l <= x + 4) PROVE FALSE
      OBVIOUS
    <3>5. j + 1 \in 1..(k - 2) /\ j + 1 \in 1..k /\ j + 3 \in 1..k
      BY <3>1, <3>4, <1>1, <1>3 DEF j
    <3>6. g[j + 1] = 13 /\ g[j + 3] = 13
      BY <3>2, <3>3, <3>5, <1>5, Zenon
    <3> QED BY <3>3, <3>5, <3>6, <2>1, Zenon
  <2>4. ~(l <= n) => found = {}
    <3>1. ~(l <= n) => \A x \in Nat : ~(l <= x + 4 /\ x + 4 <= n)
      BY <1>1, <1>3
    <3> HIDE DEF l
    <3> QED BY <3>1, <2>3, <1>9, Zenon
  <2>5. ASSUME l <= n PROVE found # {} /\ Min(found) + 4 = l
    <3> DEFINE x == q + k - 2
    <3>1. /\ x \in Nat /\ q <= x /\ x <= n /\ x + 4 = l
          /\ k - 1 \in 1..k /\ k \in 1..k
          /\ q + (k - 1) = x + 1 /\ q + k = x + 2 /\ q + k + 1 = x + 3 /\ q + k + 2 = x + 4
          /\ x + 1 <= n /\ x + 2 <= n /\ x + 3 <= n /\ x + 4 <= n
      BY <2>1, <2>5, <1>1, <1>3
    <3> HIDE DEF x
    <3>2. data[x + 1] = 13 /\ data[x + 2] = 10
      BY <3>1, <2>1, <1>5, Zenon
    <3>3. data[x + 3] = 13 /\ data[x + 4] = 10
      BY <3>1, <1>6, Zenon
    <3>4. HasAt(data, x, CRLF \o CRLF)
      BY <3>1, <3>2, <3>3, EmptyLineAt, Zenon DEF n
    <3>5. x \in found
      BY <3>1, <3>4, <1>11, Zenon
    <3> DEFINE z == Min(found)
    <3>6. z \in found /\ z <= x
      BY <3>5, <1>10, MinIsLeast, Zenon
    <3>7. l <= z + 4 /\ z \in Nat
      BY <3>6, <2>3, <1>9, Zenon
    <3> HIDE DEF z, l
    <3>8. z + 4 = l
      BY <3>1, <3>6, <3>7
    <3> QED BY <3>5, <3>8, Zenon DEF z
  <2> QED BY <2>2, <2>4, <2>5, Zenon
<1> QED BY <1>12, <1>13, Zenon DEF g, k, n, l, found

-----------------------------------------------------------------------------
(* What is read of a stream.                                               *)

(* A message is its chunks, its trailer lines and an empty line. *)
LEMMA MessageLayout ==
    ASSUME NEW m \in Messages
    PROVE  LET q == ChunksOf(m)
               g == Concat(TrailerParts(m.trailers))
           IN /\ MessageBytes(m) = (q \o g) \o CRLF
              /\ q \in Seq(Byte) /\ g \in Seq(Byte) /\ q \o g \in Seq(Byte) /\ MessageBytes(m) \in Seq(Byte)
              /\ Len(q) \in Nat /\ Len(g) \in Nat
              /\ Len(q \o g) = Len(q) + Len(g)
              /\ Len(MessageBytes(m)) = Len(q) + Len(g) + 2
<1> DEFINE q == ChunksOf(m)
           g == Concat(TrailerParts(m.trailers))
           e == CRLF
           a == q \o g
           b == a \o e
<1>1. q \in Seq(Byte) /\ g \in Seq(Byte)
  BY ChunksOfParts, MessageParts, TrailerBytes, Zenon
<1>2. MessageBytes(m) = b
  BY Zenon DEF MessageBytes, TrailerParts
<1>3. e \in Seq(Byte) /\ Len(e) = 2
  BY DEF CRLF, Byte
<1> HIDE DEF q, g, e
<1>4. a \in Seq(Byte) /\ Len(q) \in Nat /\ Len(g) \in Nat /\ Len(a) = Len(q) + Len(g)
  BY <1>1, Joined
<1> HIDE DEF a
<1>5. b \in Seq(Byte) /\ Len(b) = Len(a) + Len(e)
  BY <1>3, <1>4, Joined
<1> HIDE DEF b
<1>6. Len(b) = Len(q) + Len(g) + 2
  BY <1>3, <1>4, <1>5, Zenon
<1> QED BY <1>1, <1>2, <1>4, <1>5, <1>6, Zenon DEF q, g, e, a, b

(* A decoder that returns a body has not failed. *)
LEMMA DecodedIsNot ==
    ASSUME NEW body, NEW q \in Nat
    PROVE  Decoded(body, q) # NotDecoded /\ Decoded(body, q).consumed = q /\ Decoded(body, q).body = body
<1>1. q # -1
  OBVIOUS
<1>2. Decoded(body, q).consumed = q /\ Decoded(body, q).body = body /\ NotDecoded.consumed = -1
  BY DEF Decoded, NotDecoded
<1> QED BY <1>1, <1>2, Zenon

(* The relay decodes a body when all of it has arrived, and not before. *)
LEMMA MessageDecoded ==
    ASSUME NEW data \in Seq(Byte), NEW m \in Messages, Agrees(data, 0, MessageBytes(m))
    PROVE  /\ try_decode_chunked_message(data) =
                 IF Len(MessageBytes(m)) <= Len(data) THEN Decoded(DataOf(m), Len(MessageBytes(m))) ELSE NotDecoded
           /\ decode_chunked(data) =
                 IF Len(ChunksOf(m)) <= Len(data) THEN Decoded(DataOf(m), Len(ChunksOf(m))) ELSE NotDecoded
<1> DEFINE n == Len(data)
           c == ChunksOf(m)
           s == m.trailers
           g == Concat(TrailerParts(s))
           q == Len(c)
           l == Len(MessageBytes(m))
           X == DataOf(m)
           read == chunks(data)[<<0, <<>>>>]
           found == Places(data, q, CRLF \o CRLF)
           W == try_decode_chunked_message(data)
<1>1. /\ MessageBytes(m) = (c \o g) \o CRLF
      /\ c \in Seq(Byte) /\ g \in Seq(Byte) /\ c \o g \in Seq(Byte)
      /\ q \in Nat /\ Len(g) \in Nat
      /\ Len(c \o g) = q + Len(g)
      /\ l = q + Len(g) + 2
  BY MessageLayout, Zenon
<1>2. s \in Seq(Lines)
  BY MessageParts, Zenon
<1> HIDE DEF c, s, l
<1>3. data \in Seq(Nat) /\ c \in Seq(Nat) /\ g \in Seq(Nat) /\ c \o g \in Seq(Nat)
  BY <1>1, BytesAreNumbers, Zenon
<1> HIDE DEF g, q
<1>4. 0 + q = q /\ 0 + (q + Len(g)) = q + Len(g) /\ 0 \in Nat /\ n \in Nat
  BY <1>1
<1>5. Agrees(data, 0, c \o g) /\ Agrees(data, q + Len(g), CRLF)
  <2>1. Agrees(data, 0, (c \o g) \o CRLF)
    BY <1>1, Zenon
  <2>2. Agrees(data, 0 + Len(c \o g), CRLF) /\ Agrees(data, 0, c \o g)
    BY <2>1, <1>3, <1>4, CRLFBytes, AgreesParts, Zenon
  <2> QED BY <2>2, <1>1, <1>4, Zenon
<1>6. Agrees(data, 0, c) /\ Agrees(data, q, g)
  <2>1. Agrees(data, 0, c) /\ Agrees(data, 0 + Len(c), g)
    BY <1>3, <1>4, <1>5, AgreesParts, Zenon
  <2> QED BY <2>1, <1>4, Zenon DEF q
<1>7. read = IF q <= n THEN Decoded(X, q) ELSE NotDecoded
  BY <1>6, ChunksDecoded, Zenon DEF c, q
<1>8. /\ HasAt(data, q, CRLF) => s = <<>>
      /\ s = <<>> => l = q + 2 /\ (HasAt(data, q, CRLF) <=> l <= n)
      /\ l <= n /\ s # <<>> => found # {} /\ Min(found) + 4 = l
      /\ ~(l <= n) => found = {}
  <2> DEFINE j == q + Len(g) + 2
  <2>1. /\ HasAt(data, q, CRLF) => s = <<>>
        /\ s = <<>> => j = q + 2 /\ (HasAt(data, q, CRLF) <=> j <= n)
        /\ j <= n /\ s # <<>> => found # {} /\ Min(found) + 4 = j
        /\ ~(j <= n) => found = {}
    BY <1>1, <1>2, <1>3, <1>5, <1>6, TrailersEnd, Zenon DEF g
  <2> QED BY <2>1, <1>1, Zenon
<1>9. W = IF read = NotDecoded
            THEN NotDecoded
            ELSE IF HasAt(data, read.consumed, CRLF)
              THEN Decoded(read.body, read.consumed + 2)
              ELSE IF Places(data, read.consumed, CRLF \o CRLF) = {}
                THEN NotDecoded
                ELSE Decoded(read.body, Min(Places(data, read.consumed, CRLF \o CRLF)) + 4)
  BY Zenon DEF try_decode_chunked_message
<1> HIDE DEF read, W
<1>10. CASE ~(q <= n)
  <2>1. ~(l <= n)
    BY <1>1, <1>4, <1>10
  <2>2. W = NotDecoded
    BY <1>7, <1>9, <1>10, Zenon
  <2> QED BY <2>1, <2>2, <1>7, <1>10, Zenon DEF W, read, l, q, c, decode_chunked
<1>11. CASE q <= n
  <2>1. read = Decoded(X, q) /\ read # NotDecoded /\ read.consumed = q /\ read.body = X
    BY <1>1, <1>7, <1>11, DecodedIsNot, Zenon
  <2>2. W = IF HasAt(data, q, CRLF)
              THEN Decoded(X, q + 2)
              ELSE IF found = {} THEN NotDecoded ELSE Decoded(X, Min(found) + 4)
    BY <2>1, <1>9, Zenon
  <2> HIDE DEF found, X
  <2>3. W = IF l <= n THEN Decoded(X, l) ELSE NotDecoded
    <3>1. CASE HasAt(data, q, CRLF)
      BY <3>1, <2>2, <1>8, Zenon
    <3>2. CASE ~HasAt(data, q, CRLF) /\ l <= n
      BY <3>2, <2>2, <1>8, Zenon
    <3>3. CASE ~HasAt(data, q, CRLF) /\ ~(l <= n)
      BY <3>3, <2>2, <1>8, Zenon
    <3> QED BY <3>1, <3>2, <3>3, Zenon
  <2>4. read = IF q <= n THEN Decoded(X, q) ELSE NotDecoded
    BY <2>1, <1>11, Zenon
  <2> QED BY <2>3, <2>4, Zenon DEF W, read, l, q, c, X, decode_chunked
<1> QED BY <1>10, <1>11, Zenon

(* What has arrived of a body agrees with it. *)
LEMMA ArrivedAgrees ==
    ASSUME NEW m \in Messages, NEW n \in 0..(Len(MessageBytes(m)) + Len(LastChunk))
    PROVE  Arrived(m, n) \in Seq(Byte) /\ Len(Arrived(m, n)) = n /\ Agrees(Arrived(m, n), 0, MessageBytes(m))
<1> DEFINE b == MessageBytes(m)
           e == LastChunk
           a == b \o e
           data == SubSeq(a, 1, n)
<1>1. b \in Seq(Byte) /\ e \in Seq(Byte) /\ n \in 0..(Len(b) + Len(e))
  BY MessageLayout, ChunksOfParts, Zenon
<1>2. Arrived(m, n) = data
  BY Zenon DEF Arrived
<1> HIDE DEF b, e
<1>3. /\ a \in Seq(Byte) /\ Len(b) \in Nat /\ Len(e) \in Nat /\ Len(a) = Len(b) + Len(e)
      /\ \A i \in 1..Len(b) : a[i] = b[i]
  BY <1>1, Joined
<1> HIDE DEF a
<1>4. n \in Nat /\ n <= Len(a)
  BY <1>1, <1>3
<1>5. data \in Seq(Byte) /\ Len(data) = n /\ \A i \in 1..n : data[i] = a[i]
  BY <1>3, <1>4
<1> HIDE DEF data
<1>6. \A i \in 1..Len(b) : 0 + i = i /\ (i <= n => i \in 1..n)
  BY <1>3, <1>4
<1>7. Agrees(data, 0, b)
  BY <1>3, <1>5, <1>6, Zenon DEF Agrees
<1> QED BY <1>2, <1>5, <1>7, Zenon DEF b

(* Any part of any hello, and any number of bytes behind it. *)
HelloInputs == {HelloInput(h, n) : h \in Hellos, n \in Nat}

(* Any part of any chunked body, and of the next one behind it. *)
ChunksInputs ==
    UNION {{ChunksInput(m, n) : n \in 0..(Len(MessageBytes(m)) + Len(LastChunk))} : m \in Messages}

(* What parse_sni and the two decoders of chunked bodies return does not   *)
(* depend on how far a stream has arrived. Of every ClientHello, with a    *)
(* session, ciphers, extensions and names of any number and length,        *)
(* parse_sni finds no name while a byte of it is missing and then the name *)
(* it asks for, whatever follows. Of every chunked body, with chunks and   *)
(* trailers of any number and length and any data,                         *)
(* try_decode_chunked_message returns nothing while a byte is missing and  *)
(* then the data and where the body ends; decode_chunked needs only the    *)
(* bytes up to the last chunk's line.                                      *)
THEOREM StreamsRead ==
    ASSUME input \in HelloInputs \cup ChunksInputs
    PROVE  PrefixRead
<1>1. "hello" # "chunks"
  OBVIOUS
<1>2. CASE input \in HelloInputs
  <2>1. PICK h \in Hellos, n \in Nat : input = HelloInput(h, n)
    BY <1>2 DEF HelloInputs
  <2>2. input.kind = "hello" /\ input.hello = h /\ input.arrived = n
    BY <2>1 DEF HelloInput
  <2>3. SniRead
    BY <2>2, HelloRead, Zenon DEF SniRead
  <2>4. ChunksRead
    BY <1>1, <2>2, Zenon DEF ChunksRead
  <2> QED BY <2>3, <2>4, Zenon DEF PrefixRead
<1>3. CASE input \in ChunksInputs
  <2>1. PICK m \in Messages : \E n \in 0..(Len(MessageBytes(m)) + Len(LastChunk)) : input = ChunksInput(m, n)
    BY <1>3, Zenon DEF ChunksInputs
  <2>10. PICK n \in 0..(Len(MessageBytes(m)) + Len(LastChunk)) : input = ChunksInput(m, n)
    BY <2>1, Zenon
  <2>2. input.kind = "chunks" /\ input.message = m /\ input.arrived = n
    BY <2>10 DEF ChunksInput
  <2> DEFINE d == Arrived(m, n)
             l == Len(MessageBytes(m))
             q == Len(ChunksOf(m))
  <2>3. d \in Seq(Byte) /\ Len(d) = n /\ Agrees(d, 0, MessageBytes(m))
    BY ArrivedAgrees, Zenon
  <2>4. /\ try_decode_chunked_message(d) = IF l <= n THEN Decoded(DataOf(m), l) ELSE NotDecoded
        /\ decode_chunked(d) = IF q <= n THEN Decoded(DataOf(m), q) ELSE NotDecoded
    BY <2>3, MessageDecoded, Zenon
  <2>5. l \in Nat /\ q \in Nat /\ n \in Nat
    <3>1. q \in Nat
      BY MessageLayout, Zenon
    <3>2. MessageBytes(m) \in Seq(Byte) /\ LastChunk \in Seq(Byte)
      BY MessageLayout, ChunksOfParts, Zenon
    <3>3. l \in Nat /\ Len(LastChunk) \in Nat
      BY <3>2
    <3> QED BY <3>1, <3>3
  <2> HIDE DEF l, q
  <2>6. (n < l <=> ~(l <= n)) /\ (n < q <=> ~(q <= n))
    BY <2>5
  <2>7. /\ try_decode_chunked_message(d) = IF n < l THEN NotDecoded ELSE Decoded(DataOf(m), l)
        /\ decode_chunked(d) = IF n < q THEN NotDecoded ELSE Decoded(DataOf(m), q)
    BY <2>4, <2>6, Zenon
  <2>8. ChunksRead
    BY <2>2, <2>7, Zenon DEF ChunksRead, l, q
  <2>9. SniRead
    BY <1>1, <2>2, Zenon DEF SniRead
  <2> QED BY <2>8, <2>9, Zenon DEF PrefixRead
<1> QED BY <1>2, <1>3, Zenon
=============================================================================
