------------------------------ MODULE SniProofs ------------------------------
(***************************************************************************)
(* What parse_sni returns, for a ClientHello of any length of which any    *)
(* part has arrived. Every loop of the parsers is a recursive function.    *)
(* That the function exists is proved once, for every loop that a measure  *)
(* of its state brings to an end (LoopHasResult); what the loop returns is *)
(* then followed from item to item of its input, whose places in the bytes *)
(* are those of the parts of a concatenation (ConcatLayout).               *)
(***************************************************************************)
EXTENDS StreamParsers, NaturalsInduction, WellFoundedInduction, TLAPS

-----------------------------------------------------------------------------
(* Numbers, loops and the parts of a concatenation.                        *)

(* A set of numbers has a least one. *)
LEMMA LeastNumber ==
    ASSUME NEW T \in SUBSET Nat, T # {}
    PROVE  \E n \in T : \A m \in T : n <= m
<1> DEFINE Less == {ss \in Nat \X Nat : ss[1] < ss[2]}
<1>1. IsWellFoundedOn(Less, Nat)
  BY NatLessThanWellFounded, Zenon DEF OpToRel
<1> HIDE DEF Less
<1>2. PICK n \in T : \A m \in T : ~ (<<m, n>> \in Less)
  BY <1>1, WFMin, Zenon
<1>3. ASSUME NEW m \in T PROVE ~(m < n)
  <2>1. m \in Nat /\ n \in Nat
    BY Zenon
  <2>2. m < n => <<m, n>> \in Less
    BY <2>1, Zenon DEF Less
  <2> QED BY <1>2, <2>2, Zenon
<1> QED BY <1>3

(* What holds at 0 and from each number to the next holds of all numbers.  *)
LEMMA Steps ==
    ASSUME NEW P, 0 \in P, \A n \in Nat : n \in P => n + 1 \in P
    PROVE  \A n \in Nat : n \in P
<1> SUFFICES ASSUME NEW k \in Nat, k \notin P PROVE FALSE
  BY Zenon
<1> DEFINE T == {n \in Nat : n \notin P}
<1>1. PICK n \in T : \A m \in T : n <= m
  <2>1. T \in SUBSET Nat /\ T # {}
    BY Zenon
  <2> QED BY <2>1, LeastNumber, Zenon
<1>2. n # 0 /\ n - 1 \in Nat /\ n - 1 + 1 = n
  BY <1>1
<1>3. n - 1 \notin T
  BY <1>1, <1>2
<1> QED BY <1>1, <1>2, <1>3

(* f is what a loop returns from each of its states. *)
ReturnsOf(f, D, stop, val, next) == f = [d \in D |-> IF d \in stop THEN val[d] ELSE f[next[d]]]

(* A loop that a measure of its state brings to an end has a result: the   *)
(* recursive function that it stands for exists.                           *)
LEMMA LoopHasResult ==
    ASSUME NEW D, NEW L \in Nat, NEW m \in [D -> 0..L], NEW stop, NEW val, NEW next,
           \A d \in D : d \notin stop => next[d] \in D /\ m[next[d]] > m[d]
    PROVE  \E f : ReturnsOf(f, D, stop, val, next)
<1> DEFINE E(k) == {d \in D : m[d] + k > L}
           Ok(k) == \E f : f = [d \in E(k) |-> IF d \in stop THEN val[d] ELSE f[next[d]]]
           P == {k \in Nat : Ok(k)}
<1>1. 0 \in P
  <2>1. E(0) = {}
    BY SMT
  <2> DEFINE f == [d \in E(0) |-> val[d]]
  <2>2. f = [d \in E(0) |-> IF d \in stop THEN val[d] ELSE f[next[d]]]
    BY <2>1, Zenon
  <2> QED BY <2>2, Zenon
<1>2. ASSUME NEW k \in Nat, k \in P PROVE k + 1 \in P
  <2>1. PICK f : f = [d \in E(k) |-> IF d \in stop THEN val[d] ELSE f[next[d]]]
    BY <1>2, Zenon
  <2> DEFINE g == [d \in E(k + 1) |-> IF d \in stop THEN val[d] ELSE f[next[d]]]
  <2>2. ASSUME NEW d \in E(k + 1), d \notin stop PROVE next[d] \in E(k) /\ next[d] \in E(k + 1)
    <3>1. d \in D /\ m[d] + (k + 1) > L /\ next[d] \in D /\ m[next[d]] > m[d]
      BY <2>2, Zenon
    <3>2. m[d] \in Nat /\ m[next[d]] \in Nat
      BY <3>1
    <3>3. m[next[d]] + k > L /\ m[next[d]] + (k + 1) > L
      BY <3>1, <3>2
    <3> QED BY <3>1, <3>3, Zenon
  <2>3. ASSUME NEW d \in E(k), d \in E(k + 1) PROVE f[d] = g[d]
    <3> HIDE DEF E
    <3>1. f[d] = IF d \in stop THEN val[d] ELSE f[next[d]]
      BY <2>1, <2>3, Zenon
    <3> QED BY <3>1, <2>3, Zenon
  <2>4. g = [d \in E(k + 1) |-> IF d \in stop THEN val[d] ELSE g[next[d]]]
    <3> DEFINE A(d) == IF d \in stop THEN val[d] ELSE f[next[d]]
               B(d) == IF d \in stop THEN val[d] ELSE g[next[d]]
    <3> HIDE DEF E
    <3>1. ASSUME NEW d \in E(k + 1) PROVE A(d) = B(d)
      <4> HIDE DEF g
      <4> QED BY <2>2, <2>3, Zenon
    <3>2. [d \in E(k + 1) |-> A(d)] = [d \in E(k + 1) |-> B(d)]
      <4> HIDE DEF A, B
      <4> QED BY <3>1, Zenon
    <3> QED BY <3>2, Zenon
  <2>5. Ok(k + 1)
    <3> HIDE DEF E, g
    <3> QED BY <2>4, Zenon
  <2> HIDE DEF Ok
  <2> QED BY <2>5
<1>3. Ok(L + 1)
  <2> HIDE DEF Ok
  <2>1. \A k \in Nat : k \in P
    <3> HIDE DEF P
    <3> QED BY <1>1, <1>2, Steps, Zenon
  <2> QED BY <2>1
<1>4. E(L + 1) = D
  BY SMT
<1> QED
  <2> HIDE DEF E
  <2> QED BY <1>3, <1>4, Zenon DEF ReturnsOf

(* The parts of a concatenation, one more at a time. *)
LEMMA ConcatHasResult ==
    ASSUME NEW s, NEW n \in Nat
    PROVE  \E g : g = [i \in 0..n |-> IF i = 0 THEN <<>> ELSE g[i - 1] \o s[i]]
<1> DEFINE Ok(k) == \E g : g = [i \in 0..k |-> IF i = 0 THEN <<>> ELSE g[i - 1] \o s[i]]
           P == {k \in Nat : Ok(k)}
<1>1. 0 \in P
  <2>1. \A i \in 0..0 : i = 0
    OBVIOUS
  <2> DEFINE g == [i \in 0..0 |-> <<>>]
  <2>2. g = [i \in 0..0 |-> IF i = 0 THEN <<>> ELSE g[i - 1] \o s[i]]
    BY <2>1, Zenon
  <2> HIDE DEF g
  <2>3. Ok(0)
    BY <2>2, Zenon
  <2> HIDE DEF Ok
  <2> QED BY <2>3
<1>2. ASSUME NEW k \in Nat, k \in P PROVE k + 1 \in P
  <2>1. PICK f : f = [i \in 0..k |-> IF i = 0 THEN <<>> ELSE f[i - 1] \o s[i]]
    BY <1>2, Zenon
  <2> DEFINE g == [i \in 0..(k + 1) |-> IF i = 0 THEN <<>> ELSE f[i - 1] \o s[i]]
  <2>2. ASSUME NEW i \in 0..(k + 1), i # 0 PROVE i - 1 \in 0..k /\ i - 1 \in 0..(k + 1)
    BY <2>2
  <2>3. ASSUME NEW i \in 0..k, i \in 0..(k + 1) PROVE f[i] = g[i]
    <3>1. f[i] = IF i = 0 THEN <<>> ELSE f[i - 1] \o s[i]
      BY <2>1, <2>3, Zenon
    <3> QED BY <3>1, <2>3, Zenon
  <2>4. g = [i \in 0..(k + 1) |-> IF i = 0 THEN <<>> ELSE g[i - 1] \o s[i]]
    <3> DEFINE A(i) == IF i = 0 THEN <<>> ELSE f[i - 1] \o s[i]
               B(i) == IF i = 0 THEN <<>> ELSE g[i - 1] \o s[i]
    <3>1. ASSUME NEW i \in 0..(k + 1) PROVE A(i) = B(i)
      <4> HIDE DEF g
      <4> QED BY <2>2, <2>3, Zenon
    <3>2. [i \in 0..(k + 1) |-> A(i)] = [i \in 0..(k + 1) |-> B(i)]
      <4> HIDE DEF A, B
      <4> QED BY <3>1, Zenon
    <3> QED BY <3>2, Zenon
  <2>5. Ok(k + 1)
    <3> HIDE DEF g
    <3> QED BY <2>4, Zenon
  <2> HIDE DEF Ok
  <2> QED BY <2>5
<1> HIDE DEF Ok
<1>3. \A k \in Nat : k \in P
  <2> HIDE DEF P
  <2> QED BY <1>1, <1>2, Steps, Zenon
<1>4. Ok(n)
  BY <1>3, Zenon
<1> QED BY <1>4, Zenon DEF Ok

(* The offsets of the parts of a sequence in their concatenation b. *)
Layout(s, b, o) ==
    /\ o \in [0..Len(s) -> Nat]
    /\ o[0] = 0
    /\ o[Len(s)] = Len(b)
    /\ \A i \in 1..Len(s) :
          /\ o[i] = o[i - 1] + Len(s[i])
          /\ o[i] <= Len(b)
          /\ \A j \in 1..Len(s[i]) : b[o[i - 1] + j] = s[i][j]

(* Concat has every part where the lengths of the parts before it end. *)
LEMMA ConcatLayout ==
    ASSUME NEW S, NEW s \in Seq(Seq(S))
    PROVE  Concat(s) \in Seq(S) /\ \E o : Layout(s, Concat(s), o)
<1> DEFINE n == Len(s)
           g == CHOOSE f : f = [i \in 0..n |-> IF i = 0 THEN <<>> ELSE f[i - 1] \o s[i]]
<1>1. n \in Nat
  OBVIOUS
<1>2. Concat(s) = g[n]
  BY Zenon DEF Concat
<1>3. g = [i \in 0..n |-> IF i = 0 THEN <<>> ELSE g[i - 1] \o s[i]]
  <2> HIDE DEF n
  <2> QED BY <1>1, ConcatHasResult, Zenon
<1> DEFINE o == [i \in 0..n |-> Len(g[i])]
           Part(k, i) == /\ o[i] \in Nat
                         /\ o[i] = o[i - 1] + Len(s[i])
                         /\ o[i] <= Len(g[k])
                         /\ \A j \in 1..Len(s[i]) : g[k][o[i - 1] + j] = s[i][j]
           Good(k) == g[k] \in Seq(S) /\ \A i \in 1..k : Part(k, i)
           P == {k \in Nat : k <= n => Good(k)}
<1> HIDE DEF g
<1>4. g[0] = <<>> /\ \A k \in 1..n : g[k] = g[k - 1] \o s[k]
  <2>1. ASSUME NEW i \in 0..n PROVE g[i] = IF i = 0 THEN <<>> ELSE g[i - 1] \o s[i]
    BY <1>3, Zenon
  <2>2. 0 \in 0..n /\ \A k \in 1..n : k \in 0..n /\ k # 0
    BY <1>1
  <2> QED BY <2>1, <2>2, Zenon
<1>5. \A i \in 0..n : o[i] = Len(g[i])
  BY Zenon
<1>6. \A i \in 1..n : s[i] \in Seq(S)
  OBVIOUS
<1>7. o[0] = 0
  <2>1. 0 \in 0..n /\ Len(<<>>) = 0
    BY <1>1
  <2> QED BY <2>1, <1>4, Zenon
<1> HIDE DEF o
<1>8. 0 \in P
  <2>1. g[0] \in Seq(S)
    BY <1>4
  <2>2. \A i \in 1..0 : Part(0, i)
    <3> HIDE DEF Part
    <3> QED OBVIOUS
  <2>3. Good(0)
    <3> HIDE DEF Part
    <3> QED BY <2>1, <2>2, Zenon
  <2> HIDE DEF Good
  <2> QED BY <2>3
<1>9. ASSUME NEW k \in Nat, k \in P PROVE k + 1 \in P
  <2> SUFFICES ASSUME k + 1 <= n PROVE Good(k + 1)
    <3> HIDE DEF Good
    <3> QED OBVIOUS
  <2>1. Good(k)
    <3>1. k <= n
      BY <1>1
    <3> HIDE DEF Good
    <3> QED BY <1>9, <3>1, Zenon
  <2>2. k + 1 \in 1..n /\ k + 1 \in 0..n /\ k \in 0..n /\ (k + 1) - 1 = k
    BY <1>1
  <2> DEFINE a == g[k]
             b == s[k + 1]
  <2>3. g[k + 1] = a \o b /\ a \in Seq(S) /\ b \in Seq(S)
    <3>1. g[k + 1] = g[(k + 1) - 1] \o b
      BY <1>4, <2>2, Zenon
    <3> QED BY <3>1, <2>1, <2>2, <1>6, Zenon
  <2>4. o[k] = Len(a) /\ o[k + 1] = Len(g[k + 1])
    BY <1>5, <2>2, Zenon
  <2> HIDE DEF a, b
  <2>5. /\ g[k + 1] \in Seq(S) /\ Len(g[k + 1]) = Len(a) + Len(b)
        /\ Len(a) \in Nat /\ Len(b) \in Nat
        /\ \A x \in 1..Len(a) : g[k + 1][x] = a[x]
        /\ \A x \in 1..Len(b) : g[k + 1][Len(a) + x] = b[x]
    BY <2>3
  <2>6. Part(k + 1, k + 1)
    <3>1. o[(k + 1) - 1] = Len(a) /\ s[k + 1] = b
      BY <2>2, <2>4, Zenon DEF b
    <3> QED BY <2>4, <2>5, <3>1
  <2>7. ASSUME NEW i \in 1..k PROVE Part(k + 1, i)
    <3>1. /\ o[i] \in Nat /\ o[i] = o[i - 1] + Len(s[i]) /\ o[i] <= Len(a)
          /\ \A j \in 1..Len(s[i]) : a[o[i - 1] + j] = s[i][j]
      BY <2>1, Zenon DEF a
    <3>2. o[i - 1] \in Nat /\ Len(s[i]) \in Nat
      <4>1. i \in 1..n /\ (i - 1 = 0 \/ i - 1 \in 1..k)
        BY <1>1
      <4>2. i - 1 \in 1..k => o[i - 1] \in Nat
        BY <2>1, Zenon
      <4>3. o[0] \in Nat
        BY <1>7
      <4>4. Len(s[i]) \in Nat
        BY <4>1, <1>6
      <4> QED BY <4>1, <4>2, <4>3, <4>4, Zenon
    <3>3. ASSUME NEW j \in 1..Len(s[i]) PROVE o[i - 1] + j \in 1..Len(a)
      <4>1. j \in Nat /\ 1 <= j /\ j <= Len(s[i]) /\ Len(a) \in Nat
        BY <3>2, <2>5
      <4>2. o[i - 1] + Len(s[i]) <= Len(a)
        BY <3>1, Zenon
      <4>3. \A p, q, r, t \in Nat : 1 <= t /\ t <= q /\ p + q <= r => p + t \in 1..r
        OBVIOUS
      <4> QED BY <3>2, <4>1, <4>2, <4>3, Zenon
    <3>4. ASSUME NEW j \in 1..Len(s[i]) PROVE g[k + 1][o[i - 1] + j] = s[i][j]
      BY <3>1, <3>3, <2>5, Zenon
    <3>5. o[i] <= Len(g[k + 1])
      BY <3>1, <2>5
    <3> QED BY <3>1, <3>4, <3>5, Zenon
  <2> HIDE DEF Part
  <2>8. \A i \in 1..(k + 1) : i = k + 1 \/ i \in 1..k
    OBVIOUS
  <2> QED BY <2>5, <2>6, <2>7, <2>8, Zenon
<1>10. Good(n)
  <2>1. \A k \in Nat : k \in P
    <3> HIDE DEF P
    <3> QED BY <1>8, <1>9, Steps, Zenon
  <2>2. n <= n
    BY <1>1
  <2> HIDE DEF Good
  <2> QED BY <2>1, <2>2, <1>1, Zenon
<1>11. o \in [0..n -> Nat]
  <2>1. \A i \in 0..n : i = 0 \/ i \in 1..n
    BY <1>1
  <2>2. \A i \in 0..n : o[i] \in Nat
    <3>1. 0 \in Nat
      OBVIOUS
    <3> QED BY <2>1, <3>1, <1>7, <1>10, Zenon
  <2> QED BY <2>2, Zenon DEF o
<1>12. Layout(s, g[n], o)
  <2>1. o[n] = Len(g[n])
    BY <1>1, <1>5
  <2> QED BY <1>7, <1>10, <1>11, <2>1, Zenon DEF Layout
<1> QED BY <1>2, <1>10, <1>12, Zenon

(* The loop over the names: what it returns from each place of the list.   *)
LEMMA HostNameLoop ==
    ASSUME NEW list \in Seq(Nat), NEW pos \in 0..Len(list)
    PROVE  first_host_name(list)[pos] =
             LET len == read_u16(list, pos + 1) IN
             IF ~Has(list, pos, 3) \/ ~Has(list, pos + 3, len)
               THEN NoName
               ELSE IF read_u8(list, pos) = 0
                 THEN from_utf8(read_slice(list, pos + 3, len))
                 ELSE first_host_name(list)[pos + 3 + len]
<1> DEFINE D == 0..Len(list)
           len(p) == read_u16(list, p + 1)
           Short(p) == ~Has(list, p, 3) \/ ~Has(list, p + 3, len(p))
           Host(p) == read_u8(list, p) = 0
           Name(p) == from_utf8(read_slice(list, p + 3, len(p)))
           Goes(f, p) == IF Short(p) THEN NoName ELSE IF Host(p) THEN Name(p) ELSE f[p + 3 + len(p)]
           stop == {p \in D : Short(p) \/ Host(p)}
           val == [p \in D |-> IF Short(p) THEN NoName ELSE Name(p)]
           next == [p \in D |-> p + 3 + len(p)]
           m == [p \in D |-> p]
<1>1. first_host_name(list) = CHOOSE f : f = [p \in D |-> Goes(f, p)]
  BY Zenon DEF first_host_name
<1>2. ASSUME NEW p \in D, ~Short(p) PROVE next[p] \in D /\ next[p] > p
  <2>1. len(p) \in Nat
    BY <1>2 DEF read_u16, Has
  <2> QED BY <1>2, <2>1 DEF Has
<1>3. m \in [D -> 0..Len(list)] /\ Len(list) \in Nat /\ \A p \in D : m[p] = p
  OBVIOUS
<1> HIDE DEF D, Short, Host, Name, m
<1>4. \E f : f = [p \in D |-> Goes(f, p)]
  <2>1. \A p \in D : p \notin stop => next[p] \in D /\ m[next[p]] > m[p]
    <3> HIDE DEF next
    <3> QED BY <1>2, <1>3, Zenon
  <2> HIDE DEF next, stop, val
  <2>2. PICK f : ReturnsOf(f, D, stop, val, next)
    BY <1>3, <2>1, LoopHasResult, Zenon
  <2>3. ASSUME NEW p \in D PROVE (IF p \in stop THEN val[p] ELSE f[next[p]]) = Goes(f, p)
    BY Zenon DEF stop, val, next
  <2>4. [p \in D |-> IF p \in stop THEN val[p] ELSE f[next[p]]] = [p \in D |-> Goes(f, p)]
    <3> HIDE DEF Goes
    <3> QED BY <2>3, Zenon
  <2> QED BY <2>2, <2>4, Zenon DEF ReturnsOf
<1>5. first_host_name(list) = [p \in D |-> Goes(first_host_name(list), p)]
  BY <1>1, <1>4, Zenon
<1>6. pos \in D
  BY DEF D
<1>7. first_host_name(list)[pos] = Goes(first_host_name(list), pos)
  <2> HIDE DEF Goes
  <2> QED BY <1>5, <1>6, Zenon
<1> QED BY <1>7, Zenon DEF Short, Host, Name

(* The least member is what Min picks. *)
LEMMA MinIsLeast ==
    ASSUME NEW T \in SUBSET Nat, T # {}
    PROVE  Min(T) \in T /\ \A m \in T : Min(T) <= m
BY LeastNumber, Zenon DEF Min

(* r[i] is what a search returns behind the first i of n items. *)
Searches(n, r, hit, v) == \A i \in 1..n : r[i - 1] = IF i \in hit THEN v[i] ELSE r[i]

(* A search that goes on from item to item until it meets a hit returns    *)
(* what it makes of the first one.                                         *)
LEMMA SearchReturnsFirst ==
    ASSUME NEW n \in Nat, NEW r, NEW hit \in SUBSET (1..n), NEW v, Searches(n, r, hit, v)
    PROVE  r[0] = IF hit = {} THEN r[n] ELSE v[Min(hit)]
<1> DEFINE P == {k \in Nat : k <= n /\ (\A i \in hit : k < i) => r[k] = r[0]}
<1>1. 0 \in P
  OBVIOUS
<1>2. ASSUME NEW k \in Nat, k \in P PROVE k + 1 \in P
  <2> SUFFICES ASSUME k + 1 <= n, \A i \in hit : k + 1 < i PROVE r[k + 1] = r[0]
    OBVIOUS
  <2>1. k + 1 \in 1..n /\ (k + 1) - 1 = k /\ k <= n
    OBVIOUS
  <2>2. k + 1 \notin hit
    OBVIOUS
  <2>3. \A i \in hit : k < i
    <3>1. \A i \in hit : i \in Nat
      OBVIOUS
    <3> QED BY <3>1
  <2>4. r[k] = r[0]
    BY <1>2, <2>1, <2>3, Zenon
  <2> QED BY <2>1, <2>2, <2>4, Zenon DEF Searches
<1>3. \A k \in Nat : k \in P
  <2> HIDE DEF P
  <2> QED BY <1>1, <1>2, Steps, Zenon
<1>4. CASE hit = {}
  BY <1>3, <1>4
<1>5. CASE hit # {}
  <2> DEFINE k == Min(hit)
  <2>1. hit \in SUBSET Nat
    OBVIOUS
  <2>2. k \in hit /\ \A i \in hit : k <= i
    BY <1>5, <2>1, MinIsLeast, Zenon
  <2> HIDE DEF k
  <2>3. k - 1 \in Nat /\ k \in 1..n /\ k - 1 <= n
    BY <2>2
  <2>4. \A i \in hit : k - 1 < i
    BY <2>1, <2>2, <2>3
  <2>5. r[k - 1] = r[0]
    BY <1>3, <2>3, <2>4, Zenon
  <2>6. r[k - 1] = v[k]
    BY <2>2, <2>3, Zenon DEF Searches
  <2> QED BY <1>5, <2>5, <2>6, Zenon DEF k
<1> QED BY <1>4, <1>5, Zenon

(* The parts of s \o t. *)
LEMMA Joined ==
    ASSUME NEW S, NEW s \in Seq(S), NEW t \in Seq(S)
    PROVE  /\ s \o t \in Seq(S)
           /\ Len(s) \in Nat /\ Len(t) \in Nat
           /\ Len(s \o t) = Len(s) + Len(t)
           /\ \A i \in 1..Len(s) : (s \o t)[i] = s[i]
           /\ \A i \in 1..Len(t) : (s \o t)[Len(s) + i] = t[i]
OBVIOUS

(* A number of two bytes is read back. *)
LEMMA Read16 ==
    ASSUME NEW n \in Nat
    PROVE  Number16(n) \in Seq(Nat) /\ Len(Number16(n)) = 2 /\ read_u16(Number16(n), 0) = n
<1> DEFINE q == n \div 256
           r == n % 256
<1>1. q \in Nat
  OBVIOUS
<1>2. r \in Nat
  OBVIOUS
<1>3. \A x, y \in Nat : x = q /\ y = r => 256 * x + y = n
  OBVIOUS
<1> HIDE DEF q, r
<1>4. 256 * q + r = n
  BY <1>1, <1>2, <1>3, Zenon
<1>5. <<q, r>> \in Seq(Nat) /\ Len(<<q, r>>) = 2
  BY <1>1, <1>2
<1>6. <<q, r>>[1] = q /\ <<q, r>>[2] = r /\ 0 + 1 = 1 /\ 0 + 2 = 2
  BY <1>1, <1>2
<1>7. Number16(n) = <<q, r>>
  BY Zenon DEF Number16, q, r
<1>8. read_u16(<<q, r>>, 0) = n
  BY <1>4, <1>6, Zenon DEF read_u16
<1> QED BY <1>5, <1>7, <1>8, Zenon

(* The length and the content of a vector with a length of two bytes.      *)
LEMMA Vector16Layout ==
    ASSUME NEW s \in Seq(Nat)
    PROVE  /\ Vector16(s) \in Seq(Nat)
           /\ Len(s) \in Nat
           /\ Len(Vector16(s)) = 2 + Len(s)
           /\ read_u16(Vector16(s), 0) = Len(s)
           /\ \A i \in 1..Len(s) : Vector16(s)[2 + i] = s[i]
<1> DEFINE c == Number16(Len(s))
           v == c \o s
<1>1. Len(s) \in Nat
  OBVIOUS
<1>2. c \in Seq(Nat) /\ Len(c) = 2 /\ read_u16(c, 0) = Len(s)
  BY <1>1, Read16, Zenon
<1> HIDE DEF c
<1>3. Vector16(s) = v
  BY Zenon DEF Vector16, c
<1>4. /\ v \in Seq(Nat) /\ Len(v) = Len(c) + Len(s)
      /\ \A i \in 1..Len(c) : v[i] = c[i]
      /\ \A i \in 1..Len(s) : v[Len(c) + i] = s[i]
  <2>1. c \in Seq(Nat)
    BY <1>2, Zenon
  <2> QED BY <2>1, Joined
<1> HIDE DEF v
<1>5. 0 + 1 \in 1..2 /\ 0 + 2 \in 1..2
  OBVIOUS
<1>6. read_u16(v, 0) = Len(s)
  <2>1. v[0 + 1] = c[0 + 1] /\ v[0 + 2] = c[0 + 2]
    BY <1>2, <1>4, <1>5, Zenon
  <2>2. read_u16(v, 0) = read_u16(c, 0)
    BY <2>1 DEF read_u16
  <2> QED BY <1>2, <2>2, Zenon
<1>7. Len(v) = 2 + Len(s) /\ \A i \in 1..Len(s) : v[2 + i] = s[i]
  BY <1>2, <1>4, Zenon
<1> QED BY <1>1, <1>3, <1>4, <1>6, <1>7, Zenon

(* The bytes of a name. *)
LEMMA NameLayout ==
    ASSUME NEW n, n.type \in Nat, n.name \in Seq(Nat)
    PROVE  /\ NameBytes(n) \in Seq(Nat)
           /\ Len(n.name) \in Nat
           /\ Len(NameBytes(n)) = 3 + Len(n.name)
           /\ NameBytes(n)[1] = n.type
           /\ read_u16(NameBytes(n), 1) = Len(n.name)
           /\ \A i \in 1..Len(n.name) : NameBytes(n)[3 + i] = n.name[i]
<1> DEFINE c == <<n.type>>
           w == Vector16(n.name)
           v == c \o w
           l == Len(n.name)
<1>1. c \in Seq(Nat)
  OBVIOUS
<1>2. Len(c) = 1 /\ c[1] = n.type
  OBVIOUS
<1>3. /\ w \in Seq(Nat) /\ l \in Nat /\ Len(w) = 2 + l /\ read_u16(w, 0) = l
      /\ \A i \in 1..l : w[2 + i] = n.name[i]
  BY Vector16Layout, Zenon
<1>4. NameBytes(n) = v
  BY Zenon DEF NameBytes
<1> HIDE DEF c, w
<1>5. /\ v \in Seq(Nat) /\ Len(v) = Len(c) + Len(w)
      /\ \A i \in 1..Len(c) : v[i] = c[i]
      /\ \A i \in 1..Len(w) : v[Len(c) + i] = w[i]
  <2>1. w \in Seq(Nat)
    BY <1>3, Zenon
  <2> QED BY <1>1, <2>1, Joined
<1> HIDE DEF v, l
<1>6. 1 \in 1..1 /\ 0 + 1 \in 1..(2 + l) /\ 0 + 2 \in 1..(2 + l) /\ 1 + (0 + 1) = 1 + 1 /\ 1 + (0 + 2) = 1 + 2
  BY <1>3
<1>7. read_u16(v, 1) = l
  <2>1. v[1 + (0 + 1)] = w[0 + 1] /\ v[1 + (0 + 2)] = w[0 + 2]
    BY <1>2, <1>3, <1>5, <1>6, Zenon
  <2>2. v[1 + 1] = w[0 + 1] /\ v[1 + 2] = w[0 + 2]
    BY <2>1, <1>6, Zenon
  <2>3. read_u16(v, 1) = read_u16(w, 0)
    BY <2>2 DEF read_u16
  <2> QED BY <1>3, <2>3, Zenon
<1>8. Len(v) = 3 + l /\ v[1] = n.type
  <2>1. Len(v) = 1 + (2 + l) /\ v[1] = n.type
    BY <1>2, <1>3, <1>5, <1>6, Zenon
  <2>2. 1 + (2 + l) = 3 + l
    BY <1>3
  <2> QED BY <2>1, <2>2, Zenon
<1>9. ASSUME NEW i \in 1..l PROVE v[3 + i] = n.name[i]
  <2>1. 2 + i \in 1..(2 + l) /\ 1 + (2 + i) = 3 + i
    BY <1>3
  <2>2. v[1 + (2 + i)] = w[2 + i]
    BY <1>2, <1>3, <1>5, <2>1, Zenon
  <2> QED BY <2>1, <2>2, <1>3, Zenon
<1> QED BY <1>3, <1>4, <1>5, <1>7, <1>8, <1>9, Zenon DEF l

(* The bytes of an extension. *)
LEMMA TypedLayout ==
    ASSUME NEW t \in Nat, NEW s \in Seq(Nat)
    PROVE  /\ Typed16(t, s) \in Seq(Nat)
           /\ Len(s) \in Nat
           /\ Len(Typed16(t, s)) = 4 + Len(s)
           /\ read_u16(Typed16(t, s), 0) = t
           /\ read_u16(Typed16(t, s), 2) = Len(s)
           /\ \A i \in 1..Len(s) : Typed16(t, s)[4 + i] = s[i]
<1> DEFINE c == Number16(t)
           w == Vector16(s)
           v == c \o w
           l == Len(s)
<1>1. c \in Seq(Nat) /\ Len(c) = 2 /\ read_u16(c, 0) = t
  BY Read16, Zenon
<1>2. /\ w \in Seq(Nat) /\ l \in Nat /\ Len(w) = 2 + l /\ read_u16(w, 0) = l
      /\ \A i \in 1..l : w[2 + i] = s[i]
  BY Vector16Layout, Zenon
<1>3. Typed16(t, s) = v
  BY Zenon DEF Typed16
<1> HIDE DEF c, w
<1>4. /\ v \in Seq(Nat) /\ Len(v) = Len(c) + Len(w)
      /\ \A i \in 1..Len(c) : v[i] = c[i]
      /\ \A i \in 1..Len(w) : v[Len(c) + i] = w[i]
  <2>1. w \in Seq(Nat) /\ c \in Seq(Nat)
    BY <1>1, <1>2, Zenon
  <2> QED BY <2>1, Joined
<1> HIDE DEF v, l
<1>5. /\ 0 + 1 \in 1..2 /\ 0 + 2 \in 1..2 /\ 0 + 1 \in 1..(2 + l) /\ 0 + 2 \in 1..(2 + l)
      /\ 2 + (0 + 1) = 2 + 1 /\ 2 + (0 + 2) = 2 + 2
  BY <1>2
<1>6. read_u16(v, 0) = t
  <2>1. v[0 + 1] = c[0 + 1] /\ v[0 + 2] = c[0 + 2]
    BY <1>1, <1>4, <1>5, Zenon
  <2>2. read_u16(v, 0) = read_u16(c, 0)
    BY <2>1 DEF read_u16
  <2> QED BY <1>1, <2>2, Zenon
<1>7. read_u16(v, 2) = l
  <2>1. v[2 + (0 + 1)] = w[0 + 1] /\ v[2 + (0 + 2)] = w[0 + 2]
    BY <1>1, <1>2, <1>4, <1>5, Zenon
  <2>2. v[2 + 1] = w[0 + 1] /\ v[2 + 2] = w[0 + 2]
    BY <2>1, <1>5, Zenon
  <2>3. read_u16(v, 2) = read_u16(w, 0)
    BY <2>2 DEF read_u16
  <2> QED BY <1>2, <2>3, Zenon
<1>8. Len(v) = 4 + l
  <2>1. Len(v) = 2 + (2 + l)
    BY <1>1, <1>2, <1>4, Zenon
  <2>2. 2 + (2 + l) = 4 + l
    BY <1>2
  <2> QED BY <2>1, <2>2, Zenon
<1>9. ASSUME NEW i \in 1..l PROVE v[4 + i] = s[i]
  <2>1. 2 + i \in 1..(2 + l) /\ 2 + (2 + i) = 4 + i
    BY <1>2
  <2>2. v[2 + (2 + i)] = w[2 + i]
    BY <1>1, <1>2, <1>4, <2>1, Zenon
  <2> QED BY <2>1, <2>2, <1>2, Zenon
<1> QED BY <1>2, <1>3, <1>4, <1>6, <1>7, <1>8, <1>9, Zenon DEF l

(* Sequences with the same elements. *)
LEMMA SameSeq ==
    ASSUME NEW S, NEW s \in Seq(S), NEW t \in Seq(S), Len(s) = Len(t), \A i \in 1..Len(s) : s[i] = t[i]
    PROVE  s = t
<1>1. s = [i \in 1..Len(s) |-> s[i]] /\ t = [i \in 1..Len(t) |-> t[i]]
  OBVIOUS
<1> QED BY <1>1, Zenon

(* The part of b behind its first p bytes that is t. *)
LEMMA SlicePart ==
    ASSUME NEW b \in Seq(Nat), NEW p \in Nat, NEW t \in Seq(Nat), p + Len(t) <= Len(b),
           \A i \in 1..Len(t) : b[p + i] = t[i]
    PROVE  SubSeq(b, p + 1, p + Len(t)) = t
<1> DEFINE u == SubSeq(b, p + 1, p + Len(t))
<1>1. u \in Seq(Nat) /\ Len(u) = Len(t) /\ \A i \in 1..Len(t) : u[i] = b[p + i]
  OBVIOUS
<1> HIDE DEF u
<1>2. \A i \in 1..Len(u) : u[i] = t[i]
  BY <1>1, Zenon
<1>3. u = t
  BY <1>1, <1>2, SameSeq, Zenon
<1> QED BY <1>3, Zenon DEF u

(* The list of names of a server name extension. *)
Names == [type : Nat, name : Seq(Nat)]

(* An entry of the list that is whole is taken or stepped over.            *)
LEMMA NameStep ==
    ASSUME NEW b \in Seq(Nat), NEW p \in Nat, NEW n \in Names,
           p + Len(NameBytes(n)) <= Len(b),
           \A j \in 1..Len(NameBytes(n)) : b[p + j] = NameBytes(n)[j]
    PROVE  first_host_name(b)[p] = IF n.type = 0 THEN from_utf8(n.name)
                                   ELSE first_host_name(b)[p + Len(NameBytes(n))]
<1> DEFINE t == NameBytes(n)
           l == Len(n.name)
<1>1. n.type \in Nat /\ n.name \in Seq(Nat)
  BY Zenon DEF Names
<1>2. /\ t \in Seq(Nat) /\ l \in Nat /\ Len(t) = 3 + l
      /\ t[1] = n.type /\ read_u16(t, 1) = l /\ \A i \in 1..l : t[3 + i] = n.name[i]
  BY <1>1, NameLayout, Zenon
<1>3. p + Len(t) <= Len(b) /\ \A j \in 1..Len(t) : b[p + j] = t[j]
  BY Zenon
<1> HIDE DEF t
<1>4. Len(b) \in Nat
  OBVIOUS
<1> HIDE DEF l
<1>5. /\ 1 \in 1..(3 + l) /\ 1 + 1 \in 1..(3 + l) /\ 1 + 2 \in 1..(3 + l)
      /\ (p + 1) + 1 = p + (1 + 1) /\ (p + 1) + 2 = p + (1 + 2)
  BY <1>2
<1>6. b[p + 1] = n.type /\ b[p + (1 + 1)] = t[1 + 1] /\ b[p + (1 + 2)] = t[1 + 2]
  BY <1>2, <1>3, <1>5, Zenon
<1>7. p + (3 + l) <= Len(b)
  BY <1>2, <1>3, Zenon
<1>8. p \in 0..Len(b) /\ Has(b, p, 3) /\ Has(b, p + 3, l)
  <2>1. p \in 0..Len(b) /\ p # Fail /\ p + 3 <= Len(b) /\ p + 3 # Fail /\ (p + 3) + l <= Len(b)
    BY <1>2, <1>4, <1>7 DEF Fail
  <2> QED BY <2>1, Zenon DEF Has
<1>9. read_u8(b, p) = n.type
  BY <1>6, Zenon DEF read_u8
<1>10. read_u16(b, p + 1) = l
  <2>1. b[(p + 1) + 1] = t[1 + 1] /\ b[(p + 1) + 2] = t[1 + 2]
    BY <1>5, <1>6, Zenon
  <2>2. read_u16(b, p + 1) = read_u16(t, 1)
    BY <2>1 DEF read_u16
  <2> QED BY <1>2, <2>2, Zenon
<1>11. read_slice(b, p + 3, l) = n.name
  <2>1. ASSUME NEW i \in 1..l PROVE b[(p + 3) + i] = n.name[i]
    <3>1. 3 + i \in 1..(3 + l) /\ (p + 3) + i = p + (3 + i)
      BY <1>2
    <3> QED BY <3>1, <1>2, <1>3, Zenon
  <2>2. p + 3 \in Nat /\ (p + 3) + l <= Len(b)
    BY <1>2, <1>4, <1>7
  <2> QED BY <1>1, <2>1, <2>2, SlicePart, Zenon DEF read_slice, l
<1>12. p + 3 + l = p + Len(t)
  BY <1>2
<1>13. first_host_name(b)[p] = IF n.type = 0 THEN from_utf8(n.name)
                               ELSE first_host_name(b)[p + 3 + l]
  BY <1>8, <1>9, <1>10, <1>11, HostNameLoop, Zenon
<1> QED BY <1>12, <1>13, Zenon DEF t

(* The first host name of a list is found, whatever comes before it and    *)
(* after it; without one there is no name.                                 *)
LEMMA NamesRead ==
    ASSUME NEW names \in Seq(Names)
    PROVE  /\ NamesBytes(names) \in Seq(Nat)
           /\ first_host_name(NamesBytes(names))[0] =
                IF HasType0(names) THEN from_utf8(FirstOfType0(names).name) ELSE NoName
<1> DEFINE parts == [i \in DOMAIN names |-> NameBytes(names[i])]
           b == NamesBytes(names)
           n == Len(names)
<1>1. n \in Nat /\ DOMAIN names = 1..n /\ \A i \in 1..n : names[i] \in Names
  OBVIOUS
<1>2. ASSUME NEW x \in Names PROVE NameBytes(x) \in Seq(Nat)
  <2>1. x.type \in Nat /\ x.name \in Seq(Nat)
    BY Zenon DEF Names
  <2> QED BY <2>1, NameLayout, Zenon
<1>3. parts \in Seq(Seq(Nat)) /\ Len(parts) = n /\ \A i \in 1..n : parts[i] = NameBytes(names[i])
  <2>1. \A i \in 1..n : NameBytes(names[i]) \in Seq(Nat)
    BY <1>1, <1>2, Zenon
  <2> HIDE DEF n
  <2> QED BY <1>1, <2>1
<1> HIDE DEF parts, n
<1>4. b = Concat(parts)
  BY Zenon DEF NamesBytes, parts
<1> HIDE DEF b
<1>5. b \in Seq(Nat)
  BY <1>3, <1>4, ConcatLayout, Zenon
<1>6. PICK o : Layout(parts, b, o)
  BY <1>3, <1>4, ConcatLayout, Zenon
<1> DEFINE F == first_host_name(b)
           r == [i \in 0..n |-> F[o[i]]]
           hit == {i \in 1..n : names[i].type = 0}
           v == [i \in 1..n |-> from_utf8(names[i].name)]
<1>7. ASSUME NEW i \in 1..n PROVE r[i - 1] = IF i \in hit THEN v[i] ELSE r[i]
  <2>1. i \in 0..n /\ i - 1 \in 0..n
    BY <1>1
  <2>2. /\ o[i - 1] \in Nat /\ o[i] = o[i - 1] + Len(parts[i]) /\ o[i] <= Len(b)
        /\ \A j \in 1..Len(parts[i]) : b[o[i - 1] + j] = parts[i][j]
    <3>1. o \in [0..n -> Nat]
      BY <1>3, <1>6, Zenon DEF Layout
    <3>2. o[i - 1] \in Nat
      BY <2>1, <3>1, Zenon
    <3> QED BY <3>2, <1>3, <1>6, Zenon DEF Layout
  <2>3. F[o[i - 1]] = IF names[i].type = 0 THEN from_utf8(names[i].name) ELSE F[o[i]]
    <3>1. names[i] \in Names /\ parts[i] = NameBytes(names[i])
      BY <1>1, <1>3, Zenon
    <3>2. /\ o[i - 1] + Len(NameBytes(names[i])) <= Len(b)
          /\ \A j \in 1..Len(NameBytes(names[i])) : b[o[i - 1] + j] = NameBytes(names[i])[j]
          /\ o[i] = o[i - 1] + Len(NameBytes(names[i]))
      BY <2>2, <3>1, Zenon
    <3>3. F[o[i - 1]] = IF names[i].type = 0 THEN from_utf8(names[i].name)
                        ELSE F[o[i - 1] + Len(NameBytes(names[i]))]
      BY <1>5, <2>2, <3>1, <3>2, NameStep, Zenon
    <3> HIDE DEF F
    <3> QED BY <3>2, <3>3, Zenon
  <2> HIDE DEF F
  <2>4. r[i - 1] = F[o[i - 1]] /\ r[i] = F[o[i]] /\ v[i] = from_utf8(names[i].name)
    BY <2>1, Zenon
  <2> QED BY <2>3, <2>4, Zenon
<1>8. r[n] = NoName /\ r[0] = F[0]
  <2>1. n \in 0..n /\ 0 \in 0..n /\ Len(b) \in Nat /\ Len(b) \in 0..Len(b)
    BY <1>1, <1>5
  <2>2. o[n] = Len(b) /\ o[0] = 0
    BY <1>3, <1>6, Zenon DEF Layout
  <2>3. ~Has(b, Len(b), 3)
    BY <2>1 DEF Has
  <2>4. F[Len(b)] = NoName
    BY <1>5, <2>1, <2>3, HostNameLoop, Zenon
  <2> HIDE DEF F
  <2>5. r[n] = F[o[n]] /\ r[0] = F[o[0]]
    BY <2>1, Zenon
  <2> HIDE DEF r
  <2> QED BY <2>2, <2>4, <2>5, Zenon
<1>9. hit \in SUBSET (1..n) /\ (hit = {} <=> ~HasType0(names))
  BY <1>1, Zenon DEF HasType0
<1>a. Searches(n, r, hit, v)
  BY <1>7, Zenon DEF Searches
<1>10. r[0] = IF hit = {} THEN r[n] ELSE v[Min(hit)]
  <2> HIDE DEF r, v, hit
  <2> QED BY <1>1, <1>a, <1>9, SearchReturnsFirst, Zenon
<1>11. hit # {} => v[Min(hit)] = from_utf8(FirstOfType0(names).name)
  <2>1. hit = {i \in DOMAIN names : names[i].type = 0}
    BY <1>1, Zenon
  <2>2. hit # {} => Min(hit) \in 1..n
    <3>1. hit \in SUBSET Nat
      BY <1>1
    <3> HIDE DEF hit
    <3> QED BY <3>1, <1>9, MinIsLeast, Zenon
  <2>3. names[Min(hit)] = FirstOfType0(names)
    BY <2>1, Zenon DEF FirstOfType0
  <2> HIDE DEF hit
  <2> QED BY <2>2, <2>3, Zenon
<1> HIDE DEF F, r, v, hit
<1> QED BY <1>5, <1>8, <1>9, <1>10, <1>11, Zenon DEF b, F

(* The loop over the extensions: what it returns from each place of them.  *)
LEMMA ExtensionLoop ==
    ASSUME NEW exts \in Seq(Nat), NEW pos \in 0..Len(exts)
    PROVE  find_server_name(exts)[pos] =
             LET len == read_u16(exts, pos + 2) IN
             IF ~Has(exts, pos, 4) \/ ~Has(exts, pos + 4, len)
               THEN NoName
               ELSE IF read_u16(exts, pos) = 0
                 THEN parse_sni_extension(read_slice(exts, pos + 4, len))
                 ELSE find_server_name(exts)[pos + 4 + len]
<1> DEFINE D == 0..Len(exts)
           len(p) == read_u16(exts, p + 2)
           Short(p) == ~Has(exts, p, 4) \/ ~Has(exts, p + 4, len(p))
           Sni(p) == read_u16(exts, p) = 0
           Data(p) == parse_sni_extension(read_slice(exts, p + 4, len(p)))
           Goes(f, p) == IF Short(p) THEN NoName ELSE IF Sni(p) THEN Data(p) ELSE f[p + 4 + len(p)]
           stop == {p \in D : Short(p) \/ Sni(p)}
           val == [p \in D |-> IF Short(p) THEN NoName ELSE Data(p)]
           next == [p \in D |-> p + 4 + len(p)]
           m == [p \in D |-> p]
<1>1. find_server_name(exts) = CHOOSE f : f = [p \in D |-> Goes(f, p)]
  BY Zenon DEF find_server_name
<1>2. ASSUME NEW p \in D, ~Short(p) PROVE next[p] \in D /\ next[p] > p
  <2>1. len(p) \in Nat
    BY <1>2 DEF read_u16, Has
  <2> QED BY <1>2, <2>1 DEF Has
<1>3. m \in [D -> 0..Len(exts)] /\ Len(exts) \in Nat /\ \A p \in D : m[p] = p
  OBVIOUS
<1> HIDE DEF D, Short, Sni, Data, m
<1>4. \E f : f = [p \in D |-> Goes(f, p)]
  <2>1. \A p \in D : p \notin stop => next[p] \in D /\ m[next[p]] > m[p]
    <3> HIDE DEF next
    <3> QED BY <1>2, <1>3, Zenon
  <2> HIDE DEF next, stop, val
  <2>2. PICK f : ReturnsOf(f, D, stop, val, next)
    BY <1>3, <2>1, LoopHasResult, Zenon
  <2>3. ASSUME NEW p \in D PROVE (IF p \in stop THEN val[p] ELSE f[next[p]]) = Goes(f, p)
    BY Zenon DEF stop, val, next
  <2>4. [p \in D |-> IF p \in stop THEN val[p] ELSE f[next[p]]] = [p \in D |-> Goes(f, p)]
    <3> HIDE DEF Goes
    <3> QED BY <2>3, Zenon
  <2> QED BY <2>2, <2>4, Zenon DEF ReturnsOf
<1>5. find_server_name(exts) = [p \in D |-> Goes(find_server_name(exts), p)]
  BY <1>1, <1>4, Zenon
<1>6. pos \in D
  BY DEF D
<1>7. find_server_name(exts)[pos] = Goes(find_server_name(exts), pos)
  <2> HIDE DEF Goes
  <2> QED BY <1>5, <1>6, Zenon
<1> QED BY <1>7, Zenon DEF Short, Sni, Data

(* The data of an extension, and extensions of any type. *)
ExtensionData(e) == IF e.type = 0 THEN Vector16(NamesBytes(e.names)) ELSE e.data

Extensions == [type : Nat, names : Seq(Names), data : Seq(Nat)]

(* The data and the bytes of an extension, whichever of the two kinds it   *)
(* is of.                                                                  *)
LEMMA ExtensionLayout ==
    ASSUME NEW e \in Extensions
    PROVE  /\ e.type \in Nat /\ e.names \in Seq(Names)
           /\ ExtensionData(e) \in Seq(Nat)
           /\ Len(ExtensionData(e)) \in Nat
           /\ ExtensionBytes(e) \in Seq(Nat)
           /\ Len(ExtensionBytes(e)) = 4 + Len(ExtensionData(e))
           /\ read_u16(ExtensionBytes(e), 0) = e.type
           /\ read_u16(ExtensionBytes(e), 2) = Len(ExtensionData(e))
           /\ \A i \in 1..Len(ExtensionData(e)) : ExtensionBytes(e)[4 + i] = ExtensionData(e)[i]
<1>1. e.type \in Nat /\ e.names \in Seq(Names) /\ e.data \in Seq(Nat)
  BY Zenon DEF Extensions
<1>2. Vector16(NamesBytes(e.names)) \in Seq(Nat)
  BY <1>1, NamesRead, Vector16Layout, Zenon
<1>3. ExtensionData(e) \in Seq(Nat)
  BY <1>1, <1>2, Zenon DEF ExtensionData
<1>4. ExtensionBytes(e) = Typed16(e.type, ExtensionData(e))
  BY Zenon DEF ExtensionBytes, ExtensionData
<1> DEFINE d == ExtensionData(e)
<1>5. /\ Typed16(e.type, d) \in Seq(Nat) /\ Len(d) \in Nat
      /\ Len(Typed16(e.type, d)) = 4 + Len(d)
      /\ read_u16(Typed16(e.type, d), 0) = e.type
      /\ read_u16(Typed16(e.type, d), 2) = Len(d)
      /\ \A i \in 1..Len(d) : Typed16(e.type, d)[4 + i] = d[i]
  <2> HIDE DEF d
  <2>1. e.type \in Nat /\ d \in Seq(Nat)
    BY <1>1, <1>3, Zenon DEF d
  <2> QED BY <2>1, TypedLayout, Zenon
<1> QED BY <1>1, <1>3, <1>4, <1>5, Zenon

(* An extension that is whole is taken or stepped over.                    *)
LEMMA ExtensionStep ==
    ASSUME NEW b \in Seq(Nat), NEW p \in Nat, NEW e \in Extensions,
           p + Len(ExtensionBytes(e)) <= Len(b),
           \A j \in 1..Len(ExtensionBytes(e)) : b[p + j] = ExtensionBytes(e)[j]
    PROVE  find_server_name(b)[p] = IF e.type = 0 THEN parse_sni_extension(ExtensionData(e))
                                    ELSE find_server_name(b)[p + Len(ExtensionBytes(e))]
<1> DEFINE d == ExtensionData(e)
           t == ExtensionBytes(e)
           l == Len(d)
<1>1. d \in Seq(Nat)
  BY ExtensionLayout, Zenon
<1>2. /\ t \in Seq(Nat) /\ l \in Nat /\ Len(t) = 4 + l
      /\ read_u16(t, 0) = e.type /\ read_u16(t, 2) = l /\ \A i \in 1..l : t[4 + i] = d[i]
  BY ExtensionLayout, Zenon
<1>3. p + Len(t) <= Len(b) /\ \A j \in 1..Len(t) : b[p + j] = t[j]
  BY Zenon
<1>4. Len(b) \in Nat
  OBVIOUS
<1> HIDE DEF t, d, l
<1>5. /\ 0 + 1 \in 1..(4 + l) /\ 0 + 2 \in 1..(4 + l) /\ 2 + 1 \in 1..(4 + l) /\ 2 + 2 \in 1..(4 + l)
      /\ p + 1 = p + (0 + 1) /\ p + 2 = p + (0 + 2)
      /\ (p + 2) + 1 = p + (2 + 1) /\ (p + 2) + 2 = p + (2 + 2)
  BY <1>2
<1>6. /\ b[p + (0 + 1)] = t[0 + 1] /\ b[p + (0 + 2)] = t[0 + 2]
      /\ b[p + (2 + 1)] = t[2 + 1] /\ b[p + (2 + 2)] = t[2 + 2]
  BY <1>2, <1>3, <1>5, Zenon
<1>7. p + (4 + l) <= Len(b)
  BY <1>2, <1>3, Zenon
<1>8. p \in 0..Len(b) /\ Has(b, p, 4) /\ Has(b, p + 4, l)
  <2>1. p \in 0..Len(b) /\ p # Fail /\ p + 4 <= Len(b) /\ p + 4 # Fail /\ (p + 4) + l <= Len(b)
    BY <1>2, <1>4, <1>7 DEF Fail
  <2> QED BY <2>1, Zenon DEF Has
<1>9. read_u16(b, p) = e.type
  <2>1. b[p + 1] = t[0 + 1] /\ b[p + 2] = t[0 + 2]
    BY <1>5, <1>6, Zenon
  <2>2. read_u16(b, p) = read_u16(t, 0)
    BY <2>1 DEF read_u16
  <2> QED BY <1>2, <2>2, Zenon
<1>10. read_u16(b, p + 2) = l
  <2>1. b[(p + 2) + 1] = t[2 + 1] /\ b[(p + 2) + 2] = t[2 + 2]
    BY <1>5, <1>6, Zenon
  <2>2. read_u16(b, p + 2) = read_u16(t, 2)
    BY <2>1 DEF read_u16
  <2> QED BY <1>2, <2>2, Zenon
<1>11. read_slice(b, p + 4, l) = d
  <2>1. ASSUME NEW i \in 1..l PROVE b[(p + 4) + i] = d[i]
    <3>1. 4 + i \in 1..(4 + l) /\ (p + 4) + i = p + (4 + i)
      BY <1>2
    <3>2. b[p + (4 + i)] = t[4 + i]
      BY <3>1, <1>2, <1>3, Zenon
    <3>3. t[4 + i] = d[i]
      BY <1>2, Zenon
    <3> QED BY <3>1, <3>2, <3>3, Zenon
  <2>2. p + 4 \in Nat /\ (p + 4) + l <= Len(b)
    BY <1>2, <1>4, <1>7
  <2> QED BY <1>1, <2>1, <2>2, SlicePart, Zenon DEF read_slice, l
<1>12. p + 4 + l = p + Len(t)
  BY <1>2
<1>13. find_server_name(b)[p] = IF e.type = 0 THEN parse_sni_extension(d)
                                ELSE find_server_name(b)[p + 4 + l]
  BY <1>8, <1>9, <1>10, <1>11, ExtensionLoop, Zenon
<1> QED BY <1>12, <1>13, Zenon DEF d, t

(* The first server name extension is found, whatever comes before it and  *)
(* after it; without one there is no name.                                 *)
LEMMA ExtensionsRead ==
    ASSUME NEW exts \in Seq(Extensions)
    PROVE  /\ ExtensionsBytes(exts) \in Seq(Nat)
           /\ find_server_name(ExtensionsBytes(exts))[0] =
                IF HasType0(exts) THEN parse_sni_extension(ExtensionData(FirstOfType0(exts))) ELSE NoName
<1> DEFINE parts == [i \in DOMAIN exts |-> ExtensionBytes(exts[i])]
           b == ExtensionsBytes(exts)
           n == Len(exts)
<1>1. n \in Nat /\ DOMAIN exts = 1..n /\ \A i \in 1..n : exts[i] \in Extensions
  OBVIOUS
<1>2. ASSUME NEW x \in Extensions PROVE ExtensionBytes(x) \in Seq(Nat)
  BY ExtensionLayout, Zenon
<1>3. parts \in Seq(Seq(Nat)) /\ Len(parts) = n /\ \A i \in 1..n : parts[i] = ExtensionBytes(exts[i])
  <2>1. \A i \in 1..n : ExtensionBytes(exts[i]) \in Seq(Nat)
    BY <1>1, <1>2, Zenon
  <2> HIDE DEF n
  <2> QED BY <1>1, <2>1
<1> HIDE DEF parts, n
<1>4. b = Concat(parts)
  BY Zenon DEF ExtensionsBytes, parts
<1> HIDE DEF b
<1>5. b \in Seq(Nat)
  BY <1>3, <1>4, ConcatLayout, Zenon
<1>6. PICK o : Layout(parts, b, o)
  BY <1>3, <1>4, ConcatLayout, Zenon
<1> DEFINE F == find_server_name(b)
           r == [i \in 0..n |-> F[o[i]]]
           hit == {i \in 1..n : exts[i].type = 0}
           v == [i \in 1..n |-> parse_sni_extension(ExtensionData(exts[i]))]
<1>7. ASSUME NEW i \in 1..n PROVE r[i - 1] = IF i \in hit THEN v[i] ELSE r[i]
  <2>1. i \in 0..n /\ i - 1 \in 0..n
    BY <1>1
  <2>2. /\ o[i - 1] \in Nat /\ o[i] = o[i - 1] + Len(parts[i]) /\ o[i] <= Len(b)
        /\ \A j \in 1..Len(parts[i]) : b[o[i - 1] + j] = parts[i][j]
    <3>1. o \in [0..n -> Nat]
      BY <1>3, <1>6, Zenon DEF Layout
    <3>2. o[i - 1] \in Nat
      BY <2>1, <3>1, Zenon
    <3> QED BY <3>2, <1>3, <1>6, Zenon DEF Layout
  <2>3. F[o[i - 1]] = IF exts[i].type = 0 THEN parse_sni_extension(ExtensionData(exts[i])) ELSE F[o[i]]
    <3>1. exts[i] \in Extensions /\ parts[i] = ExtensionBytes(exts[i])
      BY <1>1, <1>3, Zenon
    <3>2. /\ o[i - 1] + Len(ExtensionBytes(exts[i])) <= Len(b)
          /\ \A j \in 1..Len(ExtensionBytes(exts[i])) : b[o[i - 1] + j] = ExtensionBytes(exts[i])[j]
          /\ o[i] = o[i - 1] + Len(ExtensionBytes(exts[i]))
      BY <2>2, <3>1, Zenon
    <3>3. F[o[i - 1]] = IF exts[i].type = 0 THEN parse_sni_extension(ExtensionData(exts[i]))
                        ELSE F[o[i - 1] + Len(ExtensionBytes(exts[i]))]
      BY <1>5, <2>2, <3>1, <3>2, ExtensionStep, Zenon
    <3> HIDE DEF F
    <3> QED BY <3>2, <3>3, Zenon
  <2> HIDE DEF F
  <2>4. r[i - 1] = F[o[i - 1]] /\ r[i] = F[o[i]] /\ v[i] = parse_sni_extension(ExtensionData(exts[i]))
    BY <2>1, Zenon
  <2> QED BY <2>3, <2>4, Zenon
<1>8. r[n] = NoName /\ r[0] = F[0]
  <2>1. n \in 0..n /\ 0 \in 0..n /\ Len(b) \in Nat /\ Len(b) \in 0..Len(b)
    BY <1>1, <1>5
  <2>2. o[n] = Len(b) /\ o[0] = 0
    BY <1>3, <1>6, Zenon DEF Layout
  <2>3. ~Has(b, Len(b), 4)
    BY <2>1 DEF Has
  <2>4. F[Len(b)] = NoName
    BY <1>5, <2>1, <2>3, ExtensionLoop, Zenon
  <2> HIDE DEF F
  <2>5. r[n] = F[o[n]] /\ r[0] = F[o[0]]
    BY <2>1, Zenon
  <2> HIDE DEF r
  <2> QED BY <2>2, <2>4, <2>5, Zenon
<1>9. hit \in SUBSET (1..n) /\ (hit = {} <=> ~HasType0(exts))
  BY <1>1, Zenon DEF HasType0
<1>a. Searches(n, r, hit, v)
  BY <1>7, Zenon DEF Searches
<1>10. r[0] = IF hit = {} THEN r[n] ELSE v[Min(hit)]
  <2> HIDE DEF r, v, hit
  <2> QED BY <1>1, <1>a, <1>9, SearchReturnsFirst, Zenon
<1>11. hit # {} => v[Min(hit)] = parse_sni_extension(ExtensionData(FirstOfType0(exts)))
  <2>1. hit = {i \in DOMAIN exts : exts[i].type = 0}
    BY <1>1, Zenon
  <2>2. hit # {} => Min(hit) \in 1..n
    <3>1. hit \in SUBSET Nat
      BY <1>1
    <3> HIDE DEF hit
    <3> QED BY <3>1, <1>9, MinIsLeast, Zenon
  <2>3. exts[Min(hit)] = FirstOfType0(exts)
    BY <2>1, Zenon DEF FirstOfType0
  <2> HIDE DEF hit
  <2> QED BY <2>2, <2>3, Zenon
<1> HIDE DEF F, r, v, hit
<1> QED BY <1>5, <1>8, <1>9, <1>10, <1>11, Zenon DEF b, F

(* The data of a server name extension has the length that it says. *)
LEMMA ServerNameRead ==
    ASSUME NEW s \in Seq(Nat)
    PROVE  parse_sni_extension(Vector16(s)) = first_host_name(s)[0]
<1> DEFINE v == Vector16(s)
           l == Len(s)
<1>1. /\ v \in Seq(Nat) /\ l \in Nat /\ Len(v) = 2 + l /\ read_u16(v, 0) = l
      /\ \A i \in 1..l : v[2 + i] = s[i]
  BY Vector16Layout, Zenon
<1> HIDE DEF v
<1>2. SubSeq(v, 2 + 1, 2 + l) = s
  <2>1. 2 \in Nat /\ 2 + l <= Len(v)
    <3>1. 2 + l <= 2 + l
      BY <1>1
    <3> QED BY <1>1, <3>1
  <2> QED BY <1>1, <2>1, SlicePart, Zenon
<1>3. SubSeq(v, 3, Len(v)) = s
  <2>1. 2 + 1 = 3
    OBVIOUS
  <2> QED BY <1>1, <1>2, <2>1, Zenon
<1>4. Len(v) >= 2
  <2>1. l \in Nat /\ Len(v) = 2 + l
    BY <1>1, Zenon
  <2> QED BY <2>1
<1> QED BY <1>1, <1>3, <1>4, Zenon DEF parse_sni_extension, v

(* The first record of type 0 is one of the records. *)
LEMMA FirstOfType0IsOne ==
    ASSUME NEW S, NEW s \in Seq(S), HasType0(s)
    PROVE  FirstOfType0(s) \in S /\ FirstOfType0(s).type = 0
<1> DEFINE T == {i \in DOMAIN s : s[i].type = 0}
<1>1. T \in SUBSET Nat /\ T # {} /\ \A i \in T : s[i] \in S /\ s[i].type = 0
  <2>1. DOMAIN s \in SUBSET Nat /\ \A i \in DOMAIN s : s[i] \in S
    OBVIOUS
  <2> QED BY <2>1, Zenon DEF HasType0
<1>2. Min(T) \in T
  <2> HIDE DEF T
  <2> QED BY <1>1, MinIsLeast, Zenon
<1>3. FirstOfType0(s) = s[Min(T)]
  BY Zenon DEF FirstOfType0
<1> HIDE DEF T
<1> QED BY <1>1, <1>2, <1>3, Zenon

(* What the two loops find in the extensions of a hello is the name that   *)
(* it asks for.                                                            *)
LEMMA AskedForIsRead ==
    ASSUME NEW h, h.extensions \in Seq(Extensions)
    PROVE  find_server_name(ExtensionsBytes(h.extensions))[0] = NameAskedFor(h)
<1> DEFINE exts == h.extensions
           e == FirstOfType0(exts)
           n == FirstOfType0(e.names)
<1>1. find_server_name(ExtensionsBytes(exts))[0] =
        IF HasType0(exts) THEN parse_sni_extension(ExtensionData(e)) ELSE NoName
  BY ExtensionsRead, Zenon
<1>2. ASSUME HasType0(exts)
      PROVE  parse_sni_extension(ExtensionData(e)) = IF HasType0(e.names) THEN from_utf8(n.name) ELSE NoName
  <2>1. e \in Extensions /\ e.type = 0
    BY <1>2, FirstOfType0IsOne, Zenon
  <2> HIDE DEF e
  <2>2. e.names \in Seq(Names)
    BY <2>1, ExtensionLayout, Zenon
  <2>3. ExtensionData(e) = Vector16(NamesBytes(e.names))
    BY <2>1, Zenon DEF ExtensionData
  <2>4. /\ NamesBytes(e.names) \in Seq(Nat)
        /\ first_host_name(NamesBytes(e.names))[0] = IF HasType0(e.names) THEN from_utf8(n.name) ELSE NoName
    BY <2>2, NamesRead, Zenon
  <2> QED BY <2>3, <2>4, ServerNameRead, Zenon
<1> HIDE DEF e, exts, n
<1>3. NameAskedFor(h) = IF HasType0(exts) /\ HasType0(e.names) THEN from_utf8(n.name) ELSE NoName
  BY Zenon DEF NameAskedFor, from_utf8, e, exts, n
<1>4. find_server_name(ExtensionsBytes(exts))[0] = NameAskedFor(h)
  <2>1. CASE HasType0(exts)
    BY <1>1, <1>2, <1>3, <2>1, Zenon
  <2>2. CASE ~HasType0(exts)
    BY <1>1, <1>3, <2>2, Zenon
  <2> QED BY <2>1, <2>2, Zenon
<1> QED BY <1>4, Zenon DEF exts

(* The places of five parts in their concatenation. *)
FiveParts(v, a, b, c, d, e) ==
    /\ v \in Seq(Nat)
    /\ Len(v) = Len(a) + Len(b) + Len(c) + Len(d) + Len(e)
    /\ \A i \in 1..Len(b) : v[Len(a) + i] = b[i]
    /\ \A i \in 1..Len(c) : v[Len(a) + Len(b) + i] = c[i]
    /\ \A i \in 1..Len(d) : v[Len(a) + Len(b) + Len(c) + i] = d[i]
    /\ \A i \in 1..Len(e) : v[Len(a) + Len(b) + Len(c) + Len(d) + i] = e[i]

(* Every part of a concatenation of five has its place. *)
LEMMA FiveJoined ==
    ASSUME NEW a \in Seq(Nat), NEW b \in Seq(Nat), NEW c \in Seq(Nat), NEW d \in Seq(Nat), NEW e \in Seq(Nat)
    PROVE  FiveParts(a \o b \o c \o d \o e, a, b, c, d, e)
<1> DEFINE v == a \o b \o c \o d \o e
<1>1. Len(a) \in Nat /\ Len(b) \in Nat /\ Len(c) \in Nat /\ Len(d) \in Nat /\ Len(e) \in Nat
  OBVIOUS
<1>2. v \in Seq(Nat) /\ Len(v) = Len(a) + Len(b) + Len(c) + Len(d) + Len(e)
  OBVIOUS
<1>3. ASSUME NEW i \in 1..Len(b) PROVE v[Len(a) + i] = b[i]
  OBVIOUS
<1>4. ASSUME NEW i \in 1..Len(c) PROVE v[Len(a) + Len(b) + i] = c[i]
  OBVIOUS
<1>5. ASSUME NEW i \in 1..Len(d) PROVE v[Len(a) + Len(b) + Len(c) + i] = d[i]
  OBVIOUS
<1>6. ASSUME NEW i \in 1..Len(e) PROVE v[Len(a) + Len(b) + Len(c) + Len(d) + i] = e[i]
  OBVIOUS
<1> HIDE DEF v
<1>7. FiveParts(v, a, b, c, d, e)
  BY <1>2, <1>3, <1>4, <1>5, <1>6, Zenon DEF FiveParts
<1> QED BY <1>7, Zenon DEF v

(* Hellos with a session, ciphers and extensions of any length. *)
Hellos == [session : Seq(Nat), ciphers : Seq(Nat), extensions : Seq(Extensions)]

(* A vector with a length of one byte. *)
LEMMA Vector8Layout ==
    ASSUME NEW s \in Seq(Nat)
    PROVE  Vector8(s) \in Seq(Nat) /\ Len(s) \in Nat /\ Len(Vector8(s)) = 1 + Len(s) /\ Vector8(s)[1] = Len(s)
<1> DEFINE c == <<Len(s)>>
<1>1. Len(s) \in Nat
  OBVIOUS
<1>2. c \in Seq(Nat) /\ Len(c) = 1 /\ c[1] = Len(s) /\ 1 \in 1..1
  BY <1>1
<1> HIDE DEF c
<1>3. /\ c \o s \in Seq(Nat) /\ Len(c \o s) = Len(c) + Len(s)
      /\ \A i \in 1..Len(c) : (c \o s)[i] = c[i]
  <2>1. c \in Seq(Nat)
    BY <1>2, Zenon
  <2> QED BY <2>1, Joined
<1>4. Vector8(s) = c \o s
  BY Zenon DEF Vector8, c
<1>5. (c \o s)[1] = Len(s) /\ Len(c \o s) = 1 + Len(s)
  <2> DEFINE v == c \o s
  <2> HIDE DEF v
  <2>1. Len(v) = Len(c) + Len(s) /\ \A i \in 1..Len(c) : v[i] = c[i]
    BY <1>3, Zenon DEF v
  <2>2. v[1] = Len(s) /\ Len(v) = 1 + Len(s)
    BY <1>2, <2>1, Zenon
  <2> QED BY <2>2, Zenon DEF v
<1> QED BY <1>1, <1>3, <1>4, <1>5, Zenon

(* The lengths of the variable parts of a hello. *)
SessionLen(h) == Len(h.session)

CiphersLen(h) == Len(h.ciphers)

ExtensionsLen(h) == Len(ExtensionsBytes(h.extensions))

(* What parse_sni reads of the body of a hello, and where. *)
LEMMA BodyLayout ==
    ASSUME NEW h \in Hellos
    PROVE  LET s == SessionLen(h)
               c == CiphersLen(h)
               x == ExtensionsLen(h)
           IN  /\ s \in Nat /\ c \in Nat /\ x \in Nat
               /\ ExtensionsBytes(h.extensions) \in Seq(Nat)
               /\ HelloBody(h) \in Seq(Nat)
               /\ Len(HelloBody(h)) = 41 + s + c + x
               /\ HelloBody(h)[35] = s
               /\ read_u16(HelloBody(h), 35 + s) = c
               /\ HelloBody(h)[38 + s + c] = 1
               /\ read_u16(HelloBody(h), 39 + s + c) = x
               /\ \A i \in 1..x : HelloBody(h)[41 + s + c + i] = ExtensionsBytes(h.extensions)[i]
<1> DEFINE s == SessionLen(h)
           c == CiphersLen(h)
           x == ExtensionsLen(h)
           E == ExtensionsBytes(h.extensions)
           a == [i \in 1..VersionAndRandom |-> 3]
           b == Vector8(h.session)
           k == Vector16(h.ciphers)
           d == Vector8(<<0>>)
           e == Vector16(E)
           v == HelloBody(h)
<1>1. h.session \in Seq(Nat) /\ h.ciphers \in Seq(Nat) /\ h.extensions \in Seq(Extensions)
  BY Zenon DEF Hellos
<1>2. E \in Seq(Nat)
  BY <1>1, ExtensionsRead, Zenon
<1>3. a \in Seq(Nat) /\ Len(a) = 34
  BY DEF VersionAndRandom
<1>4. b \in Seq(Nat) /\ s \in Nat /\ Len(b) = 1 + s /\ b[1] = s
  BY <1>1, Vector8Layout, Zenon DEF SessionLen
<1>5. k \in Seq(Nat) /\ c \in Nat /\ Len(k) = 2 + c /\ read_u16(k, 0) = c
  BY <1>1, Vector16Layout, Zenon DEF CiphersLen
<1>6. d \in Seq(Nat) /\ Len(d) = 2 /\ d[1] = 1
  <2> DEFINE u == <<0>>
  <2>1. u \in Seq(Nat) /\ Len(u) = 1 /\ 1 + 1 = 2
    OBVIOUS
  <2> HIDE DEF u
  <2>2. Vector8(u) \in Seq(Nat) /\ Len(Vector8(u)) = 1 + Len(u) /\ Vector8(u)[1] = Len(u)
    BY <2>1, Vector8Layout, Zenon
  <2>3. Vector8(u) \in Seq(Nat) /\ Len(Vector8(u)) = 2 /\ Vector8(u)[1] = 1
    BY <2>1, <2>2, Zenon
  <2> QED BY <2>3, Zenon DEF u
<1> HIDE DEF s, c
<1>7. /\ e \in Seq(Nat) /\ x \in Nat /\ Len(e) = 2 + x /\ read_u16(e, 0) = x
      /\ \A i \in 1..x : e[2 + i] = E[i]
  <2> HIDE DEF E
  <2>1. x = Len(E)
    BY Zenon DEF E, ExtensionsLen
  <2> HIDE DEF x
  <2>2. /\ e \in Seq(Nat) /\ Len(E) \in Nat /\ Len(e) = 2 + Len(E) /\ read_u16(e, 0) = Len(E)
        /\ \A i \in 1..Len(E) : e[2 + i] = E[i]
    BY <1>2, Vector16Layout, Zenon
  <2> HIDE DEF e
  <2> QED BY <2>1, <2>2, Zenon
<1>8. v = a \o b \o k \o d \o e
  BY Zenon DEF HelloBody
<1> HIDE DEF a, b, k, d, e, v, x, E
<1>9. /\ v \in Seq(Nat)
      /\ Len(v) = Len(a) + Len(b) + Len(k) + Len(d) + Len(e)
      /\ \A i \in 1..Len(b) : v[Len(a) + i] = b[i]
      /\ \A i \in 1..Len(k) : v[Len(a) + Len(b) + i] = k[i]
      /\ \A i \in 1..Len(d) : v[Len(a) + Len(b) + Len(k) + i] = d[i]
      /\ \A i \in 1..Len(e) : v[Len(a) + Len(b) + Len(k) + Len(d) + i] = e[i]
  <2>1. a \in Seq(Nat) /\ b \in Seq(Nat) /\ k \in Seq(Nat) /\ d \in Seq(Nat) /\ e \in Seq(Nat)
    BY <1>3, <1>4, <1>5, <1>6, <1>7, Zenon
  <2>2. FiveParts(a \o b \o k \o d \o e, a, b, k, d, e)
    BY <2>1, FiveJoined, Zenon
  <2>3. FiveParts(v, a, b, k, d, e)
    BY <1>8, <2>2, Zenon
  <2> QED BY <2>3, Zenon DEF FiveParts
<1> DEFINE la == Len(a)
           lb == Len(b)
           lk == Len(k)
           ld == Len(d)
           le == Len(e)
           pk == la + lb
           pd == pk + lk
           pe == pd + ld
<1>10. la = 34 /\ lb = 1 + s /\ lk = 2 + c /\ ld = 2 /\ le = 2 + x /\ s \in Nat /\ c \in Nat /\ x \in Nat
  BY <1>3, <1>4, <1>5, <1>6, <1>7, Zenon
<1>11. /\ \A i \in 1..lb : v[la + i] = b[i]
       /\ \A i \in 1..lk : v[pk + i] = k[i]
       /\ \A i \in 1..ld : v[pd + i] = d[i]
       /\ \A i \in 1..le : v[pe + i] = e[i]
       /\ Len(v) = pe + le
  BY <1>9, Zenon
<1> HIDE DEF la, lb, lk, ld, le
<1>12. 1 \in 1..lb /\ 1 \in 1..lk /\ 2 \in 1..lk /\ 1 \in 1..ld /\ 1 \in 1..le /\ 2 \in 1..le
  BY <1>10
<1>13. pk = 35 + s /\ pd + 1 = 38 + s + c /\ pe = 39 + s + c /\ la + 1 = 35 /\ pe + le = 41 + s + c + x
  BY <1>10
<1> HIDE DEF pk, pd, pe
<1>14. /\ v[la + 1] = b[1] /\ v[pk + 1] = k[1] /\ v[pk + 2] = k[2] /\ v[pd + 1] = d[1]
       /\ v[pe + 1] = e[1] /\ v[pe + 2] = e[2]
  BY <1>11, <1>12, Zenon
<1>15. v[35] = s /\ v[38 + s + c] = 1 /\ Len(v) = 41 + s + c + x
  <2>1. b[1] = s /\ d[1] = 1
    BY <1>4, <1>6, Zenon
  <2> QED BY <2>1, <1>11, <1>13, <1>14, Zenon
<1>16. read_u16(v, 35 + s) = c
  <2>1. k[0 + 1] = k[1] /\ k[0 + 2] = k[2]
    OBVIOUS
  <2>2. read_u16(v, pk) = read_u16(k, 0)
    BY <2>1, <1>14 DEF read_u16
  <2> QED BY <2>2, <1>5, <1>13, Zenon
<1>17. read_u16(v, 39 + s + c) = x
  <2>1. e[0 + 1] = e[1] /\ e[0 + 2] = e[2]
    OBVIOUS
  <2>2. read_u16(v, pe) = read_u16(e, 0)
    BY <2>1, <1>14 DEF read_u16
  <2> QED BY <2>2, <1>7, <1>13, Zenon
<1>18. ASSUME NEW i \in 1..x PROVE v[41 + s + c + i] = E[i]
  <2>1. pe + (2 + i) = 41 + s + c + i /\ 2 + i \in 1..le
    BY <1>10, <1>13
  <2>2. v[pe + (2 + i)] = e[2 + i]
    BY <2>1, <1>11, Zenon
  <2>3. e[2 + i] = E[i]
    BY <1>7, Zenon
  <2> QED BY <2>1, <2>2, <2>3, Zenon
<1> QED BY <1>2, <1>9, <1>10, <1>15, <1>16, <1>17, <1>18, Zenon DEF v, E, s, c, x

(* The same in the bytes of the hello. *)
LEMMA HelloLayout ==
    ASSUME NEW h \in Hellos
    PROVE  LET s == SessionLen(h)
               c == CiphersLen(h)
               x == ExtensionsLen(h)
           IN  /\ s \in Nat /\ c \in Nat /\ x \in Nat
               /\ ExtensionsBytes(h.extensions) \in Seq(Nat)
               /\ HelloBytes(h) \in Seq(Nat)
               /\ Len(HelloBytes(h)) = 50 + s + c + x
               /\ HelloBytes(h)[1] = 22
               /\ HelloBytes(h)[6] = 1
               /\ HelloBytes(h)[44] = s
               /\ read_u16(HelloBytes(h), 44 + s) = c
               /\ HelloBytes(h)[47 + s + c] = 1
               /\ read_u16(HelloBytes(h), 48 + s + c) = x
               /\ \A i \in 1..x : HelloBytes(h)[50 + s + c + i] = ExtensionsBytes(h.extensions)[i]
<1> DEFINE s == SessionLen(h)
           c == CiphersLen(h)
           x == ExtensionsLen(h)
           E == ExtensionsBytes(h.extensions)
           b == HelloBody(h)
           v == HelloBytes(h)
           w == Vector16(b)
           y == <<1, 0>> \o w
           z == Vector16(y)
<1>1. /\ s \in Nat /\ c \in Nat /\ x \in Nat /\ E \in Seq(Nat) /\ b \in Seq(Nat)
      /\ Len(b) = 41 + s + c + x /\ b[35] = s /\ read_u16(b, 35 + s) = c
      /\ b[38 + s + c] = 1 /\ read_u16(b, 39 + s + c) = x
      /\ \A i \in 1..x : b[41 + s + c + i] = E[i]
  BY BodyLayout, Zenon
<1> HIDE DEF b, E, s, c, x
<1>2. b \in Seq(Nat)
  BY <1>1, Zenon
<1>3. /\ w \in Seq(Nat) /\ Len(w) = 2 + Len(b) /\ \A i \in 1..Len(b) : w[2 + i] = b[i]
  BY <1>2, Vector16Layout, Zenon
<1> DEFINE lb == Len(b)
<1>4. s \in Nat /\ c \in Nat /\ x \in Nat /\ lb \in Nat /\ lb = 41 + s + c + x
  <2>1. s \in Nat /\ c \in Nat /\ x \in Nat /\ lb = 41 + s + c + x
    BY <1>1, Zenon
  <2> HIDE DEF lb
  <2> QED BY <2>1
<1> HIDE DEF w
<1>5. y \in Seq(Nat) /\ Len(y) = 4 + lb /\ y[1] = 1 /\ \A i \in 1..lb : y[4 + i] = b[i]
  <2> DEFINE u == <<1, 0>>
  <2>1. u \in Seq(Nat) /\ Len(u) = 2 /\ u[1] = 1
    OBVIOUS
  <2> HIDE DEF u
  <2>2. /\ u \o w \in Seq(Nat) /\ Len(u \o w) = Len(u) + Len(w)
        /\ \A i \in 1..Len(u) : (u \o w)[i] = u[i]
        /\ \A i \in 1..Len(w) : (u \o w)[Len(u) + i] = w[i]
    <3>1. u \in Seq(Nat) /\ w \in Seq(Nat)
      BY <2>1, <1>3, Zenon
    <3> QED BY <3>1, Joined
  <2>3. y = u \o w
    BY Zenon DEF u
  <2> HIDE DEF y
  <2>4. /\ y \in Seq(Nat) /\ Len(y) = 2 + (2 + lb)
        /\ \A i \in 1..2 : y[i] = u[i]
        /\ \A i \in 1..(2 + lb) : y[2 + i] = w[i]
    BY <1>3, <2>1, <2>2, <2>3, Zenon
  <2> HIDE DEF lb
  <2>5. ASSUME NEW i \in 1..lb PROVE y[4 + i] = w[2 + i]
    <3>1. 2 + i \in 1..(2 + lb) /\ 2 + (2 + i) = 4 + i
      BY <1>4
    <3> QED BY <3>1, <2>4, Zenon
  <2>6. 2 + (2 + lb) = 4 + lb /\ 1 \in 1..2
    BY <1>4
  <2>7. Len(y) = 4 + lb /\ y[1] = 1
    BY <2>1, <2>4, <2>6, Zenon
  <2> QED BY <1>3, <2>4, <2>5, <2>7, Zenon DEF lb
<1> HIDE DEF y, lb
<1>6. /\ z \in Seq(Nat) /\ Len(z) = 2 + Len(y) /\ \A i \in 1..Len(y) : z[2 + i] = y[i]
  <2>1. y \in Seq(Nat)
    BY <1>5, Zenon
  <2> QED BY <2>1, Vector16Layout, Zenon
<1> HIDE DEF z
<1>7. /\ Len(z) = 2 + (4 + lb)
      /\ \A i \in 1..(4 + lb) : z[2 + i] = y[i]
  BY <1>5, <1>6, Zenon
<1>8. /\ v \in Seq(Nat) /\ Len(v) = 3 + (2 + (4 + lb)) /\ v[1] = 22
      /\ \A i \in 1..(2 + (4 + lb)) : v[3 + i] = z[i]
  <2> DEFINE u == <<22, 3, 1>>
  <2>1. u \in Seq(Nat) /\ Len(u) = 3 /\ u[1] = 22 /\ 1 \in 1..3
    OBVIOUS
  <2>2. v = u \o z
    BY Zenon DEF HelloBytes, z, y, w, b
  <2> HIDE DEF u, v
  <2>3. /\ v \in Seq(Nat) /\ Len(v) = Len(u) + Len(z)
        /\ \A i \in 1..Len(u) : v[i] = u[i]
        /\ \A i \in 1..Len(z) : v[Len(u) + i] = z[i]
    <3>1. u \in Seq(Nat) /\ z \in Seq(Nat)
      BY <2>1, <1>6, Zenon
    <3> QED BY <3>1, <2>2, Joined
  <2> QED BY <1>7, <2>1, <2>3, Zenon
<1> HIDE DEF v
<1>9. ASSUME NEW i \in 1..(4 + lb) PROVE v[5 + i] = y[i]
  <2>1. 2 + i \in 1..(2 + (4 + lb)) /\ 3 + (2 + i) = 5 + i
    BY <1>4
  <2>2. v[3 + (2 + i)] = z[2 + i]
    BY <2>1, <1>8, Zenon
  <2> QED BY <2>1, <2>2, <1>7, Zenon
<1>10. ASSUME NEW i \in 1..lb PROVE v[9 + i] = b[i]
  <2>1. 4 + i \in 1..(4 + lb) /\ 5 + (4 + i) = 9 + i
    BY <1>4
  <2>2. v[5 + (4 + i)] = y[4 + i]
    BY <2>1, <1>9, Zenon
  <2> QED BY <2>1, <2>2, <1>5, Zenon
<1>11. v[6] = 1
  <2>1. 1 \in 1..(4 + lb) /\ 5 + 1 = 6
    BY <1>4
  <2>2. v[5 + 1] = y[1]
    BY <2>1, <1>9, Zenon
  <2> QED BY <2>1, <2>2, <1>5, Zenon
<1>12. ASSUME NEW k \in Nat, k + 2 <= lb PROVE read_u16(v, 9 + k) = read_u16(b, k)
  <2>1. k + 1 \in 1..lb /\ k + 2 \in 1..lb /\ 9 + (k + 1) = 9 + k + 1 /\ 9 + (k + 2) = 9 + k + 2
    BY <1>4, <1>12
  <2>2. v[9 + (k + 1)] = b[k + 1] /\ v[9 + (k + 2)] = b[k + 2]
    BY <2>1, <1>10, Zenon
  <2>3. v[9 + k + 1] = b[k + 1] /\ v[9 + k + 2] = b[k + 2]
    BY <2>1, <2>2, Zenon
  <2> QED BY <2>3 DEF read_u16
<1>13. /\ 35 \in 1..lb /\ 9 + 35 = 44
       /\ 38 + s + c \in 1..lb /\ 9 + (38 + s + c) = 47 + s + c
       /\ 35 + s \in Nat /\ (35 + s) + 2 <= lb /\ 9 + (35 + s) = 44 + s
       /\ 39 + s + c \in Nat /\ (39 + s + c) + 2 <= lb /\ 9 + (39 + s + c) = 48 + s + c
       /\ 3 + (2 + (4 + lb)) = 50 + s + c + x
  BY <1>4
<1>14. v[9 + 35] = b[35] /\ v[9 + (38 + s + c)] = b[38 + s + c]
  BY <1>10, <1>13, Zenon
<1>15. v[44] = s /\ v[47 + s + c] = 1 /\ Len(v) = 50 + s + c + x
  <2>1. b[35] = s /\ 9 + 35 = 44
    BY <1>1, <1>13, Zenon
  <2>2. v[44] = s
    BY <1>14, <2>1, Zenon
  <2>3. b[38 + s + c] = 1 /\ 9 + (38 + s + c) = 47 + s + c
    BY <1>1, <1>13, Zenon
  <2>4. v[47 + s + c] = 1
    BY <1>14, <2>3, Zenon
  <2>5. 3 + (2 + (4 + lb)) = 50 + s + c + x
    BY <1>13, Zenon
  <2>6. Len(v) = 50 + s + c + x
    BY <1>8, <2>5, Zenon
  <2> QED BY <2>2, <2>4, <2>6, Zenon
<1>16. read_u16(v, 44 + s) = c
  <2> DEFINE p == 35 + s
  <2>1. p \in Nat /\ p + 2 <= lb /\ 9 + p = 44 + s
    BY <1>13, Zenon
  <2>2. read_u16(b, p) = c
    BY <1>1, Zenon
  <2> HIDE DEF p
  <2>3. read_u16(v, 9 + p) = read_u16(b, p)
    BY <2>1, <1>12, Zenon
  <2> QED BY <2>1, <2>2, <2>3, Zenon
<1>17. read_u16(v, 48 + s + c) = x
  <2> DEFINE p == 39 + s + c
  <2>1. p \in Nat /\ p + 2 <= lb /\ 9 + p = 48 + s + c
    BY <1>13, Zenon
  <2>2. read_u16(b, p) = x
    BY <1>1, Zenon
  <2> HIDE DEF p
  <2>3. read_u16(v, 9 + p) = read_u16(b, p)
    BY <2>1, <1>12, Zenon
  <2> QED BY <2>1, <2>2, <2>3, Zenon
<1>18. ASSUME NEW i \in 1..x PROVE v[50 + s + c + i] = E[i]
  <2>1. 41 + s + c + i \in 1..lb /\ 9 + (41 + s + c + i) = 50 + s + c + i
    BY <1>4
  <2>2. v[9 + (41 + s + c + i)] = b[41 + s + c + i]
    BY <2>1, <1>10, Zenon
  <2>3. b[41 + s + c + i] = E[i]
    BY <1>1, Zenon
  <2> QED BY <2>1, <2>2, <2>3, Zenon
<1> QED BY <1>1, <1>8, <1>11, <1>15, <1>16, <1>17, <1>18, Zenon DEF v, E, s, c, x

(* The cursor after p bytes of a buffer: Fail when it has fewer. *)
At(buffer, p) == IF p <= Len(buffer) THEN p ELSE Fail

(* Parser::skip of the headers, the version and the random fails when the  *)
(* buffer is shorter than they are.                                        *)
LEMMA SkipFixed ==
    ASSUME NEW b \in Seq(Nat), NEW k \in Nat
    PROVE  skip(b, 0, k) = At(b, k)
BY DEF skip, At, Has, Fail

(* The skip of a vector with a length of one byte (the session, the        *)
(* compression methods) ends behind it, or fails when the buffer ends      *)
(* before.                                                                 *)
LEMMA SkipVector8 ==
    ASSUME NEW b \in Seq(Nat), NEW p \in Nat, NEW l \in Nat, p + 1 <= Len(b) => b[p + 1] = l
    PROVE  skip_vector8(b, At(b, p)) = At(b, p + 1 + l)
<1> DEFINE n == Len(b)
<1>1. n \in Nat
  OBVIOUS
<1>2. n = Len(b)
  OBVIOUS
<1> HIDE DEF n
<1>3. CASE p + 1 <= n
  <2>1. At(b, p) = p /\ Has(b, p, 1) /\ read_u8(b, p) = l
    BY <1>1, <1>2, <1>3 DEF At, Has, Fail, read_u8
  <2>2. skip_vector8(b, At(b, p)) = skip(b, p + 1, l)
    BY <2>1, Zenon DEF skip_vector8
  <2>3. skip(b, p + 1, l) = At(b, p + 1 + l)
    BY <1>1, <1>2 DEF skip, At, Has, Fail
  <2> QED BY <2>2, <2>3, Zenon
<1>4. CASE ~(p + 1 <= n)
  <2>1. ~Has(b, At(b, p), 1)
    BY <1>1, <1>2, <1>4 DEF At, Has, Fail
  <2>2. skip_vector8(b, At(b, p)) = Fail
    BY <2>1, Zenon DEF skip_vector8
  <2>3. At(b, p + 1 + l) = Fail
    BY <1>1, <1>2, <1>4 DEF At
  <2> QED BY <2>2, <2>3, Zenon
<1> QED BY <1>3, <1>4, Zenon

(* The skip of a vector with a length of two bytes (the ciphers) ends      *)
(* behind it, or fails when the buffer ends before.                        *)
LEMMA SkipVector16 ==
    ASSUME NEW b \in Seq(Nat), NEW p \in Nat, NEW l \in Nat, p + 2 <= Len(b) => read_u16(b, p) = l
    PROVE  skip_vector16(b, At(b, p)) = At(b, p + 2 + l)
<1> DEFINE n == Len(b)
<1>1. n \in Nat
  OBVIOUS
<1>2. n = Len(b)
  OBVIOUS
<1> HIDE DEF n
<1>3. CASE p + 2 <= n
  <2>1. At(b, p) = p /\ Has(b, p, 2) /\ read_u16(b, p) = l
    BY <1>1, <1>2, <1>3 DEF At, Has, Fail
  <2>2. skip_vector16(b, At(b, p)) = skip(b, p + 2, l)
    BY <2>1, Zenon DEF skip_vector16
  <2>3. skip(b, p + 2, l) = At(b, p + 2 + l)
    BY <1>1, <1>2 DEF skip, At, Has, Fail
  <2> QED BY <2>2, <2>3, Zenon
<1>4. CASE ~(p + 2 <= n)
  <2>1. ~Has(b, At(b, p), 2)
    BY <1>1, <1>2, <1>4 DEF At, Has, Fail
  <2>2. skip_vector16(b, At(b, p)) = Fail
    BY <2>1, Zenon DEF skip_vector16
  <2>3. At(b, p + 2 + l) = Fail
    BY <1>1, <1>2, <1>4 DEF At
  <2> QED BY <2>2, <2>3, Zenon
<1> QED BY <1>3, <1>4, Zenon

(* What was peeked at has the bytes of the hello as far as both go. *)
LEMMA PeekedLayout ==
    ASSUME NEW h \in Hellos, NEW n \in Nat
    PROVE  /\ Peeked(h, n) \in Seq(Nat)
           /\ Len(Peeked(h, n)) = n
           /\ \A i \in 1..n : i <= Len(HelloBytes(h)) => Peeked(h, n)[i] = HelloBytes(h)[i]
<1> DEFINE v == HelloBytes(h)
           L == Len(v)
<1>1. v \in Seq(Nat)
  BY HelloLayout, Zenon
<1> HIDE DEF v
<1>2. L \in Nat
  BY <1>1
<1>3. CASE n <= L
  <2>1. Peeked(h, n) = SubSeq(v, 1, n)
    BY <1>3, Zenon DEF Peeked, v
  <2>2. SubSeq(v, 1, n) \in Seq(Nat) /\ Len(SubSeq(v, 1, n)) = n /\ \A i \in 1..n : SubSeq(v, 1, n)[i] = v[i]
    BY <1>1, <1>3
  <2> QED BY <2>1, <2>2, Zenon DEF v
<1>4. CASE ~(n <= L)
  <2> DEFINE z == [i \in 1..(n - L) |-> 0]
  <2>1. Peeked(h, n) = v \o z
    BY <1>4, Zenon DEF Peeked, v
  <2>2. z \in Seq(Nat) /\ Len(z) = n - L
    BY <1>2, <1>4
  <2> HIDE DEF z
  <2>3. v \o z \in Seq(Nat) /\ Len(v \o z) = Len(v) + Len(z) /\ \A i \in 1..Len(v) : (v \o z)[i] = v[i]
    BY <1>1, <2>2, Joined
  <2>4. L + (n - L) = n
    BY <1>2
  <2>5. Len(v \o z) = n
    BY <2>2, <2>3, <2>4, Zenon
  <2>6. \A i \in 1..n : i <= L => i \in 1..L
    BY <1>2
  <2> QED BY <2>1, <2>3, <2>5, <2>6, Zenon DEF v
<1> QED BY <1>3, <1>4, Zenon

(* Where parse_sni's cursor stands before the extensions. *)
Cursor(b) ==
    skip_vector8(b, skip_vector16(b, skip_vector8(b, skip(b, 0, RecordHeader + HandshakeHeader + VersionAndRandom))))

(* On what was peeked at of a hello the four skips of parse_sni lead to    *)
(* its extensions, or fail when they have not arrived.                     *)
LEMMA CursorAtExtensions ==
    ASSUME NEW h \in Hellos, NEW n \in Nat
    PROVE  Cursor(Peeked(h, n)) = At(Peeked(h, n), 48 + SessionLen(h) + CiphersLen(h))
<1> DEFINE s == SessionLen(h)
           c == CiphersLen(h)
           x == ExtensionsLen(h)
           v == HelloBytes(h)
           b == Peeked(h, n)
<1>1. /\ s \in Nat /\ c \in Nat /\ x \in Nat
      /\ Len(v) = 50 + s + c + x
      /\ v[44] = s /\ read_u16(v, 44 + s) = c /\ v[47 + s + c] = 1
  BY HelloLayout, Zenon
<1>2. b \in Seq(Nat) /\ Len(b) = n /\ \A i \in 1..n : i <= Len(v) => b[i] = v[i]
  BY PeekedLayout, Zenon
<1> HIDE DEF s, c, x, v, b
<1>3. s \in Nat /\ c \in Nat /\ x \in Nat /\ b \in Seq(Nat)
  BY <1>1, <1>2, Zenon
<1>4. ASSUME NEW i \in Nat, 1 <= i, i <= n, i <= 50 + s + c + x PROVE b[i] = v[i]
  <2>1. i \in 1..n
    BY <1>4
  <2> QED BY <1>1, <1>2, <1>4, <2>1, Zenon
<1>5. skip(b, 0, RecordHeader + HandshakeHeader + VersionAndRandom) = At(b, 43)
  <2>1. RecordHeader + HandshakeHeader + VersionAndRandom = 43 /\ 43 \in Nat
    BY DEF RecordHeader, HandshakeHeader, VersionAndRandom
  <2> QED BY <1>3, <2>1, SkipFixed, Zenon
<1>6. skip_vector8(b, At(b, 43)) = At(b, 44 + s)
  <2> DEFINE p == 43
  <2>1. p \in Nat /\ p + 1 + s = 44 + s /\ p + 1 = 44 /\ 44 \in Nat /\ 1 <= 44 /\ 44 <= 50 + s + c + x
    BY <1>3
  <2>2. 44 <= n => b[44] = s
    BY <2>1, <1>1, <1>4, Zenon
  <2>3. p + 1 <= Len(b) => b[p + 1] = s
    BY <2>1, <2>2, <1>2, Zenon
  <2> HIDE DEF p
  <2>4. p \in Nat /\ p + 1 + s = 44 + s
    BY <2>1, Zenon
  <2>5. skip_vector8(b, At(b, p)) = At(b, p + 1 + s)
    <3>1. p \in Nat
      BY <2>4, Zenon
    <3> QED BY <3>1, <1>3, <2>3, SkipVector8, Zenon
  <2>6. skip_vector8(b, At(b, p)) = At(b, 44 + s)
    BY <2>4, <2>5, Zenon
  <2> QED BY <2>6, Zenon DEF p
<1>7. skip_vector16(b, At(b, 44 + s)) = At(b, 46 + s + c)
  <2> DEFINE p == 44 + s
  <2>1. /\ p \in Nat /\ p + 2 + c = 46 + s + c
        /\ p + 1 \in Nat /\ 1 <= p + 1 /\ p + 1 <= 50 + s + c + x
        /\ p + 2 \in Nat /\ 1 <= p + 2 /\ p + 2 <= 50 + s + c + x
        /\ (p + 2 <= n => p + 1 <= n)
    BY <1>3
  <2>2. read_u16(v, p) = c
    BY <1>1, Zenon
  <2> HIDE DEF p
  <2>3. p + 2 <= n => b[p + 1] = v[p + 1] /\ b[p + 2] = v[p + 2]
    BY <2>1, <1>4, Zenon
  <2>4. p + 2 <= n => read_u16(b, p) = read_u16(v, p)
    BY <2>3 DEF read_u16
  <2>5. p + 2 <= Len(b) => read_u16(b, p) = c
    BY <2>2, <2>4, <1>2, Zenon
  <2>6. skip_vector16(b, At(b, p)) = At(b, p + 2 + c)
    BY <1>3, <2>1, <2>5, SkipVector16, Zenon
  <2>7. skip_vector16(b, At(b, p)) = At(b, 46 + s + c)
    BY <2>1, <2>6, Zenon
  <2> QED BY <2>7, Zenon DEF p
<1>8. skip_vector8(b, At(b, 46 + s + c)) = At(b, 48 + s + c)
  <2> DEFINE p == 46 + s + c
             q == 47 + s + c
  <2>1. p \in Nat /\ 1 \in Nat /\ p + 1 + 1 = 48 + s + c /\ p + 1 = q /\ q \in Nat /\ 1 <= q /\ q <= 50 + s + c + x
    BY <1>3
  <2>2. v[q] = 1
    BY <1>1, Zenon
  <2> HIDE DEF p, q
  <2>3. q <= n => b[q] = 1
    BY <2>1, <2>2, <1>4, Zenon
  <2>4. p + 1 <= Len(b) => b[p + 1] = 1
    BY <2>1, <2>3, <1>2, Zenon
  <2>5. skip_vector8(b, At(b, p)) = At(b, p + 1 + 1)
    BY <1>3, <2>1, <2>4, SkipVector8, Zenon
  <2>6. skip_vector8(b, At(b, p)) = At(b, 48 + s + c)
    BY <2>1, <2>5, Zenon
  <2> QED BY <2>6, Zenon DEF p
<1>9. Cursor(b) = At(b, 48 + s + c)
  BY <1>5, <1>6, <1>7, <1>8, Zenon DEF Cursor
<1> QED BY <1>9, Zenon DEF b, s, c

(* parse_sni on the first n bytes of a hello, or on the whole of it and    *)
(* what follows: no name while a byte is missing, and otherwise the name   *)
(* that is asked for.                                                      *)
LEMMA HelloRead ==
    ASSUME NEW h \in Hellos, NEW n \in Nat
    PROVE  parse_sni(Peeked(h, n)) = IF n < Len(HelloBytes(h)) THEN NoName ELSE NameAskedFor(h)
<1> DEFINE s == SessionLen(h)
           c == CiphersLen(h)
           x == ExtensionsLen(h)
           E == ExtensionsBytes(h.extensions)
           v == HelloBytes(h)
           b == Peeked(h, n)
           k == Cursor(b)
           e == 48 + s + c
           L == Len(v)
<1>1. /\ s \in Nat /\ c \in Nat /\ x \in Nat /\ E \in Seq(Nat)
      /\ L = 50 + s + c + x /\ v[1] = 22 /\ v[6] = 1
      /\ read_u16(v, 48 + s + c) = x
      /\ \A i \in 1..x : v[50 + s + c + i] = E[i]
  BY HelloLayout, Zenon
<1>2. b \in Seq(Nat) /\ Len(b) = n /\ \A i \in 1..n : i <= L => b[i] = v[i]
  BY PeekedLayout, Zenon
<1>3. k = At(b, e)
  BY CursorAtExtensions, Zenon
<1>4. x = Len(E)
  BY Zenon DEF ExtensionsLen
<1>5. find_server_name(E)[0] = NameAskedFor(h)
  <2>1. h.extensions \in Seq(Extensions)
    BY Zenon DEF Hellos
  <2> QED BY <2>1, AskedForIsRead, Zenon
<1>6. parse_sni(b) =
        IF \/ ~Has(b, k, 2) \/ read_u8(b, 0) # 22 \/ read_u8(b, RecordHeader) # 1
           \/ ~Has(b, k + 2, read_u16(b, k))
          THEN NoName
          ELSE find_server_name(read_slice(b, k + 2, read_u16(b, k)))[0]
  BY Zenon DEF parse_sni, Cursor
<1> HIDE DEF s, c, x, E, v, b, k
<1>7. /\ e \in Nat /\ e + 2 \in Nat /\ L \in Nat /\ L = e + 2 + x /\ 50 + s + c = e + 2
      /\ read_u16(v, e) = x
  <2>1. s \in Nat /\ c \in Nat /\ x \in Nat /\ L = 50 + s + c + x
    BY <1>1, Zenon
  <2> HIDE DEF L
  <2>2. e \in Nat /\ e + 2 \in Nat /\ L \in Nat /\ L = e + 2 + x /\ 50 + s + c = e + 2
    BY <2>1
  <2>3. read_u16(v, e) = x
    BY <1>1, Zenon
  <2> QED BY <2>2, <2>3, Zenon
<1>8. e >= 6
  <2>1. s \in Nat /\ c \in Nat
    BY <1>1, Zenon
  <2> QED BY <2>1
<1>9. \A i \in 1..x : v[(e + 2) + i] = E[i]
  BY <1>1, <1>7, Zenon
<1>10. x \in Nat /\ E \in Seq(Nat) /\ v[1] = 22 /\ v[6] = 1
  BY <1>1, Zenon
<1> HIDE DEF e, L
<1>11. ASSUME e + 2 <= n
       PROVE  k = e /\ Has(b, k, 2) /\ read_u16(b, k) = x
  <2> DEFINE m == Len(b)
  <2>1. m = n /\ m = Len(b)
    BY <1>2, Zenon
  <2> HIDE DEF m
  <2>2. k = e
    BY <1>3, <1>7, <1>11, <2>1 DEF At
  <2>3. Has(b, e, 2)
    BY <1>7, <1>11, <2>1 DEF Has, Fail
  <2>4. /\ e + 1 \in 1..n /\ e + 2 \in 1..n /\ e + 1 <= L /\ e + 2 <= L
    BY <1>7, <1>10, <1>11
  <2>5. b[e + 1] = v[e + 1] /\ b[e + 2] = v[e + 2]
    BY <1>2, <2>4, Zenon
  <2>6. read_u16(b, e) = read_u16(v, e)
    BY <2>5 DEF read_u16
  <2> QED BY <1>7, <2>2, <2>3, <2>6, Zenon
<1>12. ASSUME ~(e + 2 <= n)
       PROVE  ~Has(b, k, 2)
  <2> DEFINE m == Len(b)
  <2>1. m = n /\ m = Len(b)
    BY <1>2, Zenon
  <2> HIDE DEF m
  <2> QED BY <1>3, <1>7, <1>12, <2>1 DEF At, Has, Fail
<1>13. Has(b, e + 2, x) <=> L <= n
  <2> DEFINE m == Len(b)
  <2>1. m = n /\ m = Len(b)
    BY <1>2, Zenon
  <2> HIDE DEF m
  <2> QED BY <1>7, <1>10, <2>1 DEF Has, Fail
<1>14. n < L <=> ~(L <= n)
  BY <1>7
<1>15. CASE n < L
  <2>1. parse_sni(b) = NoName
    BY <1>6, <1>11, <1>12, <1>13, <1>14, <1>15, Zenon
  <2> QED BY <2>1, <1>15, Zenon DEF b, L, v
<1>16. CASE ~(n < L)
  <2>1. L <= n /\ e + 2 <= n /\ 1 \in 1..n /\ 6 \in 1..n /\ 1 <= L /\ 6 <= L
    BY <1>7, <1>8, <1>10, <1>16
  <2>2. b[1] = 22 /\ b[6] = 1
    BY <1>2, <1>10, <2>1, Zenon
  <2>3. read_u8(b, 0) = 22 /\ read_u8(b, RecordHeader) = 1
    <3>1. 0 + 1 = 1 /\ RecordHeader + 1 = 6
      BY DEF RecordHeader
    <3> QED BY <3>1, <2>2, Zenon DEF read_u8
  <2>4. k = e /\ Has(b, k, 2) /\ read_u16(b, k) = x /\ Has(b, e + 2, x)
    BY <1>11, <1>13, <2>1, Zenon
  <2>5. Has(b, k + 2, read_u16(b, k))
    BY <2>4, Zenon
  <2>6. parse_sni(b) = find_server_name(read_slice(b, k + 2, read_u16(b, k)))[0]
    BY <1>6, <2>3, <2>4, <2>5, Zenon
  <2>7. read_slice(b, e + 2, x) = E
    <3> DEFINE p == e + 2
    <3>1. p \in Nat /\ p + x = L
      BY <1>7, Zenon
    <3> HIDE DEF p
    <3>2. ASSUME NEW i \in 1..x PROVE p + i \in 1..n /\ p + i <= L
      BY <3>1, <2>1, <1>7, <1>10
    <3>3. ASSUME NEW i \in 1..x PROVE b[p + i] = E[i]
      <4>1. v[p + i] = E[i]
        BY <1>9, Zenon DEF p
      <4> QED BY <3>2, <4>1, <1>2, Zenon
    <3>4. p + Len(E) <= Len(b) /\ \A i \in 1..Len(E) : b[p + i] = E[i]
      BY <3>1, <3>3, <2>1, <1>2, <1>4, Zenon
    <3>5. SubSeq(b, p + 1, p + Len(E)) = E
      BY <3>1, <3>4, <1>2, <1>10, SlicePart, Zenon
    <3>6. SubSeq(b, p + 1, p + x) = E
      BY <3>5, <1>4, Zenon
    <3>7. read_slice(b, p, x) = E
      BY <3>6, Zenon DEF read_slice
    <3> QED BY <3>7, Zenon DEF p
  <2>8. parse_sni(b) = NameAskedFor(h)
    BY <1>5, <2>4, <2>6, <2>7, Zenon
  <2> QED BY <2>8, <1>16, Zenon DEF b, L, v
<1> QED BY <1>15, <1>16, Zenon

(* On whatever part of a ClientHello handle_connection peeks at, and       *)
(* whatever follows it, parse_sni finds the name that is asked for exactly *)
(* when all of the hello has arrived. The hello has a session, ciphers,    *)
(* extensions and names of any number and length. Nothing bounds a length, *)
(* so a number that stands for one in the bytes may be larger than a byte  *)
(* or two can say: the hellos that exist are among these.                  *)
THEOREM PeekedHelloRead ==
    ASSUME NEW h \in Hellos, NEW n \in Nat, input = HelloInput(h, n)
    PROVE  SniRead
<1>1. input.kind = "hello" /\ input.hello = h /\ input.arrived = n
  BY DEF HelloInput
<1> QED BY <1>1, HelloRead, Zenon DEF SniRead
=============================================================================
