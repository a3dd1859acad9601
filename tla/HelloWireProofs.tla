--------------------------- MODULE HelloWireProofs ---------------------------
(***************************************************************************)
(* Proofs about HelloWire for any byte strings, fields and messages: the   *)
(* parser reads what the wire format says, and writing is its inverse.     *)
(*                                                                         *)
(* The library's induction theorems take a predicate.  The ones here take  *)
(* a set, which is all that first-order provers need.                      *)
(***************************************************************************)
EXTENDS HelloWire, FiniteSetTheorems, SequenceTheorems, TLAPS

(* Induction and recursion. *)

\* A set that has n whenever it has the numbers below n has all numbers.
LEMMA Induction ==
  ASSUME NEW G, \A n \in Nat : (\A k \in Nat : k < n => k \in G) => n \in G
  PROVE  \A n \in Nat : n \in G
<1> DEFINE R == OpToRel(<, Nat)
           Bad == Nat \ G
<1>1. IsWellFoundedOn(R, Nat)
  BY NatLessThanWellFounded
<1>2. \A x, y \in Nat : <<y, x>> \in R <=> y < x
  BY DEF OpToRel
<1> HIDE DEF R
<1>3. SUFFICES ASSUME Bad # {}
               PROVE  FALSE
  OBVIOUS
<1>4. PICK n \in Bad : \A k \in Bad : ~ (<<k, n>> \in R)
  <2>1. Bad \subseteq Nat
    OBVIOUS
  <2> HIDE DEF Bad
  <2> QED BY <1>1, <1>3, <2>1, WFMin
<1>5. \A k \in Nat : k < n => k \in G
  BY <1>2, <1>4
<1> QED BY <1>4, <1>5

\* A recursive definition whose argument gets smaller: f of s is base[s], or
\* comb[s] of f of the next argument, step[s].
Recursive(S, T, Stop, base, step, comb, size) ==
  /\ base \in [S -> T] /\ step \in [S -> S] /\ comb \in [S -> [T -> T]]
  /\ size \in [S -> Nat]
  /\ \A s \in S : s \notin Stop => size[step[s]] < size[s]

Solution(f, S, Stop, base, step, comb) ==
  f = [s \in S |-> IF s \in Stop THEN base[s] ELSE comb[s][f[step[s]]]]

\* It has a solution.
LEMMA Recursion ==
  ASSUME NEW S, NEW T, NEW Stop, NEW base, NEW step, NEW comb, NEW size,
         Recursive(S, T, Stop, base, step, comb, size)
  PROVE  \E f \in [S -> T] : Solution(f, S, Stop, base, step, comb)
<1> USE DEF Recursive
<1> DEFINE Eq(f, s) == IF s \in Stop THEN base[s] ELSE comb[s][f[step[s]]]
           Upto(n) == {f \in [S -> T] : \A s \in S : size[s] < n => f[s] = Eq(f, s)}
<1>1. \A f \in [S -> T], s \in S : Eq(f, s) \in T
  OBVIOUS
<1>2. ASSUME NEW n \in Nat, NEW f \in Upto(n)
      PROVE  Upto(n + 1) # {}
  <2> DEFINE g == [s \in S |-> IF size[s] < n + 1 THEN Eq(f, s) ELSE base[s]]
  <2>1. g \in [S -> T]
    BY <1>1
  <2>2. ASSUME NEW s \in S, size[s] < n + 1
        PROVE  g[s] = Eq(g, s)
    <3>1. CASE s \in Stop
      BY <2>2, <3>1
    <3>2. CASE s \notin Stop
      <4> DEFINE t == step[s]
      <4>1. t \in S /\ size[t] \in Nat /\ size[s] \in Nat /\ size[t] < size[s]
        BY <3>2
      <4>2. size[t] < n /\ size[t] < n + 1
        BY <4>1, <2>2
      <4>3. g[t] = Eq(f, t) /\ f[t] = Eq(f, t)
        BY <4>1, <4>2
      <4> QED BY <2>2, <3>2, <4>3
    <3> QED BY <3>1, <3>2
  <2> QED BY <2>1, <2>2
<1>3. base \in Upto(0)
  OBVIOUS
<1> HIDE DEF Eq
<1>4. \A n \in Nat : Upto(n) # {}
  <2> DEFINE G == {n \in Nat : Upto(n) # {}}
  <2> HIDE DEF Upto
  <2>1. ASSUME NEW n \in Nat, \A k \in Nat : k < n => k \in G
        PROVE  n \in G
    <3>1. CASE n = 0
      BY <1>3, <3>1
    <3>2. CASE n # 0
      <4>1. n - 1 \in Nat /\ n - 1 < n /\ (n - 1) + 1 = n
        BY <3>2
      <4>2. PICK f : f \in Upto(n - 1)
        BY <2>1, <4>1
      <4>3. Upto(n) # {}
        BY <1>2, <4>1, <4>2
      <4> QED BY <4>3
    <3> QED BY <3>1, <3>2
  <2>2. \A n \in Nat : n \in G
    <3> HIDE DEF G
    <3> QED BY <2>1, Induction
  <2> QED BY <2>2
<1>5. ASSUME NEW n \in Nat, NEW m \in Nat, NEW f \in Upto(n), NEW g \in Upto(m)
      PROVE  \A s \in S : size[s] < n /\ size[s] < m => f[s] = g[s]
  <2> DEFINE G == {k \in Nat : \A s \in S : size[s] = k /\ k < n /\ k < m => f[s] = g[s]}
  <2>1. ASSUME NEW k \in Nat, \A j \in Nat : j < k => j \in G,
               NEW s \in S, size[s] = k, k < n, k < m
        PROVE  f[s] = g[s]
    <3>1. f[s] = Eq(f, s) /\ g[s] = Eq(g, s)
      BY <2>1
    <3>2. CASE s \in Stop
      BY <3>1, <3>2 DEF Eq
    <3>3. CASE s \notin Stop
      <4> DEFINE t == step[s]
      <4>1. t \in S /\ size[t] \in Nat /\ size[t] < k
        BY <2>1, <3>3
      <4>2. size[t] < n /\ size[t] < m
        BY <2>1, <4>1
      <4>3. f[t] = g[t]
        BY <2>1, <4>1, <4>2
      <4> QED BY <3>1, <3>3, <4>3 DEF Eq
    <3> QED BY <3>2, <3>3
  <2>2. \A k \in Nat : k \in G
    <3>1. ASSUME NEW k \in Nat, \A j \in Nat : j < k => j \in G
          PROVE  k \in G
      BY <2>1, <3>1
    <3> HIDE DEF G
    <3> QED BY <3>1, Induction
  <2> QED BY <2>2
<1> DEFINE pick(s) == CHOOSE f : f \in Upto(size[s] + 1)
           h == [s \in S |-> pick(s)[s]]
<1>6. \A s \in S : size[s] \in Nat /\ pick(s) \in Upto(size[s] + 1)
  <2> HIDE DEF Upto
  <2> QED BY <1>4
<1> HIDE DEF pick
<1>7. h \in [S -> T]
  BY <1>6
<1>8. ASSUME NEW s \in S
      PROVE  h[s] = Eq(h, s)
  <2>1. h[s] = Eq(pick(s), s)
    BY <1>6
  <2>2. CASE s \in Stop
    BY <2>1, <2>2 DEF Eq
  <2>3. CASE s \notin Stop
    <3> DEFINE u == step[s]
    <3>1. u \in S /\ size[u] \in Nat /\ size[s] \in Nat /\ size[u] < size[s]
      BY <2>3
    <3>2. size[u] < size[u] + 1 /\ size[u] < size[s] + 1
      BY <3>1
    <3>3. pick(u)[u] = pick(s)[u]
      <4> HIDE DEF Upto, u
      <4> QED BY <3>1, <3>2, <1>5, <1>6
    <3> QED BY <2>1, <2>3, <3>1, <3>3 DEF Eq
  <2> QED BY <2>2, <2>3
<1> QED BY <1>7, <1>8 DEF Eq, Solution
-----------------------------------------------------------------------------
(* The recursive functions of HelloWire are what their definitions say. *)

\* ReadVarint reads a byte and goes on with the others.
LEMMA ReadVarintDef ==
  ReadVarint = [b \in Seq(Nat) |->
    IF b = <<>> THEN 0 ELSE (Head(b) % 128) + 128 * ReadVarint[Tail(b)]]
<1> DEFINE base == [b \in Seq(Nat) |-> 0]
           step == [b \in Seq(Nat) |-> IF b = <<>> THEN b ELSE Tail(b)]
           low == [b \in Seq(Nat) |-> IF b = <<>> THEN 0 ELSE Head(b) % 128]
           comb == [b \in Seq(Nat) |-> [r \in Nat |-> low[b] + 128 * r]]
           size == [b \in Seq(Nat) |-> Len(b)]
<1>1. base \in [Seq(Nat) -> Nat] /\ size \in [Seq(Nat) -> Nat]
  OBVIOUS
<1>2. step \in [Seq(Nat) -> Seq(Nat)]
  OBVIOUS
<1>3. low \in [Seq(Nat) -> Nat]
  <2>1. \A b \in Seq(Nat) : b # <<>> => Head(b) \in Nat
    OBVIOUS
  <2>2. \A n \in Nat : n % 128 \in Nat
    OBVIOUS
  <2> QED BY <2>1, <2>2
<1>4. comb \in [Seq(Nat) -> [Nat -> Nat]]
  <2> HIDE DEF low
  <2> QED BY <1>3
<1>5. \A b \in Seq(Nat) : b \notin {<<>>} => size[step[b]] < size[b]
  OBVIOUS
<1>6. PICK f \in [Seq(Nat) -> Nat] : Solution(f, Seq(Nat), {<<>>}, base, step, comb)
  <2>1. Recursive(Seq(Nat), Nat, {<<>>}, base, step, comb, size)
    BY <1>1, <1>2, <1>4, <1>5 DEF Recursive
  <2> HIDE DEF base, step, comb, size
  <2> QED BY <2>1, Recursion
<1>7. ASSUME NEW b \in Seq(Nat)
      PROVE  f[b] = IF b = <<>> THEN 0 ELSE (Head(b) % 128) + 128 * f[Tail(b)]
  <2>1. CASE b = <<>>
    BY <1>6, <2>1 DEF Solution
  <2>2. CASE b # <<>>
    <3>1. Tail(b) \in Seq(Nat)
      BY <2>2
    <3>2. f[b] = comb[b][f[Tail(b)]]
      BY <1>6, <2>2, ZenonT(60) DEF Solution
    <3> QED BY <2>2, <3>1, <3>2
  <2> QED BY <2>1, <2>2
<1>8. \E g : g = [b \in Seq(Nat) |->
                    IF b = <<>> THEN 0 ELSE (Head(b) % 128) + 128 * g[Tail(b)]]
  <2>1. f = [b \in Seq(Nat) |->
                    IF b = <<>> THEN 0 ELSE (Head(b) % 128) + 128 * f[Tail(b)]]
    BY <1>7
  <2> QED BY <2>1
<1> QED BY <1>8 DEF ReadVarint

\* Numbers get smaller when they are divided by 128.
LEMMA Div128 ==
  ASSUME NEW n \in Nat, n >= 128
  PROVE  n \div 128 \in Nat /\ n \div 128 < n /\ n \div 128 >= 1
         /\ n % 128 \in 0..127 /\ n = 128 * (n \div 128) + (n % 128)
OBVIOUS

\* WriteVarint writes seven bits and goes on with the others.
LEMMA WriteVarintDef ==
  WriteVarint = [n \in Nat |->
    IF n < 128 THEN <<n>> ELSE <<128 + (n % 128)>> \o WriteVarint[n \div 128]]
<1> DEFINE base == [n \in Nat |-> <<n>>]
           step == [n \in Nat |-> n \div 128]
           comb == [n \in Nat |-> [r \in Seq(Nat) |-> <<128 + (n % 128)>> \o r]]
           size == [n \in Nat |-> n]
           Small == 0..127
<1>1. base \in [Nat -> Seq(Nat)] /\ size \in [Nat -> Nat]
  OBVIOUS
<1>2. step \in [Nat -> Nat]
  OBVIOUS
<1>3. comb \in [Nat -> [Seq(Nat) -> Seq(Nat)]]
  <2>1. ASSUME NEW n \in Nat, NEW r \in Seq(Nat)
        PROVE  <<128 + (n % 128)>> \o r \in Seq(Nat)
    <3>1. 128 + (n % 128) \in Nat
      OBVIOUS
    <3>2. <<128 + (n % 128)>> \in Seq(Nat)
      BY <3>1
    <3> QED BY <3>2
  <2> QED BY <2>1
<1>4. \A n \in Nat : n \notin Small => size[step[n]] < size[n]
  BY Div128
<1>5. PICK f \in [Nat -> Seq(Nat)] : Solution(f, Nat, Small, base, step, comb)
  <2>1. Recursive(Nat, Seq(Nat), Small, base, step, comb, size)
    BY <1>1, <1>2, <1>3, <1>4 DEF Recursive
  <2> HIDE DEF base, step, comb, size, Small
  <2> QED BY <2>1, Recursion
<1>6. ASSUME NEW n \in Nat
      PROVE  f[n] = IF n < 128 THEN <<n>> ELSE <<128 + (n % 128)>> \o f[n \div 128]
  <2>1. CASE n < 128
    BY <1>5, <2>1 DEF Solution
  <2>2. CASE ~(n < 128)
    <3>1. n \div 128 \in Nat
      BY Div128, <2>2
    <3>2. f[n] = comb[n][f[n \div 128]]
      <4>1. n \notin Small /\ step[n] = n \div 128
        BY <2>2
      <4> HIDE DEF base, step, comb, Small
      <4> QED BY <1>5, <4>1 DEF Solution
    <3> QED BY <2>2, <3>1, <3>2
  <2> QED BY <2>1, <2>2
<1>7. \E g : g = [n \in Nat |->
                    IF n < 128 THEN <<n>> ELSE <<128 + (n % 128)>> \o g[n \div 128]]
  <2>1. f = [n \in Nat |->
               IF n < 128 THEN <<n>> ELSE <<128 + (n % 128)>> \o f[n \div 128]]
    BY <1>6
  <2> QED BY <2>1, ZenonT(60)
<1> QED BY <1>7 DEF WriteVarint

\* NumberSize counts the bytes WriteVarint writes.
LEMMA NumberSizeDef ==
  NumberSize = [n \in Nat |-> IF n < 128 THEN 1 ELSE 1 + NumberSize[n \div 128]]
<1> DEFINE base == [n \in Nat |-> 1]
           step == [n \in Nat |-> n \div 128]
           comb == [n \in Nat |-> [r \in Nat |-> 1 + r]]
           size == [n \in Nat |-> n]
           Small == 0..127
<1>1. base \in [Nat -> Nat] /\ size \in [Nat -> Nat] /\ comb \in [Nat -> [Nat -> Nat]]
  OBVIOUS
<1>2. step \in [Nat -> Nat]
  OBVIOUS
<1>3. \A n \in Nat : n \notin Small => size[step[n]] < size[n]
  BY Div128
<1>4. PICK f \in [Nat -> Nat] : Solution(f, Nat, Small, base, step, comb)
  <2>1. Recursive(Nat, Nat, Small, base, step, comb, size)
    BY <1>1, <1>2, <1>3 DEF Recursive
  <2> HIDE DEF base, step, comb, size, Small
  <2> QED BY <2>1, Recursion
<1>5. ASSUME NEW n \in Nat
      PROVE  f[n] = IF n < 128 THEN 1 ELSE 1 + f[n \div 128]
  <2>1. CASE n < 128
    BY <1>4, <2>1 DEF Solution
  <2>2. CASE ~(n < 128)
    <3>1. n \div 128 \in Nat
      BY Div128, <2>2
    <3>2. f[n] = comb[n][f[n \div 128]]
      BY <1>4, <2>2 DEF Solution
    <3> QED BY <2>2, <3>1, <3>2
  <2> QED BY <2>1, <2>2
<1>6. \E g : g = [n \in Nat |-> IF n < 128 THEN 1 ELSE 1 + g[n \div 128]]
  <2>1. f = [n \in Nat |-> IF n < 128 THEN 1 ELSE 1 + f[n \div 128]]
    BY <1>5
  <2> QED BY <2>1
<1> QED BY <1>6 DEF NumberSize
-----------------------------------------------------------------------------
(* Varints. *)

\* A varint stands for a number.
LEMMA ReadVarintType == \A b \in Seq(Nat) : ReadVarint[b] \in Nat
<1> DEFINE G == {n \in Nat : \A b \in Seq(Nat) : Len(b) = n => ReadVarint[b] \in Nat}
<1>1. ASSUME NEW n \in Nat, \A k \in Nat : k < n => k \in G,
             NEW b \in Seq(Nat), Len(b) = n
      PROVE  ReadVarint[b] \in Nat
  <2>1. CASE b = <<>>
    BY <2>1, ReadVarintDef
  <2>2. CASE b # <<>>
    <3>1. Tail(b) \in Seq(Nat) /\ Len(Tail(b)) \in Nat /\ Len(Tail(b)) < n
      BY <1>1, <2>2
    <3>2. ReadVarint[Tail(b)] \in Nat
      BY <1>1, <3>1
    <3>3. ReadVarint[b] = (Head(b) % 128) + 128 * ReadVarint[Tail(b)]
      BY <2>2, ReadVarintDef
    <3>4. Head(b) \in Nat
      BY <2>2
    <3> QED BY <3>2, <3>3, <3>4
  <2> QED BY <2>1, <2>2
<1>2. \A n \in Nat : n \in G
  <2>1. \A n \in Nat : (\A k \in Nat : k < n => k \in G) => n \in G
    BY <1>1
  <2> HIDE DEF G
  <2> QED BY <2>1, Induction
<1> QED BY <1>2

\* Byte by byte.
LEMMA ReadVarintStep ==
  /\ ReadVarint[<<>>] = 0
  /\ \A h \in Nat, c \in Seq(Nat) :
       ReadVarint[<<h>> \o c] = (h % 128) + 128 * ReadVarint[c]
<1>1. <<>> \in Seq(Nat)
  OBVIOUS
<1>2. ASSUME NEW h \in Nat, NEW c \in Seq(Nat)
      PROVE  ReadVarint[<<h>> \o c] = (h % 128) + 128 * ReadVarint[c]
  <2> DEFINE b == <<h>> \o c
  <2>1. b \in Seq(Nat) /\ b # <<>> /\ Head(b) = h /\ Tail(b) = c
    OBVIOUS
  <2> HIDE DEF b
  <2>2. ReadVarint[b] = (Head(b) % 128) + 128 * ReadVarint[Tail(b)]
    BY <2>1, ReadVarintDef
  <2> QED BY <2>1, <2>2 DEF b
<1> QED BY <1>1, <1>2, ReadVarintDef

\* What WriteVarint writes is a varint of the number it is given, and NumberSize
\* says how long it is.
LEMMA WriteVarintIsVarint ==
  \A n \in Nat :
    /\ WriteVarint[n] \in Seq(Nat) /\ Len(WriteVarint[n]) >= 1
    /\ Len(WriteVarint[n]) = NumberSize[n]
    /\ \A max \in Nat : Len(WriteVarint[n]) <= max => IsVarint(WriteVarint[n], n, max)
<1> DEFINE Fine(n, b) ==
             /\ b \in Seq(Nat) /\ Len(b) >= 1 /\ Len(b) = NumberSize[n]
             /\ b[Len(b)] < 128 /\ \A i \in 1..(Len(b) - 1) : b[i] >= 128
             /\ ReadVarint[b] = n
           G == {n \in Nat : Fine(n, WriteVarint[n])}
<1>1. ASSUME NEW n \in Nat, n < 128
      PROVE  Fine(n, WriteVarint[n])
  <2>1. WriteVarint[n] = <<n>> /\ NumberSize[n] = 1
    BY <1>1, WriteVarintDef, NumberSizeDef
  <2>2. <<n>> \in Seq(Nat) /\ <<n>> # <<>> /\ Head(<<n>>) = n /\ Tail(<<n>>) = <<>>
        /\ Len(<<n>>) = 1 /\ <<n>>[1] = n
    OBVIOUS
  <2>3. <<>> \in Seq(Nat)
    OBVIOUS
  <2>4. ReadVarint[<<>>] = 0
    BY <2>3, ReadVarintDef
  <2>5. ReadVarint[<<n>>] = (n % 128) + 128 * 0
    BY <2>2, <2>4, ReadVarintDef, ZenonT(60)
  <2>6. ReadVarint[<<n>>] = n
    BY <1>1, <2>5
  <2> QED BY <1>1, <2>1, <2>2, <2>6
<1>2. ASSUME NEW n \in Nat, n >= 128, NEW c \in Seq(Nat), Fine(n \div 128, c),
             WriteVarint[n \div 128] = c
      PROVE  Fine(n, WriteVarint[n])
  <2> DEFINE h == 128 + (n % 128)
             b == <<h>> \o c
  <2>1. h \in Nat /\ h >= 128 /\ h % 128 = n % 128 /\ n \div 128 \in Nat
    BY <1>2, Div128
  <2>2. WriteVarint[n] = b /\ NumberSize[n] = 1 + Len(c)
    <3>1. ~(n < 128)
      BY <1>2
    <3>2. WriteVarint[n] = <<128 + (n % 128)>> \o WriteVarint[n \div 128]
      BY <3>1, WriteVarintDef
    <3>3. NumberSize[n] = 1 + NumberSize[n \div 128]
      BY <3>1, NumberSizeDef
    <3> QED BY <1>2, <3>2, <3>3
  <2> HIDE DEF h
  <2>3. /\ b \in Seq(Nat) /\ Len(b) = 1 + Len(c) /\ Head(b) = h /\ Tail(b) = c
        /\ b[1] = h /\ \A i \in 2..Len(b) : b[i] = c[i - 1]
    BY <2>1
  <2>4. b # <<>> /\ Len(c) \in Nat
    BY <2>3
  <2>5. ReadVarint[b] = (h % 128) + 128 * (n \div 128)
    BY <1>2, <2>1, ReadVarintStep
  <2> HIDE DEF b
  <2>6. ReadVarint[b] = n
    BY <1>2, <2>1, <2>5, Div128
  <2>7. b[Len(b)] < 128
    BY <1>2, <2>3, <2>4, SMTT(40)
  <2>8. \A i \in 1..(Len(b) - 1) : b[i] >= 128
    <3> TAKE i \in 1..(Len(b) - 1)
    <3>1. CASE i = 1
      BY <2>1, <2>3, <3>1
    <3>2. CASE i # 1
      <4>1. i \in 2..Len(b) /\ i - 1 \in 1..(Len(c) - 1)
        BY <2>3, <2>4, <3>2
      <4> QED BY <1>2, <2>3, <4>1
    <3> QED BY <3>1, <3>2
  <2>9. Len(b) >= 1
    BY <2>3, <2>4
  <2> QED BY <2>2, <2>3, <2>6, <2>7, <2>8, <2>9
<1>3. ASSUME NEW n \in Nat, \A k \in Nat : k < n => k \in G
      PROVE  n \in G
  <2>1. CASE n < 128
    BY <1>1, <2>1
  <2>2. CASE ~(n < 128)
    <3>1. n \div 128 \in Nat /\ n \div 128 < n /\ n >= 128
      BY <2>2, Div128
    <3>2. Fine(n \div 128, WriteVarint[n \div 128])
      BY <1>3, <3>1
    <3>3. WriteVarint[n \div 128] \in Seq(Nat)
      BY <3>2
    <3> HIDE DEF Fine
    <3> QED BY <1>2, <3>1, <3>2, <3>3
  <2> QED BY <2>1, <2>2
<1>4. \A n \in Nat : n \in G
  <2> HIDE DEF G
  <2> QED BY <1>3, Induction
<1>5. ASSUME NEW n \in Nat
      PROVE  /\ WriteVarint[n] \in Seq(Nat) /\ Len(WriteVarint[n]) >= 1
             /\ Len(WriteVarint[n]) = NumberSize[n]
             /\ \A max \in Nat : Len(WriteVarint[n]) <= max => IsVarint(WriteVarint[n], n, max)
  <2>1. Fine(n, WriteVarint[n])
    BY <1>4
  <2>2. Len(WriteVarint[n]) \in Nat
    BY <2>1
  <2> QED BY <2>1, <2>2 DEF IsVarint, Last
<1> QED BY <1>5

\* Min finds the least number.
LEMMA MinOfNat ==
  ASSUME NEW T \in SUBSET Nat, T # {}
  PROVE  Min(T) \in T /\ \A k \in T : Min(T) <= k
<1>1. \E m \in T : \A k \in T : m <= k
  <2> SUFFICES ASSUME \A m \in T : \E k \in T : ~(m <= k)
               PROVE  FALSE
    OBVIOUS
  <2> DEFINE G == Nat \ T
  <2>1. ASSUME NEW n \in Nat, \A k \in Nat : k < n => k \in G
        PROVE  n \in G
    <3>1. \A k \in T : n <= k
      BY <2>1
    <3> QED BY <3>1
  <2>2. \A n \in Nat : n \in G
    <3> HIDE DEF G
    <3> QED BY <2>1, Induction
  <2> QED BY <2>2
<1> QED BY <1>1 DEF Min

\* The parser finds the end of a varint, whatever follows it, and its number.
LEMMA VarintIsFound ==
  ASSUME NEW b \in Seq(Nat), NEW n, NEW max \in Nat, IsVarint(b, n, max),
         NEW x \in Seq(Nat)
  PROVE  VarintSize(b \o x, max) = Len(b) /\ Varint(b \o x, Len(b)) = n
<1> DEFINE w == b \o x
           k == Len(b)
           ends == {i \in DOMAIN w : i <= max /\ w[i] < 128}
<1>1. k \in 1..max /\ b[k] < 128 /\ (\A i \in 1..(k - 1) : b[i] >= 128) /\ ReadVarint[b] = n
  BY DEF IsVarint, Last
<1>2. w \in Seq(Nat) /\ DOMAIN w = 1..Len(w) /\ Len(w) = k + Len(x) /\ k \in Nat
      /\ Len(x) \in Nat
  OBVIOUS
<1>3. \A i \in 1..k : w[i] = b[i]
  BY <1>2
<1>4. k \in ends
  BY <1>1, <1>2, <1>3
<1>5. \A i \in ends : k <= i
  <2> SUFFICES ASSUME NEW i \in ends, ~(k <= i)
               PROVE  FALSE
    OBVIOUS
  <2>1. i \in 1..(k - 1) /\ i \in 1..k
    BY <1>2
  <2>2. w[i] >= 128 /\ w[i] < 128 /\ w[i] \in Nat
    BY <1>1, <1>2, <1>3, <2>1
  <2> QED BY <2>2
<1>6. ends \in SUBSET Nat /\ ends # {}
  <2>1. ends \subseteq DOMAIN w /\ 1..Len(w) \subseteq Nat
    BY <1>2
  <2> HIDE DEF ends
  <2> QED BY <1>2, <1>4, <2>1
<1>7. VarintSize(w, max) = Min(ends)
  BY <1>6 DEF VarintSize
<1>8. Min(ends) = k
  <2> HIDE DEF ends
  <2>1. Min(ends) \in ends /\ \A i \in ends : Min(ends) <= i
    BY <1>6, MinOfNat
  <2>2. Min(ends) <= k /\ k <= Min(ends) /\ Min(ends) \in Nat
    BY <1>4, <1>5, <1>6, <2>1
  <2> QED BY <1>2, <2>2
<1>9. SubSeq(w, 1, k) = b
  BY SubSeqOfConcat1
<1> QED BY <1>1, <1>7, <1>8, <1>9 DEF Varint

\* What the parser takes for a varint is one.
LEMMA FoundIsVarint ==
  ASSUME NEW w \in Seq(Nat), NEW max \in Nat, VarintSize(w, max) # 0
  PROVE  /\ VarintSize(w, max) \in DOMAIN w
         /\ IsVarint(SubSeq(w, 1, VarintSize(w, max)), Varint(w, VarintSize(w, max)), max)
<1> DEFINE ends == {i \in DOMAIN w : i <= max /\ w[i] < 128}
<1>1. ends # {} /\ VarintSize(w, max) = Min(ends)
  BY DEF VarintSize
<1>2. DOMAIN w = 1..Len(w) /\ Len(w) \in Nat
  OBVIOUS
<1>3. ends \in SUBSET Nat
  BY <1>2
<1>4. Min(ends) \in ends /\ \A i \in ends : Min(ends) <= i
  <2> HIDE DEF ends
  <2> QED BY <1>1, <1>3, MinOfNat
<1>5. PICK k \in ends : k = Min(ends) /\ \A i \in ends : k <= i
  BY <1>4
<1> DEFINE b == SubSeq(w, 1, k)
<1>6. k \in 1..Len(w) /\ k <= max /\ w[k] < 128
  BY <1>2, <1>5
<1>7. b \in Seq(Nat) /\ Len(b) = k /\ \A i \in 1..k : b[i] = w[i]
  BY <1>2, <1>6
<1>8. \A i \in 1..(k - 1) : b[i] >= 128
  <2> SUFFICES ASSUME NEW i \in 1..(k - 1), ~(b[i] >= 128)
               PROVE  FALSE
    OBVIOUS
  <2>1. i \in DOMAIN w /\ i \in 1..k /\ i <= max /\ ~(k <= i)
    BY <1>2, <1>6
  <2>2. w[i] < 128
    BY <1>7, <2>1, SMTT(40)
  <2> QED BY <1>5, <2>1, <2>2
<1>9. k \in 1..max
  BY <1>2, <1>6
<1> HIDE DEF b
<1>10. IsVarint(b, ReadVarint[b], max)
  BY <1>6, <1>7, <1>8, <1>9 DEF IsVarint, Last
<1> QED BY <1>1, <1>2, <1>5, <1>6, <1>10 DEF b, Varint

\* WriteVarint writes no more bytes than a number was read from.
LEMMA WriteVarintShortest ==
  \A b \in Seq(Nat) : b # <<>> => Len(WriteVarint[ReadVarint[b]]) <= Len(b)
<1> DEFINE G == {n \in Nat : \A b \in Seq(Nat) :
                   Len(b) = n /\ b # <<>> => Len(WriteVarint[ReadVarint[b]]) <= n}
<1>1. ASSUME NEW n \in Nat, \A k \in Nat : k < n => k \in G,
             NEW b \in Seq(Nat), Len(b) = n, b # <<>>
      PROVE  Len(WriteVarint[ReadVarint[b]]) <= n
  <2> DEFINE h == Head(b)
             c == Tail(b)
             r == ReadVarint[c]
             v == (h % 128) + 128 * r
  <2>1. h \in Nat /\ c \in Seq(Nat) /\ Len(c) = n - 1 /\ n >= 1
    BY <1>1
  <2>2. ReadVarint[b] = v
    BY <1>1, ReadVarintDef
  <2>3. r \in Nat
    BY <2>1, ReadVarintType
  <2> HIDE DEF h, c, r
  <2>4. v \in Nat /\ (v < 128 <=> r = 0) /\ (r # 0 => v \div 128 = r)
    BY <2>1, <2>3
  <2>5. CASE v < 128
    <3>1. NumberSize[v] = 1
      BY <2>4, <2>5, NumberSizeDef
    <3> QED BY <2>1, <2>2, <2>4, <3>1, WriteVarintIsVarint
  <2>6. CASE ~(v < 128)
    <3>1. r # 0 /\ v \div 128 = r
      BY <2>4, <2>6
    <3>2. c # <<>>
      BY <3>1, ReadVarintStep DEF r
    <3>3. Len(WriteVarint[r]) <= n - 1
      BY <1>1, <2>1, <3>2 DEF r
    <3>4. NumberSize[v] = 1 + NumberSize[r]
      BY <2>4, <2>6, <3>1, NumberSizeDef
    <3>5. Len(WriteVarint[v]) = 1 + Len(WriteVarint[r])
      BY <2>3, <2>4, <3>4, WriteVarintIsVarint
    <3>6. Len(WriteVarint[r]) \in Nat
      BY <2>3, WriteVarintIsVarint
    <3> QED BY <2>1, <2>2, <3>3, <3>5, <3>6
  <2> QED BY <2>5, <2>6
<1>2. \A n \in Nat : n \in G
  <2>1. \A n \in Nat : (\A k \in Nat : k < n => k \in G) => n \in G
    BY <1>1
  <2> HIDE DEF G
  <2> QED BY <2>1, Induction
<1>3. \A b \in Seq(Nat) : Len(b) \in Nat
  OBVIOUS
<1> QED BY <1>2, <1>3

\* A number of 31 bits takes five bytes at most.
LEMMA SmallNumberSize ==
  ASSUME NEW n \in Nat, n < MaxSize
  PROVE  Len(WriteVarint[n]) <= 5
<1> DEFINE a == n \div 128
           b == a \div 128
           c == b \div 128
           d == c \div 128
<1>1. a \in Nat /\ b \in Nat /\ c \in Nat /\ d \in Nat
  BY SMT
<1>2. d < 128
  BY SMT DEF MaxSize
<1>3. ASSUME NEW k \in Nat
      PROVE  NumberSize[k] \in Nat /\ NumberSize[k] <= 1 + NumberSize[k \div 128]
             /\ (k < 128 => NumberSize[k] = 1)
  <2>1. NumberSize[k] \in Nat /\ k \div 128 \in Nat
    BY WriteVarintIsVarint
  <2>2. NumberSize[k \div 128] \in Nat
    BY <2>1, WriteVarintIsVarint
  <2>3. NumberSize[k] = IF k < 128 THEN 1 ELSE 1 + NumberSize[k \div 128]
    BY NumberSizeDef
  <2> QED BY <2>1, <2>2, <2>3
<1>4. NumberSize[d] = 1 /\ NumberSize[c] <= 1 + NumberSize[d]
      /\ NumberSize[b] <= 1 + NumberSize[c] /\ NumberSize[a] <= 1 + NumberSize[b]
      /\ NumberSize[n] <= 1 + NumberSize[a]
  BY <1>1, <1>2, <1>3
<1>5. NumberSize[a] \in Nat /\ NumberSize[b] \in Nat /\ NumberSize[c] \in Nat
      /\ NumberSize[n] \in Nat
  BY <1>1, <1>3
<1> HIDE DEF a, b, c, d
<1>6. NumberSize[n] <= 5
  BY <1>4, <1>5
<1> QED BY <1>6, WriteVarintIsVarint
-----------------------------------------------------------------------------
(* Fields. *)

\* Two parts of a sequence, one after the other.
LEMMA TwoParts ==
  ASSUME NEW S, NEW s \in Seq(S), NEW t \in Seq(S)
  PROVE  /\ s \o t \in Seq(S) /\ Len(s \o t) = Len(s) + Len(t)
         /\ SubSeq(s \o t, 1, Len(s)) = s
         /\ SubSeq(s \o t, Len(s) + 1, Len(s) + Len(t)) = t
<1>1. s \o t \in Seq(S) /\ Len(s \o t) = Len(s) + Len(t) /\ Len(s) \in Nat /\ Len(t) \in Nat
  OBVIOUS
<1>2. SubSeq(s \o t, 1, Len(s)) = s
  OBVIOUS
<1>3. SubSeq(s \o t, Len(s) + 1, Len(s) + Len(t)) = t
  OBVIOUS
<1> QED BY <1>1, <1>2, <1>3

\* Three parts.
LEMMA Middle ==
  ASSUME NEW S, NEW s \in Seq(S), NEW t \in Seq(S), NEW u \in Seq(S)
  PROVE  /\ (s \o t) \o u = s \o (t \o u) /\ t \o u \in Seq(S)
         /\ SubSeq((s \o t) \o u, Len(s) + 1, Len(s) + Len(t)) = t
         /\ SubSeq((s \o t) \o u, Len(s) + Len(t) + 1, Len(s) + Len(t) + Len(u)) = u
<1>1. (s \o t) \o u = s \o (t \o u) /\ t \o u \in Seq(S)
  BY ConcatAssociative
<1>2. Len(s) \in Nat /\ Len(t) \in Nat /\ Len(u) \in Nat
  OBVIOUS
<1> DEFINE w == (s \o t) \o u
<1>3. /\ w \in Seq(S) /\ Len(w) = Len(s) + Len(t) + Len(u)
      /\ \A i \in 1..Len(t) : w[Len(s) + i] = t[i]
      /\ \A i \in 1..Len(u) : w[Len(s) + Len(t) + i] = u[i]
  OBVIOUS
<1> HIDE DEF w
<1>4. SubSeq(w, Len(s) + 1, Len(s) + Len(t)) = t
  BY <1>2, <1>3
<1>5. SubSeq(w, Len(s) + Len(t) + 1, Len(s) + Len(t) + Len(u)) = u
  BY <1>2, <1>3
<1> QED BY <1>1, <1>4, <1>5 DEF w

\* Bytes.
LEMMA ByteCat ==
  \A s, t, u \in Seq(Nat) : (s \o t) \o u = s \o (t \o u) /\ t \o u \in Seq(Nat)
<1>1. \A S : \A s, t, u \in Seq(S) : (s \o t) \o u = s \o (t \o u) /\ t \o u \in Seq(S)
  BY Middle, SMTT(40)
<1> QED BY <1>1, Zenon

\* Three parts of an input.
LEMMA ByteParts ==
  ASSUME NEW s \in Seq(Nat), NEW t \in Seq(Nat), NEW u \in Seq(Nat)
  PROVE  /\ (s \o t) \o u \in Seq(Nat)
         /\ Len(s) \in Nat /\ Len(t) \in Nat /\ Len(u) \in Nat /\ Len(t \o u) = Len(t) + Len(u)
         /\ Len((s \o t) \o u) = Len(s) + Len(t) + Len(u)
         /\ SubSeq((s \o t) \o u, Len(s) + Len(t) + 1, Len(s) + Len(t) + Len(u)) = u
<1> DEFINE Rest(a, b, c) ==
      SubSeq((a \o b) \o c, Len(a) + Len(b) + 1, Len(a) + Len(b) + Len(c)) = c
<1>1. \A S : \A a, b, c \in Seq(S) : Rest(a, b, c)
  BY Middle
<1>2. Rest(s, t, u)
  <2> HIDE DEF Rest
  <2> QED BY <1>1, Zenon
<1>3. /\ (s \o t) \o u \in Seq(Nat)
      /\ Len(s) \in Nat /\ Len(t) \in Nat /\ Len(u) \in Nat /\ Len(t \o u) = Len(t) + Len(u)
      /\ Len((s \o t) \o u) = Len(s) + Len(t) + Len(u)
  OBVIOUS
<1> QED BY <1>2, <1>3

\* A sequence that is cut.
LEMMA Cut ==
  ASSUME NEW S, NEW w \in Seq(S), NEW k \in 0..Len(w)
  PROVE  /\ SubSeq(w, 1, k) \in Seq(S) /\ Len(SubSeq(w, 1, k)) = k
         /\ SubSeq(w, k + 1, Len(w)) \in Seq(S)
         /\ Len(SubSeq(w, k + 1, Len(w))) = Len(w) - k
         /\ w = SubSeq(w, 1, k) \o SubSeq(w, k + 1, Len(w))
<1>1. Len(w) \in Nat /\ k \in Nat /\ k <= Len(w)
  OBVIOUS
<1>2. SubSeq(w, 1, k) \in Seq(S) /\ Len(SubSeq(w, 1, k)) = k
  BY <1>1
<1>3. SubSeq(w, k + 1, Len(w)) \in Seq(S) /\ Len(SubSeq(w, k + 1, Len(w))) = Len(w) - k
  BY <1>1
<1>4. SubSeq(w, 1, k) \o SubSeq(w, k + 1, Len(w)) = SubSeq(w, 1, Len(w))
  <2>1. 1 \in 1..(Len(w) + 1) /\ k \in (1 - 1)..Len(w) /\ Len(w) \in k..Len(w)
    BY <1>1
  <2> QED BY <2>1, ConcatAdjacentSubSeq
<1>5. SubSeq(w, 1, Len(w)) = w
  BY SubSeqFull
<1> QED BY <1>2, <1>3, <1>4, <1>5

\* The part of Encodes that follows the tag.
IsPayload(p, f) ==
  \/ f.tag % 8 = 0 /\ IsVarint(p, f.varint, 10) /\ f.bytes = <<>>
  \/ f.tag % 8 = 1 /\ f.varint = 0 /\ f.bytes = p /\ Len(p) = 8
  \/ /\ f.tag % 8 = 2 /\ f.varint = 0
     /\ \E l \in Seq(Nat) : p = l \o f.bytes /\ IsVarint(l, Len(f.bytes), 5)
  \/ f.tag % 8 = 5 /\ f.varint = 0 /\ f.bytes = p /\ Len(p) = 4

\* A field is a tag and a payload, put together.
LEMMA EncodesParts ==
  ASSUME NEW w \in Seq(Nat), NEW f \in Field
  PROVE  Encodes(w, f) <=>
           /\ f.tag >= 8
           /\ \E t, p \in Seq(Nat) :
                w = t \o p /\ IsVarint(t, f.tag, 5) /\ IsPayload(p, f)
<1> DEFINE Inner(p) ==
        \/ f.tag % 8 = 0 /\ IsVarint(p, f.varint, 10) /\ f.bytes = <<>>
        \/ f.tag % 8 = 1 /\ f.varint = 0 /\ f.bytes = p /\ Len(p) = 8
        \/ /\ f.tag % 8 = 2 /\ f.varint = 0
           /\ \E j \in DOMAIN p :
                /\ IsVarint(SubSeq(p, 1, j), Len(f.bytes), 5)
                /\ f.bytes = SubSeq(p, j + 1, Len(p))
        \/ f.tag % 8 = 5 /\ f.varint = 0 /\ f.bytes = p /\ Len(p) = 4
      Length(p, j) == /\ IsVarint(SubSeq(p, 1, j), Len(f.bytes), 5)
                      /\ f.bytes = SubSeq(p, j + 1, Len(p))
      Prefix(p, l) == p = l \o f.bytes /\ IsVarint(l, Len(f.bytes), 5)
<1>1. f.bytes \in Seq(Nat) /\ f.tag \in Nat
  BY DEF Field
<1>2. \A l \in Seq(Nat), n \in Nat, max \in Nat : IsVarint(l, n, max) => Len(l) \in 1..max
  BY DEF IsVarint
<1>3. ASSUME NEW p \in Seq(Nat)
      PROVE  (\E j \in DOMAIN p : Length(p, j)) <=> (\E l \in Seq(Nat) : Prefix(p, l))
  <2>1. ASSUME NEW j \in DOMAIN p, Length(p, j)
        PROVE  \E l \in Seq(Nat) : Prefix(p, l)
    <3>1. j \in 0..Len(p)
      OBVIOUS
    <3>2. SubSeq(p, 1, j) \in Seq(Nat) /\ p = SubSeq(p, 1, j) \o f.bytes
      BY <2>1, <3>1, Cut
    <3> QED BY <2>1, <3>2
  <2>2. ASSUME NEW l \in Seq(Nat), Prefix(p, l)
        PROVE  \E j \in DOMAIN p : Length(p, j)
    <3>1. SubSeq(p, 1, Len(l)) = l /\ SubSeq(p, Len(l) + 1, Len(p)) = f.bytes
          /\ Len(p) = Len(l) + Len(f.bytes)
      BY <1>1, <2>2, TwoParts
    <3>2. Len(l) \in 1..5
      <4>1. Len(f.bytes) \in Nat /\ 5 \in Nat
        BY <1>1
      <4>2. IsVarint(l, Len(f.bytes), 5)
        BY <2>2
      <4> QED BY <1>2, <4>1, <4>2
    <3>3. Len(l) \in DOMAIN p
      <4>1. DOMAIN p = 1..Len(p) /\ Len(f.bytes) \in Nat
        BY <1>1
      <4> QED BY <3>1, <3>2, <4>1
    <3>4. Length(p, Len(l))
      BY <2>2, <3>1
    <3> HIDE DEF Length
    <3> QED BY <3>3, <3>4
  <2> QED BY <2>1, <2>2
<1>4. \A p \in Seq(Nat) : Inner(p) <=> IsPayload(p, f)
  BY <1>3 DEF IsPayload
<1>5. Encodes(w, f) <=>
        /\ f.tag >= 8
        /\ \E k \in DOMAIN w : /\ IsVarint(SubSeq(w, 1, k), f.tag, 5)
                               /\ Inner(SubSeq(w, k + 1, Len(w)))
  BY DEF Encodes
<1> HIDE DEF Inner
<1>6. ASSUME NEW k \in DOMAIN w, IsVarint(SubSeq(w, 1, k), f.tag, 5),
             Inner(SubSeq(w, k + 1, Len(w)))
      PROVE  \E t, p \in Seq(Nat) :
               w = t \o p /\ IsVarint(t, f.tag, 5) /\ IsPayload(p, f)
  <2>1. k \in 0..Len(w)
    OBVIOUS
  <2>2. /\ SubSeq(w, 1, k) \in Seq(Nat) /\ SubSeq(w, k + 1, Len(w)) \in Seq(Nat)
        /\ w = SubSeq(w, 1, k) \o SubSeq(w, k + 1, Len(w))
    BY <2>1, Cut
  <2>3. IsPayload(SubSeq(w, k + 1, Len(w)), f)
    BY <1>4, <1>6, <2>2
  <2> QED BY <1>6, <2>2, <2>3
<1>7. ASSUME NEW t \in Seq(Nat), NEW p \in Seq(Nat), w = t \o p,
             IsVarint(t, f.tag, 5), IsPayload(p, f)
      PROVE  \E k \in DOMAIN w : /\ IsVarint(SubSeq(w, 1, k), f.tag, 5)
                                 /\ Inner(SubSeq(w, k + 1, Len(w)))
  <2>1. SubSeq(w, 1, Len(t)) = t /\ SubSeq(w, Len(t) + 1, Len(w)) = p
        /\ Len(w) = Len(t) + Len(p)
    BY <1>7, TwoParts
  <2>2. Len(t) \in 1..5
    BY <1>1, <1>2, <1>7
  <2>3. Len(t) \in DOMAIN w
    <3>1. DOMAIN w = 1..Len(w) /\ Len(p) \in Nat
      OBVIOUS
    <3> QED BY <2>1, <2>2, <3>1
  <2>4. IsVarint(SubSeq(w, 1, Len(t)), f.tag, 5) /\ Inner(SubSeq(w, Len(t) + 1, Len(w)))
    BY <1>4, <1>7, <2>1
  <2> QED BY <2>3, <2>4
<1> QED BY <1>5, <1>6, <1>7

\* PayloadSize(), wire type by wire type.
LEMMA PayloadSizes ==
  ASSUME NEW tag \in Nat, NEW p
  PROVE  LET z == PayloadSize(tag, p)
             k == VarintSize(p, 5)
             end == k + Varint(p, k)
         IN  /\ tag < 8 => z = 0
             /\ tag % 8 \notin {0, 1, 2, 5} => z = 0
             /\ tag >= 8 /\ tag % 8 = 0 => z = VarintSize(p, 10)
             /\ tag >= 8 /\ tag % 8 = 1 => z = IF Len(p) < 8 THEN 0 ELSE 8
             /\ tag >= 8 /\ tag % 8 = 5 => z = IF Len(p) < 4 THEN 0 ELSE 4
             /\ tag >= 8 /\ tag % 8 = 2 =>
                  z = IF k = 0 THEN 0 ELSE IF Len(p) < end THEN 0 ELSE end
<1> DEFINE z == PayloadSize(tag, p)
           k == VarintSize(p, 5)
           end == k + Varint(p, k)
<1>1. tag < 8 => z = 0
  BY DEF PayloadSize
<1>2. tag % 8 \notin {0, 1, 2, 5} => z = 0
  BY DEF PayloadSize
<1>3. tag >= 8 /\ tag % 8 = 0 => z = VarintSize(p, 10)
  BY DEF PayloadSize
<1>4. tag >= 8 /\ tag % 8 = 1 => z = IF Len(p) < 8 THEN 0 ELSE 8
  BY DEF PayloadSize
<1>5. tag >= 8 /\ tag % 8 = 5 => z = IF Len(p) < 4 THEN 0 ELSE 4
  BY DEF PayloadSize
<1>6. tag >= 8 /\ tag % 8 = 2 =>
        z = IF k = 0 THEN 0 ELSE IF Len(p) < end THEN 0 ELSE end
  BY DEF PayloadSize
<1> QED BY <1>1, <1>2, <1>3, <1>4, <1>5, <1>6

\* The field Payload() makes of it.
LEMMA PayloadFields ==
  ASSUME NEW tag \in Nat, NEW p
  PROVE  LET q == Payload(tag, p)
             z == PayloadSize(tag, p)
             k == VarintSize(p, 5)
         IN  /\ tag % 8 = 0 =>
                  q = [size |-> z, field |->
                        [tag |-> tag, varint |-> Varint(p, z), bytes |-> <<>>]]
             /\ tag % 8 = 2 =>
                  q = [size |-> z, field |->
                        [tag |-> tag, varint |-> 0, bytes |-> SubSeq(p, k + 1, z)]]
             /\ tag % 8 = 1 \/ tag % 8 = 5 =>
                  q = [size |-> z, field |->
                        [tag |-> tag, varint |-> 0, bytes |-> SubSeq(p, 1, z)]]
             /\ q.size = z
<1> DEFINE z == PayloadSize(tag, p)
           k == VarintSize(p, 5)
           field(v, b) == [tag |-> tag, varint |-> v, bytes |-> b]
           start == IF tag % 8 = 2 THEN k + 1 ELSE 1
<1>1. Payload(tag, p) =
        [size |-> z, field |-> field(IF tag % 8 = 0 THEN Varint(p, z) ELSE 0,
                                     IF tag % 8 = 0 THEN <<>> ELSE SubSeq(p, start, z))]
  BY DEF Payload
<1>2. Payload(tag, p).size = z
  BY DEF Payload
<1>3. CASE tag % 8 = 0
  <2>1. (IF tag % 8 = 0 THEN Varint(p, z) ELSE 0) = Varint(p, z)
        /\ (IF tag % 8 = 0 THEN <<>> ELSE SubSeq(p, start, z)) = <<>>
    BY <1>3
  <2>2. Payload(tag, p) = [size |-> z, field |-> field(Varint(p, z), <<>>)]
    BY <1>1, <2>1, Zenon
  <2> QED BY <1>2, <1>3, <2>2
<1>4. CASE tag % 8 = 2
  <2>1. (IF tag % 8 = 0 THEN Varint(p, z) ELSE 0) = 0
        /\ (IF tag % 8 = 0 THEN <<>> ELSE SubSeq(p, start, z)) = SubSeq(p, k + 1, z)
    <3>1. tag % 8 # 0
      BY <1>4
    <3>2. start = k + 1
      BY <1>4, Zenon
    <3> HIDE DEF start, k, z
    <3> QED BY <3>1, <3>2, Zenon
  <2>2. Payload(tag, p) = [size |-> z, field |-> field(0, SubSeq(p, k + 1, z))]
    BY <1>1, <2>1, Zenon
  <2> QED BY <1>2, <1>4, <2>2
<1>5. CASE tag % 8 # 0 /\ tag % 8 # 2
  <2>1. (IF tag % 8 = 0 THEN Varint(p, z) ELSE 0) = 0
        /\ (IF tag % 8 = 0 THEN <<>> ELSE SubSeq(p, start, z)) = SubSeq(p, 1, z)
    BY <1>5
  <2>2. Payload(tag, p) = [size |-> z, field |-> field(0, SubSeq(p, 1, z))]
    BY <1>1, <2>1, Zenon
  <2> QED BY <1>2, <1>5, <2>2
<1> QED BY <1>3, <1>4, <1>5


\* Payload() finds the payload of a field, whatever follows it.
LEMMA PayloadIsFound ==
  ASSUME NEW f \in Field, f.tag >= 8, NEW p \in Seq(Nat), IsPayload(p, f),
         NEW x \in Seq(Nat)
  PROVE  Payload(f.tag, p \o x) = [size |-> Len(p), field |-> f] /\ Len(p) >= 1
<1> DEFINE w == p \o x
           q == Payload(f.tag, w)
<1>1. /\ f.tag \in Nat /\ f.varint \in Nat /\ f.bytes \in Seq(Nat)
      /\ f = [tag |-> f.tag, varint |-> f.varint, bytes |-> f.bytes]
  BY DEF Field
<1>2. /\ w \in Seq(Nat) /\ Len(w) = Len(p) + Len(x) /\ SubSeq(w, 1, Len(p)) = p
      /\ Len(p) \in Nat /\ Len(x) \in Nat
  BY TwoParts
<1> HIDE DEF w
<1>3. CASE f.tag % 8 = 0
  <2>1. IsVarint(p, f.varint, 10) /\ f.bytes = <<>>
    BY <1>3 DEF IsPayload
  <2>2. VarintSize(w, 10) = Len(p) /\ Varint(w, Len(p)) = f.varint
    BY <2>1, VarintIsFound DEF w
  <2>3. Len(p) >= 1
    BY <2>1, <1>2 DEF IsVarint
  <2>4. PayloadSize(f.tag, w) = Len(p)
    BY <1>1, <1>3, <2>2, PayloadSizes
  <2>5. Payload(f.tag, w) = [size |-> Len(p), field |->
          [tag |-> f.tag, varint |-> f.varint, bytes |-> <<>>]]
    BY <1>1, <1>3, <2>2, <2>4, PayloadFields
  <2> QED BY <1>1, <2>1, <2>3, <2>5 DEF w
<1>4. CASE f.tag % 8 = 1 \/ f.tag % 8 = 5
  <2> DEFINE n == IF f.tag % 8 = 1 THEN 8 ELSE 4
  <2>1. f.varint = 0 /\ f.bytes = p /\ Len(p) = n
    BY <1>4 DEF IsPayload
  <2>2. PayloadSize(f.tag, w) = IF Len(w) < n THEN 0 ELSE n
    BY <1>1, <1>4, PayloadSizes
  <2>3. PayloadSize(f.tag, w) = Len(p) /\ Len(p) >= 1
    BY <1>2, <2>1, <2>2
  <2>4. Payload(f.tag, w) = [size |-> Len(p), field |->
          [tag |-> f.tag, varint |-> 0, bytes |-> p]]
    <3> DEFINE z == PayloadSize(f.tag, w)
    <3>1. Payload(f.tag, w) = [size |-> z, field |->
            [tag |-> f.tag, varint |-> 0, bytes |-> SubSeq(w, 1, z)]]
      BY <1>1, <1>4, PayloadFields
    <3>2. SubSeq(w, 1, z) = p
      BY <1>2, <2>3
    <3> HIDE DEF z
    <3> QED BY <2>3, <3>1, <3>2, Zenon DEF z
  <2> QED BY <1>1, <2>1, <2>3, <2>4 DEF w
<1>5. CASE f.tag % 8 = 2
  <2>1. f.varint = 0 /\ \E l \in Seq(Nat) : p = l \o f.bytes /\ IsVarint(l, Len(f.bytes), 5)
    BY <1>5, SMTT(40) DEF IsPayload
  <2>2. PICK l \in Seq(Nat) : p = l \o f.bytes /\ IsVarint(l, Len(f.bytes), 5)
    BY <2>1
  <2>3. f.bytes \o x \in Seq(Nat) /\ w = l \o (f.bytes \o x)
    <3>1. (l \o f.bytes) \o x = l \o (f.bytes \o x) /\ f.bytes \o x \in Seq(Nat)
      BY <1>1, ByteCat
    <3> QED BY <2>2, <3>1 DEF w
  <2>4. VarintSize(w, 5) = Len(l) /\ Varint(w, Len(l)) = Len(f.bytes)
    BY <2>2, <2>3, VarintIsFound, ZenonT(60)
  <2>5. Len(l) \in 1..5 /\ Len(f.bytes) \in Nat
    BY <1>1, <2>2 DEF IsVarint
  <2>6. Len(p) = Len(l) + Len(f.bytes)
    BY <1>1, <2>2, TwoParts
  <2>7. SubSeq(w, Len(l) + 1, Len(p)) = f.bytes
    <3>1. SubSeq((l \o f.bytes) \o x, Len(l) + 1, Len(l) + Len(f.bytes)) = f.bytes
      BY <1>1, Middle
    <3> QED BY <2>2, <2>6, <3>1 DEF w
  <2>8. PayloadSize(f.tag, w) =
          IF Len(l) = 0 THEN 0
          ELSE IF Len(w) < Len(l) + Len(f.bytes) THEN 0 ELSE Len(l) + Len(f.bytes)
    BY <1>1, <1>5, <2>4, PayloadSizes
  <2>9. PayloadSize(f.tag, w) = Len(p) /\ Len(p) >= 1
    <3>1. Len(l) # 0 /\ ~(Len(w) < Len(l) + Len(f.bytes)) /\ Len(p) >= 1
      <4> DEFINE a == Len(l)
                 b == Len(f.bytes)
                 c == Len(p)
                 d == Len(x)
      <4>1. a \in 1..5 /\ b \in Nat /\ c = a + b /\ Len(w) = c + d /\ d \in Nat
        BY <1>2, <2>5, <2>6
      <4> HIDE DEF a, b, c, d
      <4>2. a # 0 /\ ~(Len(w) < a + b) /\ c >= 1
        BY <4>1
      <4> QED BY <4>2 DEF a, b, c
    <3> QED BY <2>6, <2>8, <3>1
  <2>10. Payload(f.tag, w) = [size |-> Len(p), field |->
           [tag |-> f.tag, varint |-> 0, bytes |-> f.bytes]]
    <3> DEFINE z == PayloadSize(f.tag, w)
               k == VarintSize(w, 5)
    <3>1. Payload(f.tag, w) = [size |-> z, field |->
            [tag |-> f.tag, varint |-> 0, bytes |-> SubSeq(w, k + 1, z)]]
      BY <1>1, <1>5, PayloadFields
    <3>2. SubSeq(w, k + 1, z) = f.bytes
      BY <2>4, <2>7, <2>9
    <3> HIDE DEF z, k
    <3> QED BY <2>9, <3>1, <3>2, Zenon DEF z
  <2> QED BY <1>1, <2>1, <2>9, <2>10 DEF w
<1> QED BY <1>3, <1>4, <1>5 DEF IsPayload

\* What Payload() takes for a payload is one.
LEMMA FoundIsPayload ==
  ASSUME NEW tag \in Nat, NEW p \in Seq(Nat), Payload(tag, p).size # 0
  PROVE  LET q == Payload(tag, p)
         IN  /\ tag >= 8 /\ q.size \in 1..Len(p) /\ q.field \in Field /\ q.field.tag = tag
             /\ IsPayload(SubSeq(p, 1, q.size), q.field)
<1> DEFINE q == Payload(tag, p)
           z == q.size
           b == SubSeq(p, 1, z)
<1>1. tag >= 8 /\ tag % 8 \in {0, 1, 2, 5} /\ z = PayloadSize(tag, p)
  <2>1. z = PayloadSize(tag, p)
    BY PayloadFields
  <2>2. PayloadSize(tag, p) # 0
    BY <2>1
  <2>3. ~(tag < 8)
    BY <2>2, PayloadSizes
  <2>4. tag % 8 \in {0, 1, 2, 5}
    BY <2>2, PayloadSizes
  <2> QED BY <2>1, <2>3, <2>4
<1>2. Len(p) \in Nat
  OBVIOUS
<1>3. CASE tag % 8 = 0
  <2>1. z = VarintSize(p, 10) /\ q.field = [tag |-> tag, varint |-> Varint(p, z), bytes |-> <<>>]
    BY <1>1, <1>3, PayloadSizes, PayloadFields
  <2>2. z \in DOMAIN p /\ IsVarint(b, Varint(p, z), 10)
    BY <2>1, FoundIsVarint
  <2>3. z \in 1..Len(p)
    BY <2>2
  <2>4. b \in Seq(Nat)
    BY <2>3, Cut
  <2>5. Varint(p, z) \in Nat
    BY <2>4, ReadVarintType DEF Varint
  <2>6. <<>> \in Seq(Nat)
    OBVIOUS
  <2> HIDE DEF q
  <2>7. q.field \in Field /\ q.field.tag = tag /\ q.field.varint = Varint(p, z) /\ q.field.bytes = <<>>
    BY <2>1, <2>5, <2>6 DEF Field
  <2> HIDE DEF z, b
  <2>8. IsPayload(b, q.field)
    BY <1>3, <2>2, <2>7 DEF IsPayload
  <2> QED BY <1>1, <2>3, <2>7, <2>8 DEF q, z, b
<1>4. CASE tag % 8 = 1 \/ tag % 8 = 5
  <2> DEFINE n == IF tag % 8 = 1 THEN 8 ELSE 4
  <2>1. z = (IF Len(p) < n THEN 0 ELSE n) /\ q.field = [tag |-> tag, varint |-> 0, bytes |-> b]
    <3>1. PayloadSize(tag, p) = IF Len(p) < n THEN 0 ELSE n
      BY <1>1, <1>4, PayloadSizes
    <3>2. q = [size |-> PayloadSize(tag, p), field |->
            [tag |-> tag, varint |-> 0, bytes |-> SubSeq(p, 1, PayloadSize(tag, p))]]
      BY <1>4, PayloadFields
    <3>3. SubSeq(p, 1, PayloadSize(tag, p)) = b
      BY <1>1
    <3> HIDE DEF q, b
    <3> QED BY <1>1, <3>1, <3>2, <3>3
  <2>2. z \in 1..Len(p) /\ z = n
    BY <1>2, <2>1
  <2>3. b \in Seq(Nat) /\ Len(b) = n
    BY <2>2, Cut
  <2> HIDE DEF q
  <2>4. q.field \in Field /\ q.field.tag = tag /\ q.field.varint = 0 /\ q.field.bytes = b
    BY <2>1, <2>3 DEF Field
  <2> HIDE DEF z, b
  <2>5. IsPayload(b, q.field)
    BY <1>4, <2>3, <2>4 DEF IsPayload
  <2> QED BY <1>1, <2>2, <2>4, <2>5 DEF q, z, b
<1>5. CASE tag % 8 = 2
  <2> DEFINE k == VarintSize(p, 5)
             v == Varint(p, k)
             l == SubSeq(p, 1, k)
             y == SubSeq(p, k + 1, z)
  <2>1. z = (IF k = 0 \/ Len(p) < k + v THEN 0 ELSE k + v)
        /\ q.field = [tag |-> tag, varint |-> 0, bytes |-> y]
    <3>1. PayloadSize(tag, p) = IF k = 0 THEN 0 ELSE IF Len(p) < k + v THEN 0 ELSE k + v
      BY <1>1, <1>5, PayloadSizes
    <3>2. q = [size |-> PayloadSize(tag, p), field |->
            [tag |-> tag, varint |-> 0, bytes |-> SubSeq(p, k + 1, PayloadSize(tag, p))]]
      BY <1>5, PayloadFields
    <3>3. SubSeq(p, k + 1, PayloadSize(tag, p)) = y
      BY <1>1, Zenon
    <3> HIDE DEF q, y, k, v
    <3> QED BY <1>1, <3>1, <3>2, <3>3
  <2>2. k # 0 /\ ~(Len(p) < k + v) /\ z = k + v
    BY <2>1
  <2>3. k \in DOMAIN p /\ IsVarint(l, v, 5)
    BY <2>2, FoundIsVarint
  <2>4. k \in 1..Len(p) /\ l \in Seq(Nat) /\ Len(l) = k
    BY <2>3, Cut
  <2>5. v \in Nat
    BY <2>4, ReadVarintType DEF Varint
  <2>6. z \in k..Len(p) /\ z \in 1..Len(p) /\ z - k = v
    BY <1>2, <2>2, <2>4, <2>5
  <2> HIDE DEF z, k, v, q
  <2>7. y \in Seq(Nat) /\ Len(y) = v
    BY <1>2, <2>4, <2>5, <2>6
  <2>8. b = l \o y
    <3>1. 1 \in 1..(Len(p) + 1) /\ k \in (1 - 1)..Len(p) /\ z \in k..Len(p)
      BY <1>2, <2>4, <2>6
    <3> QED BY <3>1, ConcatAdjacentSubSeq
  <2> HIDE DEF l, y, b
  <2>9. q.field \in Field /\ q.field.tag = tag /\ q.field.varint = 0 /\ q.field.bytes = y
    BY <2>1, <2>7 DEF Field
  <2>10. IsPayload(b, q.field)
    BY <1>5, <2>3, <2>4, <2>7, <2>8, <2>9 DEF IsPayload
  <2> QED BY <1>1, <2>6, <2>9, <2>10 DEF q, z, b
<1> QED BY <1>1, <1>3, <1>4, <1>5
-----------------------------------------------------------------------------
(* The loop. *)

Msg == [text : Seq(Nat), unknown : Seq(Field)]

\* The loop is about to read rest.
Going(rest, mutable, msg) ==
  [status |-> "ok", rest |-> rest, mutable |-> mutable, msg |-> msg]

Valid(f) == f.tag = 10 => IsValidUTF8(f.bytes)

\* The one tag of a text.
LEMMA TextTag == \A tag \in Nat : IsText(tag) <=> tag = 10
BY DEF IsText

\* The states of the loop.
LEMMA GoingType ==
  ASSUME NEW r \in Seq(Nat), NEW c \in BOOLEAN, NEW m \in Msg
  PROVE  Going(r, c, m) \in ParseState
BY DEF Going, ParseState, Msg

LEMMA AddFieldType ==
  ASSUME NEW m \in Msg, NEW f \in Field
  PROVE  AddField(m, f) \in Msg
<1>1. f.bytes \in Seq(Nat)
  BY DEF Field
<1>2. Append(m.unknown, f) \in Seq(Field)
  BY DEF Msg
<1> QED BY <1>1, <1>2 DEF AddField, Msg

\* The loop's body with k, tag and q for what it reads first, branch by branch.
Branches(r, c, m, k, tag, q) ==
  LET s == Going(r, c, m)
      end == k # 0 /\ ~IsText(tag) /\ (tag = 0 \/ tag % 8 = 4)
      good == k # 0 /\ q.size # 0 /\ (IsText(tag) => IsValidUTF8(q.field.bytes))
  IN  /\ end /\ ~good => ParseField(s) = [s EXCEPT !.status = "done"]
      /\ ~end /\ good =>
           ParseField(s) = Going(SubSeq(r, k + q.size + 1, Len(r)), c \/ IsText(tag),
                                 AddField(m, q.field))
      /\ ~end /\ ~good =>
           ParseField(s) = [s EXCEPT !.status = "failure", !.mutable = c \/ IsText(tag)]

\* They are all there is.
LEMMA ParseFieldBranches ==
  ASSUME NEW r \in Seq(Nat), NEW c \in BOOLEAN, NEW m \in Msg
  PROVE  LET k == VarintSize(r, 5)
             tag == Varint(r, k)
         IN  Branches(r, c, m, k, tag, Payload(tag, SubSeq(r, k + 1, Len(r))))
<1> DEFINE s == Going(r, c, m)
           k == VarintSize(r, 5)
           tag == Varint(r, k)
           q == Payload(tag, SubSeq(r, k + 1, Len(r)))
           end == k # 0 /\ ~IsText(tag) /\ (tag = 0 \/ tag % 8 = 4)
           good0 == q.size # 0 /\ (IsText(tag) => IsValidUTF8(q.field.bytes))
           good == k # 0 /\ q.size # 0 /\ (IsText(tag) => IsValidUTF8(q.field.bytes))
           put == AddField(m, q.field)
<1>1. s.status = "ok" /\ s.rest = r /\ s.mutable = c /\ s.msg = m
  BY DEF Going
<1>2. ParseField(s) =
        CASE end -> [s EXCEPT !.status = "done"]
          [] k # 0 /\ good0 ->
               [status |-> "ok", rest |-> SubSeq(s.rest, k + q.size + 1, Len(s.rest)),
                mutable |-> s.mutable \/ IsText(tag), msg |-> AddField(s.msg, q.field)]
          [] OTHER -> [s EXCEPT !.status = "failure", !.mutable = s.mutable \/ IsText(tag)]
  <2> HIDE DEF s
  <2> QED BY <1>1, Zenon DEF ParseField
<1>3. [status |-> "ok", rest |-> SubSeq(s.rest, k + q.size + 1, Len(s.rest)),
       mutable |-> s.mutable \/ IsText(tag), msg |-> AddField(s.msg, q.field)]
      = Going(SubSeq(r, k + q.size + 1, Len(r)), c \/ IsText(tag), put)
  <2> HIDE DEF s, k, tag, q
  <2> QED BY <1>1, Zenon DEF Going
<1> HIDE DEF s, k, tag, q, put, end, good0
<1>4. ASSUME end, ~(k # 0 /\ good0)
      PROVE  ParseField(s) = [s EXCEPT !.status = "done"]
  BY <1>2, <1>4
<1>5. ASSUME ~end, k # 0 /\ good0
      PROVE  ParseField(s) = Going(SubSeq(r, k + q.size + 1, Len(r)), c \/ IsText(tag), put)
  BY <1>2, <1>3, <1>5
<1>6. ASSUME ~end, ~(k # 0 /\ good0)
      PROVE  ParseField(s) = [s EXCEPT !.status = "failure", !.mutable = c \/ IsText(tag)]
  BY <1>1, <1>2, <1>6
<1>7. Branches(r, c, m, k, tag, q)
  BY <1>4, <1>5, <1>6 DEF Branches, s, put, end, good0
<1> QED BY <1>7 DEF k, tag, q

\* A field at the front of the input is taken off it, whatever follows; a text
\* that is not valid ends the loop.
LEMMA FieldStep ==
  ASSUME NEW w \in Seq(Nat), NEW f \in Field, Encodes(w, f), NEW x \in Seq(Nat),
         NEW c \in BOOLEAN, NEW m \in Msg
  PROVE  /\ w # <<>>
         /\ Valid(f) => ParseField(Going(w \o x, c, m)) =
                          Going(x, c \/ IsText(f.tag), AddField(m, f))
         /\ ~Valid(f) => ParseField(Going(w \o x, c, m)).status = "failure"
<1>1. f.tag \in Nat /\ f.tag >= 8
  BY EncodesParts DEF Field
<1>2. PICK t \in Seq(Nat), p \in Seq(Nat) :
        w = t \o p /\ IsVarint(t, f.tag, 5) /\ IsPayload(p, f)
  BY EncodesParts
<1> DEFINE r == w \o x
           px == p \o x
<1>3. /\ r \in Seq(Nat) /\ px \in Seq(Nat) /\ r = t \o px
      /\ Len(t) \in Nat /\ Len(p) \in Nat /\ Len(x) \in Nat
      /\ Len(r) = Len(t) + Len(p) + Len(x) /\ Len(px) = Len(p) + Len(x)
      /\ SubSeq(r, Len(t) + Len(p) + 1, Len(t) + Len(p) + Len(x)) = x
  <2>1. r \in Seq(Nat) /\ px \in Seq(Nat) /\ r = t \o px
    BY <1>2, ByteCat, Zenon
  <2> HIDE DEF px, r
  <2>2. r = (t \o p) \o x /\ px = p \o x
    BY <1>2 DEF px, r
  <2>3. /\ Len(t) \in Nat /\ Len(p) \in Nat /\ Len(x) \in Nat
        /\ Len(r) = Len(t) + Len(p) + Len(x) /\ Len(px) = Len(p) + Len(x)
        /\ SubSeq(r, Len(t) + Len(p) + 1, Len(t) + Len(p) + Len(x)) = x
    BY <2>2, ByteParts, ZenonT(60)
  <2> QED BY <2>1, <2>3
<1> HIDE DEF r, px
<1>4. SubSeq(r, Len(t) + 1, Len(r)) = px
  <2>1. Len(r) = Len(t) + Len(px)
    BY <1>3
  <2> QED BY <1>3, <2>1, TwoParts, SMTT(40)
<1>5. VarintSize(r, 5) = Len(t) /\ Varint(r, Len(t)) = f.tag
  BY <1>2, <1>3, VarintIsFound
<1>6. Payload(f.tag, px) = [size |-> Len(p), field |-> f] /\ Len(p) >= 1
  BY <1>1, <1>2, PayloadIsFound DEF px
<1>7. Len(t) >= 1
  <2>1. Len(t) \in 1..5
    BY <1>2, Zenon DEF IsVarint
  <2>2. \A n \in 1..5 : n >= 1
    OBVIOUS
  <2> QED BY <2>1, <2>2, Zenon
<1>8. f.tag % 8 \in {0, 1, 2, 5}
  BY <1>2 DEF IsPayload
<1>9. ~(f.tag = 0 \/ f.tag % 8 = 4)
  BY <1>1, <1>8
<1>10. Payload(f.tag, px).size = Len(p) /\ Payload(f.tag, px).field = f
  BY <1>6
<1>11. Valid(f) <=> (IsText(f.tag) => IsValidUTF8(f.bytes))
  BY <1>1, TextTag DEF Valid
<1>12. Len(t) # 0 /\ Len(p) # 0
  BY <1>3, <1>6, <1>7
<1>13. SubSeq(r, Len(t) + Len(p) + 1, Len(r)) = x
  BY <1>3
<1>14. w # <<>>
  <2>1. Len(w) = Len(t) + Len(p)
    BY <1>2
  <2> QED BY <1>3, <1>6, <2>1
<1> DEFINE s == Going(r, c, m)
           after == Going(x, c \/ IsText(f.tag), AddField(m, f))
<1>15. /\ Valid(f) => ParseField(s) = after
       /\ ~Valid(f) => ParseField(s) =
            [s EXCEPT !.status = "failure", !.mutable = c \/ IsText(f.tag)]
  <2>1. Branches(r, c, m, Len(t), f.tag, Payload(f.tag, px))
    BY <1>3, <1>4, <1>5, ParseFieldBranches, Zenon
  <2> QED BY <1>9, <1>10, <1>11, <1>12, <1>13, <2>1, Zenon DEF Branches
<1>16. [s EXCEPT !.status = "failure", !.mutable = c \/ IsText(f.tag)].status = "failure"
  BY DEF Going
<1> HIDE DEF s, after
<1>17. ~Valid(f) => ParseField(s).status = "failure"
  BY <1>15, <1>16, Zenon
<1> QED BY <1>14, <1>15, <1>17 DEF r, s, after

\* The loop's body takes a field off the input.
GoesOn(r, c, m) ==
  \E w, x \in Seq(Nat), f \in Field :
    /\ r = w \o x /\ Encodes(w, f) /\ Valid(f)
    /\ ParseField(Going(r, c, m)) = Going(x, c \/ IsText(f.tag), AddField(m, f))

\* The loop goes on only past a field, and stays within its states.
LEMMA StepIsField ==
  ASSUME NEW r \in Seq(Nat), NEW c \in BOOLEAN, NEW m \in Msg
  PROVE  /\ ParseField(Going(r, c, m)) \in ParseState
         /\ \/ /\ ParseField(Going(r, c, m)).status # "ok"
               /\ ParseField(Going(r, c, m)).msg = m
               /\ ~ParseField(Going(r, c, m)).mutable => ~c
            \/ GoesOn(r, c, m)
<1> DEFINE s == Going(r, c, m)
           k == VarintSize(r, 5)
           tag == Varint(r, k)
           px == SubSeq(r, k + 1, Len(r))
           q == Payload(tag, px)
           end == k # 0 /\ ~IsText(tag) /\ (tag = 0 \/ tag % 8 = 4)
           good == k # 0 /\ q.size # 0 /\ (IsText(tag) => IsValidUTF8(q.field.bytes))
           called == c \/ IsText(tag)
<1>1. /\ end /\ ~good => ParseField(s) = [s EXCEPT !.status = "done"]
      /\ ~end /\ good =>
           ParseField(s) = Going(SubSeq(r, k + q.size + 1, Len(r)), called, AddField(m, q.field))
      /\ ~end /\ ~good =>
           ParseField(s) = [s EXCEPT !.status = "failure", !.mutable = called]
  <2>1. Branches(r, c, m, k, tag, q)
    BY ParseFieldBranches, Zenon
  <2> HIDE DEF k, tag, q
  <2> QED BY <2>1, Zenon DEF Branches
<1>2. called \in BOOLEAN
  BY DEF IsText
<1>3. s \in ParseState
  BY GoingType
<1> HIDE DEF called
<1>4. s.msg = m /\ s.mutable = c
  BY DEF Going
<1>5. /\ \A t : t = [s EXCEPT !.status = "done"] =>
             t \in ParseState /\ t.status # "ok" /\ t.msg = m /\ (~t.mutable => ~c)
      /\ \A t : t = [s EXCEPT !.status = "failure", !.mutable = called] =>
             t \in ParseState /\ t.status # "ok" /\ t.msg = m /\ (~t.mutable => ~c)
  <2> HIDE DEF s
  <2>1. ASSUME NEW t, t = [s EXCEPT !.status = "done"]
        PROVE  t \in ParseState /\ t.status = "done" /\ t.msg = m /\ t.mutable = c
    BY <1>3, <1>4, <2>1 DEF ParseState
  <2>2. ASSUME NEW t, t = [s EXCEPT !.status = "failure", !.mutable = called]
        PROVE  t \in ParseState /\ t.status = "failure" /\ t.msg = m /\ t.mutable = called
    BY <1>2, <1>3, <1>4, <2>2 DEF ParseState
  <2>3. ~called => ~c
    BY DEF called
  <2>4. "done" # "ok" /\ "failure" # "ok"
    OBVIOUS
  <2> QED BY <2>1, <2>2, <2>3, <2>4, Zenon
<1>6. ASSUME good
      PROVE  ~end /\ \E w, x \in Seq(Nat), f \in Field :
               /\ r = w \o x /\ Encodes(w, f) /\ Valid(f)
               /\ Going(SubSeq(r, k + q.size + 1, Len(r)), called, AddField(m, q.field))
                    = Going(x, c \/ IsText(f.tag), AddField(m, f))
  <2> HIDE DEF s, k, q
  <2>1. k \in DOMAIN r /\ IsVarint(SubSeq(r, 1, k), tag, 5)
    BY <1>6, FoundIsVarint DEF k
  <2>2. k \in Nat /\ Len(r) \in Nat /\ k \in 1..Len(r) /\ k \in 0..Len(r)
    BY <2>1
  <2> DEFINE t == SubSeq(r, 1, k)
  <2>3. /\ t \in Seq(Nat) /\ px \in Seq(Nat) /\ r = t \o px
        /\ Len(t) = k /\ Len(px) = Len(r) - k
    BY <2>2, Cut
  <2>4. ReadVarint[t] = tag
    BY DEF Varint
  <2>5. tag \in Nat
    BY <2>3, <2>4, ReadVarintType
  <2> HIDE DEF t, px, tag
  <2>6. /\ tag >= 8 /\ q.size \in 1..Len(px) /\ q.field \in Field /\ q.field.tag = tag
        /\ IsPayload(SubSeq(px, 1, q.size), q.field)
    BY <1>6, <2>3, <2>5, FoundIsPayload DEF q
  <2> DEFINE p == SubSeq(px, 1, q.size)
             x == SubSeq(px, q.size + 1, Len(px))
             w == t \o p
  <2>7. /\ p \in Seq(Nat) /\ x \in Seq(Nat) /\ px = p \o x
        /\ Len(p) = q.size /\ Len(x) = Len(px) - q.size
    <3>1. q.size \in 0..Len(px)
      BY <2>6
    <3> QED BY <2>3, <3>1, Cut, ZenonT(60)
  <2> HIDE DEF p, x
  <2>8. /\ w \in Seq(Nat) /\ r = w \o x
        /\ SubSeq(r, k + q.size + 1, Len(r)) = x
    <3>0. t \in Seq(Nat) /\ p \in Seq(Nat) /\ x \in Seq(Nat)
      BY <2>3, <2>7
    <3>1. w \in Seq(Nat) /\ w \o x = t \o px
      <4>1. (t \o p) \o x = t \o (p \o x) /\ t \o p \in Seq(Nat)
        BY <3>0, ByteCat, ZenonT(60)
      <4> QED BY <2>7, <4>1, Zenon
    <3>2. SubSeq((t \o p) \o x, Len(t) + Len(p) + 1, Len(t) + Len(p) + Len(x)) = x
      BY <3>0, ByteParts, ZenonT(60)
    <3>3. Len(t) + Len(p) + Len(x) = Len(r)
      <4>1. Len(px) \in Nat /\ Len(p) \in Nat
        BY <2>3, <2>7
      <4> QED BY <2>2, <2>3, <2>7, <4>1
    <3> QED BY <2>3, <2>7, <3>1, <3>2, <3>3
  <2>9. Encodes(w, q.field)
    <3>1. IsVarint(t, q.field.tag, 5) /\ IsPayload(p, q.field) /\ q.field.tag >= 8
      BY <2>1, <2>6 DEF t, p
    <3>2. \E a, b \in Seq(Nat) :
            w = a \o b /\ IsVarint(a, q.field.tag, 5) /\ IsPayload(b, q.field)
      BY <2>3, <2>7, <3>1
    <3> HIDE DEF w
    <3> QED BY <2>6, <2>8, <3>1, <3>2, EncodesParts
  <2>10. Valid(q.field)
    BY <1>6, <2>5, <2>6, TextTag DEF Valid
  <2>11. tag % 8 \in {0, 1, 2, 5}
    BY <2>6 DEF IsPayload
  <2>12. ~end
    BY <2>5, <2>6, <2>11
  <2>13. Going(SubSeq(r, k + q.size + 1, Len(r)), called, AddField(m, q.field))
           = Going(x, c \/ IsText(q.field.tag), AddField(m, q.field))
    BY <2>6, <2>8 DEF called
  <2> HIDE DEF w, end
  <2> QED BY <2>6, <2>7, <2>8, <2>9, <2>10, <2>12, <2>13
<1>7. ASSUME NEW x \in Seq(Nat), NEW f \in Field
      PROVE  Going(x, c \/ IsText(f.tag), AddField(m, f)) \in ParseState
  <2>1. (c \/ IsText(f.tag)) \in BOOLEAN
    BY DEF IsText
  <2> QED BY <2>1, AddFieldType, GoingType
<1> HIDE DEF end, good, s, k, q
<1>8. CASE good
  BY <1>1, <1>6, <1>7, <1>8 DEF s, GoesOn
<1>9. CASE ~good
  <2>1. \/ ParseField(s) = [s EXCEPT !.status = "done"]
        \/ ParseField(s) = [s EXCEPT !.status = "failure", !.mutable = called]
    BY <1>1, <1>9
  <2>2. /\ ParseField(s) \in ParseState /\ ParseField(s).status # "ok"
        /\ ParseField(s).msg = m /\ (~ParseField(s).mutable => ~c)
    BY <1>5, <2>1, Zenon
  <2> QED BY <2>2 DEF s
<1> QED BY <1>8, <1>9

\* _InternalParse runs the body until it is done.
LEMMA InternalParseDef ==
  _InternalParse = [s \in ParseState |->
    IF s.status # "ok" \/ s.rest = <<>> THEN s ELSE _InternalParse[ParseField(s)]]
<1> DEFINE Stop == {s \in ParseState : s.status # "ok" \/ s.rest = <<>>}
           base == [s \in ParseState |-> s]
           step == [s \in ParseState |-> IF s \in Stop THEN s ELSE ParseField(s)]
           comb == [s \in ParseState |-> [r \in ParseState |-> r]]
           size == [s \in ParseState |-> IF s \in Stop THEN 0 ELSE Len(s.rest) + 1]
<1>1. ASSUME NEW s \in ParseState, s \notin Stop
      PROVE  /\ ParseField(s) \in ParseState
             /\ ParseField(s) \notin Stop => Len(ParseField(s).rest) < Len(s.rest)
  <2>1. s.status = "ok" /\ s.rest \in Seq(Nat) /\ s.mutable \in BOOLEAN /\ s.msg \in Msg
    BY <1>1 DEF ParseState, Msg
  <2>2. s = Going(s.rest, s.mutable, s.msg)
    BY <2>1 DEF ParseState, Going
  <2>3. ParseField(s) \in ParseState
    BY <2>1, <2>2, StepIsField
  <2>4. ASSUME ParseField(s) \notin Stop
        PROVE  Len(ParseField(s).rest) < Len(s.rest)
    <3>1. ParseField(s).status = "ok"
      BY <2>3, <2>4
    <3>2. PICK w \in Seq(Nat), x \in Seq(Nat), f \in Field :
            /\ s.rest = w \o x /\ Encodes(w, f)
            /\ ParseField(s) = Going(x, s.mutable \/ IsText(f.tag), AddField(s.msg, f))
      <4>1. GoesOn(s.rest, s.mutable, s.msg)
        BY <2>1, <2>2, <3>1, StepIsField
      <4> QED BY <2>2, <4>1, Zenon DEF GoesOn
    <3>3. w # <<>>
      BY <2>1, <3>2, FieldStep
    <3>4. ParseField(s).rest = x
      BY <3>2 DEF Going
    <3>5. Len(w \o x) = Len(w) + Len(x) /\ Len(w) \in Nat /\ Len(x) \in Nat /\ Len(w) # 0
      BY <3>3
    <3> QED BY <3>2, <3>4, <3>5
  <2> QED BY <2>3, <2>4
<1>2. base \in [ParseState -> ParseState] /\ comb \in [ParseState -> [ParseState -> ParseState]]
  OBVIOUS
<1>3. step \in [ParseState -> ParseState]
  <2> HIDE DEF Stop
  <2> QED BY <1>1
<1>4. \A s \in ParseState : s.rest \in Seq(Nat)
  BY DEF ParseState
<1> HIDE DEF Stop
<1>5. size \in [ParseState -> Nat]
  BY <1>4
<1>6. ASSUME NEW s \in ParseState, s \notin Stop
      PROVE  size[step[s]] < size[s]
  <2>1. step[s] = ParseField(s) /\ size[s] = Len(s.rest) + 1 /\ Len(s.rest) \in Nat
    BY <1>4, <1>6
  <2>2. ParseField(s) \in ParseState
    BY <1>1, <1>6
  <2>3. CASE ParseField(s) \in Stop
    BY <2>1, <2>2, <2>3
  <2>4. CASE ParseField(s) \notin Stop
    <3>1. Len(ParseField(s).rest) < Len(s.rest) /\ Len(ParseField(s).rest) \in Nat
      BY <1>1, <1>4, <1>6, <2>2, <2>4
    <3>2. size[ParseField(s)] = Len(ParseField(s).rest) + 1
      BY <2>2, <2>4
    <3> QED BY <2>1, <3>1, <3>2
  <2> QED BY <2>3, <2>4
<1>7. PICK f \in [ParseState -> ParseState] :
        Solution(f, ParseState, Stop, base, step, comb)
  <2>1. Recursive(ParseState, ParseState, Stop, base, step, comb, size)
    <3> HIDE DEF base, step, comb, size
    <3> QED BY <1>2, <1>3, <1>5, <1>6 DEF Recursive
  <2> HIDE DEF base, step, comb, size
  <2> QED BY <2>1, Recursion
<1>8. ASSUME NEW s \in ParseState
      PROVE  f[s] = IF s.status # "ok" \/ s.rest = <<>> THEN s ELSE f[ParseField(s)]
  <2>1. s \in Stop <=> (s.status # "ok" \/ s.rest = <<>>)
    BY DEF Stop
  <2>2. CASE s \in Stop
    BY <1>7, <2>1, <2>2 DEF Solution
  <2>3. CASE s \notin Stop
    <3>1. ParseField(s) \in ParseState
      BY <1>1, <2>3
    <3>2. f[s] = comb[s][f[ParseField(s)]]
      BY <1>7, <2>3 DEF Solution
    <3>3. f[ParseField(s)] \in ParseState
      BY <1>7, <3>1
    <3> QED BY <2>1, <2>3, <3>2, <3>3
  <2> QED BY <2>2, <2>3
<1>9. \E g : g = [s \in ParseState |->
        IF s.status # "ok" \/ s.rest = <<>> THEN s ELSE g[ParseField(s)]]
  <2>1. f = [s \in ParseState |->
               IF s.status # "ok" \/ s.rest = <<>> THEN s ELSE f[ParseField(s)]]
    BY <1>7, <1>8
  <2> QED BY <2>1
<1> QED BY <1>9 DEF _InternalParse

\* The loop ends with the input.
LEMMA LoopEnds ==
  ASSUME NEW c \in BOOLEAN, NEW m \in Msg
  PROVE  _InternalParse[Going(<<>>, c, m)] = Going(<<>>, c, m)
<1>1. Going(<<>>, c, m) \in ParseState
  <2>1. <<>> \in Seq(Nat)
    OBVIOUS
  <2> QED BY <2>1, GoingType
<1>2. Going(<<>>, c, m).rest = <<>>
  BY DEF Going
<1> QED BY <1>1, <1>2, InternalParseDef

\* It goes on from where its body leaves off, or is left there.
LEMMA LoopSteps ==
  ASSUME NEW r \in Seq(Nat), r # <<>>, NEW c \in BOOLEAN, NEW m \in Msg
  PROVE  /\ _InternalParse[Going(r, c, m)] = _InternalParse[ParseField(Going(r, c, m))]
         /\ ParseField(Going(r, c, m)).status # "ok" =>
              _InternalParse[Going(r, c, m)] = ParseField(Going(r, c, m))
<1> DEFINE s == Going(r, c, m)
           t == ParseField(s)
<1>1. s \in ParseState /\ t \in ParseState
  BY GoingType, StepIsField
<1>2. s.rest = r /\ s.status = "ok"
  BY DEF Going
<1> HIDE DEF s, t
<1>3. _InternalParse[s] = _InternalParse[ParseField(s)]
  BY <1>1, <1>2, InternalParseDef
<1>4. t.status # "ok" => _InternalParse[t] = t
  BY <1>1, InternalParseDef
<1>5. /\ _InternalParse[s] = _InternalParse[t]
      /\ t.status # "ok" => _InternalParse[s] = t
  BY <1>3, <1>4, Zenon DEF t
<1> QED BY <1>5 DEF s, t

\* It takes a field off the input, or fails on a text that is not valid.
LEMMA LoopTakes ==
  ASSUME NEW w \in Seq(Nat), NEW f \in Field, Encodes(w, f), NEW x \in Seq(Nat),
         NEW c \in BOOLEAN, NEW m \in Msg
  PROVE  /\ Valid(f) => _InternalParse[Going(w \o x, c, m)] =
                          _InternalParse[Going(x, c \/ IsText(f.tag), AddField(m, f))]
         /\ ~Valid(f) => _InternalParse[Going(w \o x, c, m)].status = "failure"
<1>1. w \o x \in Seq(Nat) /\ w \o x # <<>>
  <2>1. w # <<>>
    BY FieldStep
  <2> QED BY <2>1
<1> DEFINE r == w \o x
           s == Going(r, c, m)
<1>2. /\ Valid(f) => ParseField(s) = Going(x, c \/ IsText(f.tag), AddField(m, f))
      /\ ~Valid(f) => ParseField(s).status = "failure"
  BY FieldStep
<1>3. /\ _InternalParse[s] = _InternalParse[ParseField(s)]
      /\ ParseField(s).status # "ok" => _InternalParse[s] = ParseField(s)
  <2> HIDE DEF r
  <2>1. r \in Seq(Nat) /\ r # <<>>
    BY <1>1 DEF r
  <2> QED BY <2>1, LoopSteps
<1> HIDE DEF s
<1>4. Valid(f) => _InternalParse[s] =
                    _InternalParse[Going(x, c \/ IsText(f.tag), AddField(m, f))]
  BY <1>2, <1>3, Zenon
<1>5. ~Valid(f) => _InternalParse[s].status = "failure"
  BY <1>2, <1>3
<1> QED BY <1>4, <1>5 DEF s

\* It accepts nothing that does not start with a field.
LEMMA LoopAccepts ==
  ASSUME NEW r \in Seq(Nat), r # <<>>, NEW c \in BOOLEAN, NEW m \in Msg,
         _InternalParse[Going(r, c, m)].status = "ok"
  PROVE  GoesOn(r, c, m)
BY LoopSteps, StepIsField
-----------------------------------------------------------------------------
(* FlattenSeq. *)

\* It is what its recursive function says.
LEMMA FlattenDef ==
  ASSUME NEW S, NEW ss \in Seq(Seq(S)), ss # <<>>
  PROVE  \E f \in [1..Len(ss) -> Seq(S)] :
           /\ FlattenSeq(ss) = f[Len(ss)]
           /\ \A i \in 1..Len(ss) : f[i] = IF i = 1 THEN ss[i] ELSE f[i - 1] \o ss[i]
<1> DEFINE n == Len(ss)
           D == 1..n
           T == Seq(S)
           step == [i \in D |-> IF i = 1 THEN 1 ELSE i - 1]
           comb == [i \in D |-> [r \in T |-> r \o ss[i]]]
           size == [i \in D |-> i]
<1>1. n \in Nat /\ n >= 1 /\ ss \in [D -> T]
  OBVIOUS
<1>2. step \in [D -> D] /\ size \in [D -> Nat] /\ \A i \in D : i \notin {1} => size[step[i]] < size[i]
  <2> HIDE DEF n
  <2> QED BY <1>1
<1>3. comb \in [D -> [T -> T]]
  <2>1. \A r, q \in T : r \o q \in T
    OBVIOUS
  <2> HIDE DEF D, T
  <2> QED BY <1>1, <2>1
<1>4. PICK f \in [D -> T] : Solution(f, D, {1}, ss, step, comb)
  <2> HIDE DEF D, T, step, comb, size
  <2>1. Recursive(D, T, {1}, ss, step, comb, size)
    BY <1>1, <1>2, <1>3 DEF Recursive
  <2> QED BY <2>1, Recursion
<1>5. ASSUME NEW i \in D
      PROVE  f[i] = IF i = 1 THEN ss[i] ELSE f[i - 1] \o ss[i]
  <2>1. CASE i = 1
    BY <1>4, <2>1 DEF Solution
  <2>2. CASE i # 1
    <3>1. i - 1 \in D /\ step[i] = i - 1
      BY <1>1, <2>2
    <3>2. f[i] = comb[i][f[i - 1]]
      <4> HIDE DEF comb, step, D
      <4> QED BY <1>4, <2>2, <3>1 DEF Solution
    <3>3. f[i - 1] \in T
      BY <1>4, <3>1
    <3>4. comb[i][f[i - 1]] = f[i - 1] \o ss[i]
      <4> HIDE DEF D, T
      <4> QED BY <3>3
    <3> QED BY <2>2, <3>2, <3>4
  <2> QED BY <2>1, <2>2
<1>6. f = [i \in D |-> IF i = 1 THEN ss[i] ELSE f[i - 1] \o ss[i]]
  <2> HIDE DEF D
  <2> QED BY <1>4, <1>5
<1> DEFINE g == CHOOSE h : h = [i \in 1..Len(ss) |-> IF i = 1 THEN ss[i] ELSE h[i - 1] \o ss[i]]
<1>7. g = [i \in 1..Len(ss) |-> IF i = 1 THEN ss[i] ELSE g[i - 1] \o ss[i]]
  <2>1. \E h : h = [i \in 1..Len(ss) |-> IF i = 1 THEN ss[i] ELSE h[i - 1] \o ss[i]]
    BY <1>6
  <2> QED BY <2>1
<1>8. FlattenSeq(ss) = g[Len(ss)]
  BY <1>1 DEF FlattenSeq
<1> HIDE DEF g
<1>9. g \in [D -> T]
  <2> DEFINE G == {k \in Nat : k \in D => g[k] \in T}
  <2>1. ASSUME NEW k \in Nat, \A j \in Nat : j < k => j \in G
        PROVE  k \in G
    <3>1. SUFFICES ASSUME k \in D
                   PROVE  g[k] \in T
      OBVIOUS
    <3>2. g[k] = IF k = 1 THEN ss[k] ELSE g[k - 1] \o ss[k]
      BY <1>7, <3>1
    <3>3. CASE k = 1
      BY <1>1, <3>1, <3>2, <3>3
    <3>4. CASE k # 1
      <4>1. k - 1 \in Nat /\ k - 1 < k /\ k - 1 \in D
        BY <1>1, <3>1, <3>4
      <4>2. g[k - 1] \in T
        BY <2>1, <4>1
      <4>3. ss[k] \in T
        BY <1>1, <3>1
      <4> QED BY <3>2, <3>4, <4>2, <4>3
    <3> QED BY <3>3, <3>4
  <2>2. \A k \in Nat : k \in G
    <3> HIDE DEF G
    <3> QED BY <2>1, Induction
  <2>3. \A k \in D : g[k] \in T
    BY <2>2, <1>1
  <2> QED BY <1>7, <2>3
<1>10. \A i \in 1..Len(ss) : g[i] = IF i = 1 THEN ss[i] ELSE g[i - 1] \o ss[i]
  BY <1>7
<1> QED BY <1>8, <1>9, <1>10

\* What Append does, element by element.
LEMMA Appended ==
  ASSUME NEW T, NEW s \in Seq(T), NEW z \in T
  PROVE  /\ Len(s) \in Nat /\ DOMAIN s = 1..Len(s)
         /\ Append(s, z) \in Seq(T) /\ Append(s, z) # <<>> /\ Len(Append(s, z)) = Len(s) + 1
         /\ DOMAIN Append(s, z) = 1..(Len(s) + 1)
         /\ \A i \in 1..Len(s) : Append(s, z)[i] = s[i]
         /\ Append(s, z)[Len(s) + 1] = z
OBVIOUS

\* Nothing flattens to nothing.
LEMMA FlattenEmpty == FlattenSeq(<<>>) = <<>>
BY DEF FlattenSeq

\* What is appended comes last.
LEMMA FlattenAppend ==
  ASSUME NEW S, NEW ss \in Seq(Seq(S)), NEW z \in Seq(S)
  PROVE  /\ FlattenSeq(ss) \in Seq(S)
         /\ FlattenSeq(Append(ss, z)) = FlattenSeq(ss) \o z
<1> DEFINE n == Len(ss)
           tt == Append(ss, z)
<1>1. /\ n \in Nat /\ tt \in Seq(Seq(S)) /\ tt # <<>> /\ Len(tt) = n + 1
      /\ \A i \in 1..n : tt[i] = ss[i]
      /\ tt[n + 1] = z
  BY Appended
<1> HIDE DEF tt
<1>2. PICK g \in [1..Len(tt) -> Seq(S)] :
        /\ FlattenSeq(tt) = g[Len(tt)]
        /\ \A i \in 1..Len(tt) : g[i] = IF i = 1 THEN tt[i] ELSE g[i - 1] \o tt[i]
  BY <1>1, FlattenDef, ZenonT(60)
<1>3. CASE ss = <<>>
  <2>1. n = 0 /\ FlattenSeq(ss) = <<>>
    BY <1>3, FlattenEmpty
  <2>2. FlattenSeq(tt) = z
    BY <1>1, <1>2, <2>1
  <2> QED BY <2>1, <2>2 DEF tt
<1>4. CASE ss # <<>>
  <2>1. n >= 1
    BY <1>4
  <2>2. PICK f \in [1..n -> Seq(S)] :
          /\ FlattenSeq(ss) = f[n]
          /\ \A i \in 1..n : f[i] = IF i = 1 THEN ss[i] ELSE f[i - 1] \o ss[i]
    BY <1>4, FlattenDef
  <2> HIDE DEF n
  <2> DEFINE G == {k \in Nat : k \in 1..n => g[k] = f[k]}
  <2>3. ASSUME NEW k \in Nat, \A j \in Nat : j < k => j \in G
        PROVE  k \in G
    <3>1. SUFFICES ASSUME k \in 1..n
                   PROVE  g[k] = f[k]
      OBVIOUS
    <3>2. k \in 1..Len(tt) /\ tt[k] = ss[k]
      BY <1>1, <3>1
    <3>3. CASE k = 1
      BY <1>2, <2>2, <3>1, <3>2, <3>3
    <3>4. CASE k # 1
      <4>1. k - 1 \in Nat /\ k - 1 < k /\ k - 1 \in 1..n
        BY <1>1, <3>1, <3>4
      <4>2. g[k - 1] = f[k - 1]
        BY <2>3, <4>1
      <4> QED BY <1>2, <2>2, <3>1, <3>2, <3>4, <4>2, ZenonT(60)
    <3> QED BY <3>3, <3>4
  <2>4. \A k \in Nat : k \in G
    <3> HIDE DEF G
    <3> QED BY <2>3, Induction
  <2>5. n \in 1..n /\ n + 1 \in 1..Len(tt) /\ n + 1 # 1 /\ (n + 1) - 1 = n
    BY <1>1, <2>1
  <2>6. g[n] = f[n]
    BY <1>1, <2>4, <2>5
  <2>7. g[n + 1] = g[n] \o z
    BY <1>1, <1>2, <2>5
  <2>8. f[n] \in Seq(S)
    BY <2>2, <2>5
  <2> QED BY <1>1, <1>2, <2>2, <2>6, <2>7, <2>8 DEF tt
<1> QED BY <1>3, <1>4
-----------------------------------------------------------------------------
(* Sequences of fields. *)

\* A field with its bytes.
Sample == [wire : Seq(Nat), field : Field]

Encoded(fs) == \A i \in DOMAIN fs : Encodes(fs[i].wire, fs[i].field)

AllValid(fs) == \A i \in DOMAIN fs : Valid(fs[i].field)

\* The bytes of no fields.
LEMMA WireEmpty == Wire(<<>>) = <<>>
<1>1. [i \in DOMAIN <<>> |-> <<>>[i].wire] = <<>>
  OBVIOUS
<1> QED BY <1>1, FlattenEmpty DEF Wire

\* The bytes of one more field.
LEMMA WireAppend ==
  ASSUME NEW fs \in Seq(Sample), NEW s \in Sample
  PROVE  /\ Wire(fs) \in Seq(Nat)
         /\ Wire(Append(fs, s)) = Wire(fs) \o s.wire
<1> DEFINE ws == [i \in DOMAIN fs |-> fs[i].wire]
           gs == Append(fs, s)
<1>1. s.wire \in Seq(Nat) /\ \A i \in DOMAIN fs : fs[i].wire \in Seq(Nat)
  <2>1. \A x \in Sample : x.wire \in Seq(Nat)
    BY DEF Sample
  <2> QED BY <2>1
<1>2. ws \in Seq(Seq(Nat))
  <2> DEFINE T == Seq(Nat)
  <2>1. \A i \in 1..Len(fs) : fs[i].wire \in T
    BY <1>1
  <2> HIDE DEF T
  <2>2. [i \in DOMAIN fs |-> fs[i].wire] \in Seq(T)
    BY <2>1
  <2> QED BY <2>2 DEF T
<1>3. [i \in DOMAIN gs |-> gs[i].wire] = Append(ws, s.wire)
  <2>1. /\ Len(fs) \in Nat /\ DOMAIN fs = 1..Len(fs) /\ DOMAIN gs = 1..(Len(fs) + 1)
        /\ \A i \in 1..Len(fs) : gs[i] = fs[i]
        /\ gs[Len(fs) + 1] = s
    OBVIOUS
  <2> HIDE DEF gs
  <2>2. Len(ws) = Len(fs)
    BY <2>1
  <2>3. /\ DOMAIN Append(ws, s.wire) = 1..(Len(fs) + 1)
        /\ \A i \in 1..Len(fs) : Append(ws, s.wire)[i] = fs[i].wire
        /\ Append(ws, s.wire)[Len(fs) + 1] = s.wire
        /\ Append(ws, s.wire) = [i \in DOMAIN Append(ws, s.wire) |-> Append(ws, s.wire)[i]]
    BY <1>1, <1>2, <2>1, <2>2
  <2> HIDE DEF ws
  <2>4. ASSUME NEW i \in 1..(Len(fs) + 1)
        PROVE  gs[i].wire = Append(ws, s.wire)[i]
    <3>1. CASE i \in 1..Len(fs)
      BY <2>1, <2>3, <3>1
    <3>2. CASE i = Len(fs) + 1
      BY <2>1, <2>3, <3>2
    <3>3. i \in 1..Len(fs) \/ i = Len(fs) + 1
      <4> DEFINE n == Len(fs)
      <4>1. n \in Nat
        BY <2>1
      <4> HIDE DEF n
      <4>2. \A j \in 1..(n + 1) : j \in 1..n \/ j = n + 1
        BY <4>1
      <4> QED BY <4>2 DEF n
    <3> QED BY <3>1, <3>2, <3>3
  <2> QED BY <2>1, <2>3, <2>4
<1>4. FlattenSeq(ws) \in Seq(Nat) /\ FlattenSeq(Append(ws, s.wire)) = FlattenSeq(ws) \o s.wire
  <2>1. \A S : \A ss \in Seq(Seq(S)), z \in Seq(S) :
          FlattenSeq(ss) \in Seq(S) /\ FlattenSeq(Append(ss, z)) = FlattenSeq(ss) \o z
    BY FlattenAppend
  <2> HIDE DEF ws
  <2> QED BY <1>1, <1>2, <2>1, Zenon
<1> QED BY <1>3, <1>4 DEF Wire

\* The greatest of some numbers up to n.
LEMMA MaxUpTo ==
  ASSUME NEW n \in Nat, NEW T \in SUBSET (1..n), T # {}
  PROVE  Max(T) \in T /\ \A k \in T : Max(T) >= k
<1> DEFINE U == {n - k : k \in T}
<1>1. U \in SUBSET Nat /\ U # {}
  <2>1. \A k \in T : n - k \in Nat
    OBVIOUS
  <2>2. PICK k \in T : TRUE
    OBVIOUS
  <2>3. n - k \in U
    OBVIOUS
  <2> QED BY <2>1, <2>3
<1>2. Min(U) \in U /\ \A u \in U : Min(U) <= u
  <2> HIDE DEF U
  <2> QED BY <1>1, MinOfNat
<1>3. PICK x \in T : Min(U) = n - x
  BY <1>2
<1>4. ASSUME NEW k \in T
      PROVE  x >= k
  <2>1. n - k \in U
    OBVIOUS
  <2>2. n - x <= n - k
    BY <1>2, <1>3, <2>1
  <2>3. x \in Nat /\ k \in Nat
    OBVIOUS
  <2> QED BY <2>2, <2>3
<1>5. \E y \in T : \A k \in T : y >= k
  BY <1>4
<1> QED BY <1>5 DEF Max

\* Which fields are texts, and what each adds to the unknown fields.
TextsOf(fs) == {i \in DOMAIN fs : IsTextSample(fs[i])}

UnknownOf(fs) == [i \in DOMAIN fs |-> IF i \in TextsOf(fs) THEN <<>> ELSE <<fs[i].field>>]

\* Meaning, in these words.
LEMMA MeaningIs ==
  ASSUME NEW fs
  PROVE  Meaning(fs) =
           [text |-> IF TextsOf(fs) = {} THEN <<>> ELSE fs[Max(TextsOf(fs))].field.bytes,
            unknown |-> FlattenSeq(UnknownOf(fs))]
BY Zenon DEF Meaning, TextsOf, UnknownOf

\* Samples have bytes and a field.
LEMMA SampleType ==
  ASSUME NEW s \in Sample
  PROVE  /\ s.wire \in Seq(Nat) /\ s.field \in Field
         /\ s.field.tag \in Nat /\ s.field.bytes \in Seq(Nat) /\ s.field.varint \in Nat
         /\ IsTextSample(s) <=> IsText(s.field.tag)
<1>1. s.wire \in Seq(Nat) /\ s.field \in Field
  BY DEF Sample
<1>2. s.field.tag \in Nat /\ s.field.bytes \in Seq(Nat) /\ s.field.varint \in Nat
  BY <1>1 DEF Field
<1> QED BY <1>1, <1>2, TextTag DEF IsTextSample

\* No fields mean nothing.
LEMMA MeaningEmpty == Meaning(<<>>) = Empty
<1>1. TextsOf(<<>>) = {}
  BY DEF TextsOf
<1>2. UnknownOf(<<>>) = <<>>
  BY DEF UnknownOf
<1> QED BY <1>1, <1>2, MeaningIs, FlattenEmpty, Zenon DEF Empty

\* The unknown fields are fields.
LEMMA UnknownType ==
  ASSUME NEW fs \in Seq(Sample)
  PROVE  UnknownOf(fs) \in Seq(Seq(Field))
<1> DEFINE T == Seq(Field)
           u(i) == IF i \in TextsOf(fs) THEN <<>> ELSE <<fs[i].field>>
<1>1. \A i \in 1..Len(fs) : fs[i].field \in Field
  BY SampleType
<1>2. \A i \in 1..Len(fs) : u(i) \in T
  <2>1. \A f \in Field : <<f>> \in T
    OBVIOUS
  <2>2. <<>> \in T
    OBVIOUS
  <2> HIDE DEF T
  <2> QED BY <1>1, <2>1, <2>2
<1> HIDE DEF T, u
<1>3. [i \in DOMAIN fs |-> u(i)] \in Seq(T)
  BY <1>2
<1> QED BY <1>3 DEF UnknownOf, T, u

\* One more field adds to what the others mean as the parser adds it.
LEMMA MeaningAppend ==
  ASSUME NEW fs \in Seq(Sample), NEW s \in Sample
  PROVE  /\ Meaning(fs) \in Msg
         /\ Meaning(Append(fs, s)) = AddField(Meaning(fs), s.field)
<1> DEFINE n == Len(fs)
           gs == Append(fs, s)
           U == UnknownOf(fs)
           T == TextsOf(fs)
<1>1. /\ n \in Nat /\ DOMAIN fs = 1..n /\ DOMAIN gs = 1..(n + 1)
      /\ \A i \in 1..n : gs[i] = fs[i]
      /\ gs[n + 1] = s
  BY Appended
<1>2. /\ s.field \in Field /\ s.field.bytes \in Seq(Nat)
      /\ IsTextSample(s) <=> IsText(s.field.tag)
  BY SampleType
<1>3. U \in Seq(Seq(Field)) /\ Len(U) = n /\ DOMAIN U = 1..n
  <2>1. DOMAIN U = DOMAIN fs
    BY DEF UnknownOf
  <2> HIDE DEF U
  <2> QED BY <1>1, <2>1, UnknownType DEF U
<1>4. T \in SUBSET (1..n)
  BY <1>1 DEF TextsOf
<1>5. T # {} => /\ Max(T) \in 1..n /\ Max(T) \in T
                /\ fs[Max(T)].field.bytes \in Seq(Nat) /\ gs[Max(T)] = fs[Max(T)]
  <2> HIDE DEF T, gs, n
  <2> SUFFICES ASSUME T # {}
               PROVE  /\ Max(T) \in 1..n /\ Max(T) \in T
                      /\ fs[Max(T)].field.bytes \in Seq(Nat) /\ gs[Max(T)] = fs[Max(T)]
    OBVIOUS
  <2>1. Max(T) \in 1..n /\ Max(T) \in T
    BY <1>1, <1>4, MaxUpTo
  <2>2. fs[Max(T)] \in Sample
    BY <1>1, <2>1
  <2> QED BY <1>1, <2>1, <2>2, SampleType
<1>6. \A z \in Seq(Field) : /\ FlattenSeq(U) \in Seq(Field)
                            /\ FlattenSeq(Append(U, z)) = FlattenSeq(U) \o z
  <2>1. \A S : \A ss \in Seq(Seq(S)), z \in Seq(S) :
          FlattenSeq(ss) \in Seq(S) /\ FlattenSeq(Append(ss, z)) = FlattenSeq(ss) \o z
    BY FlattenAppend
  <2> HIDE DEF U
  <2> QED BY <1>3, <2>1, Zenon
<1>7. FlattenSeq(U) \in Seq(Field)
  <2>1. <<>> \in Seq(Field)
    OBVIOUS
  <2> QED BY <1>6, <2>1
<1> DEFINE text == IF T = {} THEN <<>> ELSE fs[Max(T)].field.bytes
<1>8. Meaning(fs) = [text |-> text, unknown |-> FlattenSeq(U)]
  BY MeaningIs
<1>9. text \in Seq(Nat)
  <2> HIDE DEF T
  <2>1. <<>> \in Seq(Nat)
    OBVIOUS
  <2> QED BY <1>5, <2>1
<1>10. Meaning(fs) \in Msg
  <2> HIDE DEF text, U
  <2> QED BY <1>7, <1>8, <1>9 DEF Msg
<1>11. TextsOf(gs) = IF IsTextSample(s) THEN T \cup {n + 1} ELSE T
  <2> HIDE DEF gs, n
  <2>1. \A i \in 1..(n + 1) : i \in 1..n \/ i = n + 1
    BY <1>1
  <2>2. \A i \in 1..n : i \in 1..(n + 1) /\ i # n + 1
    BY <1>1
  <2>3. n + 1 \in 1..(n + 1) /\ n + 1 \notin 1..n
    BY <1>1
  <2>4. \A i : i \in TextsOf(gs) <=> i \in 1..(n + 1) /\ IsTextSample(gs[i])
    BY <1>1 DEF TextsOf
  <2>5. \A i : i \in T <=> i \in 1..n /\ IsTextSample(fs[i])
    BY <1>1 DEF TextsOf
  <2> HIDE DEF T
  <2>6. ASSUME IsTextSample(s)
        PROVE  TextsOf(gs) = T \cup {n + 1}
    <3>1. \A i : i \in TextsOf(gs) => i \in T \cup {n + 1}
      BY <1>1, <2>1, <2>4, <2>5, Zenon
    <3>2. \A i : i \in T => i \in TextsOf(gs)
      BY <1>1, <2>2, <2>4, <2>5, Zenon
    <3>3. n + 1 \in TextsOf(gs)
      BY <1>1, <2>3, <2>4, <2>6, Zenon
    <3> QED BY <3>1, <3>2, <3>3
  <2>7. ASSUME ~IsTextSample(s)
        PROVE  TextsOf(gs) = T
    <3>1. \A i : i \in TextsOf(gs) => i \in T
      BY <1>1, <2>1, <2>4, <2>5, <2>7, Zenon
    <3>2. \A i : i \in T => i \in TextsOf(gs)
      BY <1>1, <2>2, <2>4, <2>5, Zenon
    <3> QED BY <3>1, <3>2
  <2> QED BY <2>6, <2>7
<1>12. n + 1 \notin T /\ \A i \in 1..n : i # n + 1
  BY <1>1, <1>4
<1> DEFINE z == IF IsTextSample(s) THEN <<>> ELSE <<s.field>>
<1>13. z \in Seq(Field)
  BY <1>2
<1>14. UnknownOf(gs) = Append(U, z)
  <2>1. /\ DOMAIN Append(U, z) = 1..(n + 1)
        /\ \A i \in 1..n : Append(U, z)[i] = U[i]
        /\ Append(U, z)[n + 1] = z
        /\ Append(U, z) \in Seq(Seq(Field))
    <3> DEFINE F == Seq(Field)
    <3> HIDE DEF F, U, z, n
    <3>1. U \in Seq(F) /\ z \in F
      BY <1>3, <1>13 DEF F
    <3> QED BY <1>3, <3>1, Appended DEF F
  <2> HIDE DEF gs
  <2>2. UnknownOf(gs) = [i \in 1..(n + 1) |-> IF i \in TextsOf(gs) THEN <<>> ELSE <<gs[i].field>>]
    BY <1>1 DEF UnknownOf
  <2>3. \A i \in 1..n : U[i] = IF i \in T THEN <<>> ELSE <<fs[i].field>>
    BY <1>1 DEF UnknownOf
  <2> DEFINE A == Append(U, z)
             e(i) == IF i \in TextsOf(gs) THEN <<>> ELSE <<gs[i].field>>
  <2>4. n + 1 \in TextsOf(gs) <=> IsTextSample(s)
    BY <1>11, <1>12
  <2>5. \A i \in 1..n : i \in TextsOf(gs) <=> i \in T
    BY <1>11, <1>12
  <2> HIDE DEF U, T, n
  <2>6. A[n + 1] = e(n + 1)
    BY <1>1, <2>1, <2>4
  <2>7. \A i \in 1..n : A[i] = e(i)
    BY <1>1, <2>1, <2>3, <2>5, Zenon
  <2> HIDE DEF z
  <2>8. DOMAIN A = 1..(n + 1) /\ A = [i \in DOMAIN A |-> A[i]]
    <3>1. \A F : \A q \in Seq(F) : q = [i \in DOMAIN q |-> q[i]]
      OBVIOUS
    <3>2. A \in Seq(Seq(Field)) /\ DOMAIN A = 1..(n + 1)
      BY <2>1
    <3> HIDE DEF A
    <3> QED BY <3>1, <3>2, Zenon
  <2>9. \A i \in 1..(n + 1) : i \in 1..n \/ i = n + 1
    BY <1>1
  <2> HIDE DEF A, e
  <2>10. \A i \in 1..(n + 1) : A[i] = e(i)
    BY <2>6, <2>7, <2>9, Zenon
  <2>11. UnknownOf(gs) = [i \in 1..(n + 1) |-> e(i)]
    BY <2>2 DEF e
  <2>12. UnknownOf(gs) = A
    BY <2>8, <2>10, <2>11
  <2> QED BY <2>12 DEF A
<1>15. FlattenSeq(UnknownOf(gs)) = FlattenSeq(U) \o z
  <2> HIDE DEF U, z, gs
  <2> QED BY <1>6, <1>13, <1>14
<1>16. Meaning(gs) =
         [text |-> IF TextsOf(gs) = {} THEN <<>> ELSE gs[Max(TextsOf(gs))].field.bytes,
          unknown |-> FlattenSeq(U) \o z]
  <2> HIDE DEF U, z, gs
  <2> QED BY <1>15, MeaningIs
<1>17. CASE IsTextSample(s)
  <2> HIDE DEF U, gs, T
  <2>1. z = <<>> /\ FlattenSeq(U) \o <<>> = FlattenSeq(U)
    BY <1>7, <1>17
  <2>2. TextsOf(gs) = T \cup {n + 1}
    BY <1>11, <1>17
  <2>3. Max(TextsOf(gs)) = n + 1
    <3> DEFINE X == TextsOf(gs)
    <3> HIDE DEF X, n
    <3>1. n + 1 \in Nat /\ X \in SUBSET (1..(n + 1)) /\ n + 1 \in X
      <4>1. n + 1 \in Nat /\ n + 1 \in 1..(n + 1) /\ \A i \in 1..n : i \in 1..(n + 1)
        BY <1>1
      <4>2. X = T \cup {n + 1}
        BY <2>2 DEF X
      <4> QED BY <1>4, <4>1, <4>2
    <3>2. Max(X) \in X /\ \A k \in X : Max(X) >= k
      BY <3>1, MaxUpTo
    <3>3. Max(X) \in 1..(n + 1) /\ Max(X) >= n + 1
      BY <3>1, <3>2
    <3>4. Max(X) = n + 1
      BY <1>1, <3>3
    <3> QED BY <3>4 DEF X
  <2>4. Meaning(gs) = [text |-> s.field.bytes, unknown |-> FlattenSeq(U)]
    BY <1>1, <1>16, <2>1, <2>2, <2>3
  <2>5. AddField(Meaning(fs), s.field) = [Meaning(fs) EXCEPT !.text = s.field.bytes]
    BY <1>2, <1>17 DEF AddField
  <2>6. [Meaning(fs) EXCEPT !.text = s.field.bytes]
          = [text |-> s.field.bytes, unknown |-> FlattenSeq(U)]
    BY <1>8
  <2> QED BY <1>10, <2>4, <2>5, <2>6 DEF gs
<1>18. CASE ~IsTextSample(s)
  <2> HIDE DEF U, gs, T
  <2>1. z = <<s.field>>
    BY <1>18
  <2>2. TextsOf(gs) = T
    BY <1>11, <1>18
  <2>3. Meaning(gs) = [text |-> text, unknown |-> FlattenSeq(U) \o <<s.field>>]
    BY <1>5, <1>16, <2>1, <2>2, Zenon
  <2> HIDE DEF text
  <2>4. AddField(Meaning(fs), s.field) = [Meaning(fs) EXCEPT !.unknown = Append(@, s.field)]
    BY <1>2, <1>18 DEF AddField
  <2>5. Meaning(fs).unknown = FlattenSeq(U)
    BY <1>8
  <2>6. Append(FlattenSeq(U), s.field) = FlattenSeq(U) \o <<s.field>>
    BY <1>2, <1>7
  <2>7. [Meaning(fs) EXCEPT !.unknown = FlattenSeq(U) \o <<s.field>>]
          = [text |-> text, unknown |-> FlattenSeq(U) \o <<s.field>>]
    <3>1. \A m, a, b, c : m = [text |-> a, unknown |-> b] =>
                            [m EXCEPT !.unknown = c] = [text |-> a, unknown |-> c]
      OBVIOUS
    <3> DEFINE m == Meaning(fs)
               b == FlattenSeq(U)
               c == FlattenSeq(U) \o <<s.field>>
    <3>2. m = [text |-> text, unknown |-> b]
      BY <1>8
    <3> HIDE DEF m, b, c
    <3>3. [m EXCEPT !.unknown = c] = [text |-> text, unknown |-> c]
      BY <3>1, <3>2
    <3> QED BY <3>3 DEF m, c
  <2>8. AddField(Meaning(fs), s.field) = [Meaning(fs) EXCEPT !.unknown = FlattenSeq(U) \o <<s.field>>]
    BY <2>4, <2>5, <2>6, Zenon
  <2> QED BY <1>10, <2>3, <2>7, <2>8 DEF gs
<1> QED BY <1>17, <1>18

\* A sequence that is not empty is another one with something appended.
LEMMA Unappend ==
  ASSUME NEW T, NEW s \in Seq(T), s # <<>>
  PROVE  \E t \in Seq(T), z \in T : s = Append(t, z) /\ Len(s) = Len(t) + 1
<1>1. PICK n \in Nat : n = Len(s)
  OBVIOUS
<1>2. n >= 1 /\ s \in [1..n -> T] /\ s[n] \in T /\ DOMAIN s = 1..n
  BY <1>1
<1>3. PICK t : t = [i \in 1..(n - 1) |-> s[i]]
  OBVIOUS
<1>4. t \in Seq(T) /\ Len(t) = n - 1 /\ \A i \in 1..(n - 1) : t[i] = s[i]
  <2>1. n - 1 \in Nat /\ \A i \in 1..(n - 1) : s[i] \in T
    BY <1>2
  <2> QED BY <1>3, <2>1
<1>5. PICK u : u = Append(t, s[n])
  OBVIOUS
<1>6. /\ u \in Seq(T) /\ DOMAIN u = 1..n
      /\ \A i \in 1..(n - 1) : u[i] = t[i]
      /\ u[n] = s[n]
  <2>1. (n - 1) + 1 = n
    OBVIOUS
  <2> QED BY <1>2, <1>4, <1>5, <2>1, Appended
<1>7. \A i \in 1..n : u[i] = s[i]
  <2>1. \A i \in 1..n : i \in 1..(n - 1) \/ i = n
    OBVIOUS
  <2> QED BY <1>4, <1>6, <2>1, Zenon
<1>8. s = u
  <2>1. \A q \in Seq(T) : q = [i \in DOMAIN q |-> q[i]]
    OBVIOUS
  <2>2. s = [i \in 1..n |-> s[i]] /\ u = [i \in 1..n |-> u[i]]
    BY <1>2, <1>6, <2>1, Zenon
  <2>3. [i \in 1..n |-> s[i]] = [i \in 1..n |-> u[i]]
    BY <1>7, Zenon
  <2> QED BY <2>2, <2>3, Zenon
<1>9. Len(s) = Len(t) + 1
  BY <1>1, <1>4
<1> QED BY <1>2, <1>4, <1>5, <1>8, <1>9, Zenon

\* One more field: what holds of all of them.
LEMMA AppendSample ==
  ASSUME NEW fs \in Seq(Sample), NEW s \in Sample
  PROVE  /\ Append(fs, s) \in Seq(Sample)
         /\ Encoded(Append(fs, s)) <=> Encoded(fs) /\ Encodes(s.wire, s.field)
         /\ AllValid(Append(fs, s)) <=> AllValid(fs) /\ Valid(s.field)
<1> DEFINE n == Len(fs)
           gs == Append(fs, s)
<1>1. /\ n \in Nat /\ DOMAIN fs = 1..n /\ DOMAIN gs = 1..(n + 1) /\ gs \in Seq(Sample)
      /\ \A i \in 1..n : gs[i] = fs[i]
      /\ gs[n + 1] = s
  BY Appended
<1> HIDE DEF n, gs
<1>2. /\ \A i \in 1..(n + 1) : i \in 1..n \/ i = n + 1
      /\ \A i \in 1..n : i \in 1..(n + 1)
      /\ n + 1 \in 1..(n + 1)
  BY <1>1
<1>3. Encoded(gs) <=> Encoded(fs) /\ Encodes(s.wire, s.field)
  BY <1>1, <1>2, Zenon DEF Encoded
<1>4. AllValid(gs) <=> AllValid(fs) /\ Valid(s.field)
  BY <1>1, <1>2, Zenon DEF AllValid
<1> QED BY <1>1, <1>3, <1>4 DEF gs

\* The loop has read fs and x is left; or it has failed.
Runs(fs, x) ==
  LET r == _InternalParse[Going(Wire(fs) \o x, FALSE, Empty)]
  IN  IF AllValid(fs)
      THEN \E c \in BOOLEAN : r = _InternalParse[Going(x, c, Meaning(fs))]
      ELSE r.status = "failure"

\* The message the loop starts with.
LEMMA EmptyType == Empty \in Msg
BY DEF Empty, Msg

\* A sequence of fields is read from the front of any input.
LEMMA FieldsAreRead ==
  ASSUME NEW fs \in Seq(Sample), Encoded(fs), NEW x \in Seq(Nat)
  PROVE  Runs(fs, x)
<1> DEFINE G == {n \in Nat : \A gs \in Seq(Sample) : Len(gs) = n /\ Encoded(gs) =>
                               \A y \in Seq(Nat) : Runs(gs, y)}
<1>1. ASSUME NEW n \in Nat, \A k \in Nat : k < n => k \in G
      PROVE  n \in G
  <2> SUFFICES ASSUME NEW gs \in Seq(Sample), Len(gs) = n, Encoded(gs), NEW y \in Seq(Nat)
               PROVE  Runs(gs, y)
    OBVIOUS
  <2>1. CASE gs = <<>>
    <3>1. Wire(gs) \o y = y /\ Meaning(gs) = Empty
      BY <2>1, WireEmpty, MeaningEmpty
    <3>2. AllValid(gs)
      BY <2>1 DEF AllValid
    <3> QED BY <3>1, <3>2, Zenon DEF Runs
  <2>2. CASE gs # <<>>
    <3>1. PICK hs \in Seq(Sample), s \in Sample : gs = Append(hs, s) /\ Len(gs) = Len(hs) + 1
      BY <2>2, Unappend
    <3> DEFINE z == s.wire \o y
               v == Wire(gs) \o y
               r == _InternalParse[Going(v, FALSE, Empty)]
    <3>2. /\ Encoded(hs) /\ Encodes(s.wire, s.field)
          /\ AllValid(gs) <=> AllValid(hs) /\ Valid(s.field)
      BY <3>1, AppendSample
    <3>3. s.wire \in Seq(Nat) /\ s.field \in Field
      BY SampleType
    <3>4. Wire(hs) \in Seq(Nat) /\ Wire(gs) = Wire(hs) \o s.wire
      BY <3>1, WireAppend
    <3>5. z \in Seq(Nat) /\ v = Wire(hs) \o z
      <4>1. /\ (Wire(hs) \o s.wire) \o y = Wire(hs) \o (s.wire \o y)
            /\ s.wire \o y \in Seq(Nat)
        <5>1. Wire(hs) \in Seq(Nat)
          BY <3>4
        <5> QED BY <3>3, <5>1, ByteCat, Zenon
      <4> QED BY <3>4, <4>1, Zenon
    <3>6. Runs(hs, z)
      <4>1. Len(hs) \in Nat /\ Len(hs) < n
        BY <3>1
      <4>2. Len(hs) \in G
        BY <1>1, <4>1
      <4> HIDE DEF z
      <4> QED BY <3>2, <3>5, <4>2
    <3>7. Meaning(hs) \in Msg /\ Meaning(gs) = AddField(Meaning(hs), s.field)
      BY <3>1, MeaningAppend
    <3>8. Runs(gs, y) <=> IF AllValid(gs)
                          THEN \E c \in BOOLEAN : r = _InternalParse[Going(y, c, Meaning(gs))]
                          ELSE r.status = "failure"
      BY DEF Runs
    <3> HIDE DEF v
    <3>9. CASE AllValid(hs)
      <4>1. PICK c \in BOOLEAN : r = _InternalParse[Going(z, c, Meaning(hs))]
        BY <3>5, <3>6, <3>9, Zenon DEF Runs
      <4> DEFINE d == c \/ IsText(s.field.tag)
      <4>2. /\ Valid(s.field) => r = _InternalParse[Going(y, d, Meaning(gs))]
            /\ ~Valid(s.field) => r.status = "failure"
        <5>1. Encodes(s.wire, s.field)
          BY <3>2
        <5>2. Meaning(hs) \in Msg
          BY <3>7
        <5>3. /\ Valid(s.field) => _InternalParse[Going(z, c, Meaning(hs))] =
                _InternalParse[Going(y, d, AddField(Meaning(hs), s.field))]
              /\ ~Valid(s.field) =>
                _InternalParse[Going(z, c, Meaning(hs))].status = "failure"
          BY <3>3, <5>1, <5>2, LoopTakes
        <5> HIDE DEF z, d, r
        <5> QED BY <3>7, <4>1, <5>3, Zenon
      <4>3. d \in BOOLEAN
        BY DEF IsText
      <4> HIDE DEF d, r
      <4> QED BY <3>2, <3>8, <3>9, <4>2, <4>3, Zenon
    <3>10. CASE ~AllValid(hs)
      <4>1. r.status = "failure"
        BY <3>5, <3>6, <3>10, Zenon DEF Runs
      <4> HIDE DEF r
      <4> QED BY <3>2, <3>8, <3>10, <4>1, Zenon
    <3> QED BY <3>9, <3>10
  <2> QED BY <2>1, <2>2
<1>2. \A n \in Nat : n \in G
  <2> HIDE DEF G
  <2> QED BY <1>1, Induction
<1>3. Len(fs) \in Nat
  OBVIOUS
<1>4. Len(fs) \in G
  BY <1>2, <1>3
<1> QED BY <1>4

\* Parse is the loop from the empty message.
LEMMA ParseIsLoop == \A w : Parse(w) = _InternalParse[Going(w, FALSE, Empty)]
BY DEF Parse, Going

\* The bytes of fields are bytes, and what they mean is a message.
LEMMA FieldsType ==
  ASSUME NEW fs \in Seq(Sample)
  PROVE  Wire(fs) \in Seq(Nat) /\ Meaning(fs) \in Msg
<1> DEFINE s == [wire |-> <<>>, field |-> [tag |-> 0, varint |-> 0, bytes |-> <<>>]]
<1>1. s \in Sample
  BY DEF Sample, Field
<1> HIDE DEF s
<1> QED BY <1>1, WireAppend, MeaningAppend

\* Parse reads every sequence of fields, and refuses it if a text is not valid.
LEMMA ParseReads ==
  ASSUME NEW fs \in Seq(Sample), Encoded(fs)
  PROVE  IF AllValid(fs) THEN Parse(Wire(fs)).status = "ok" /\ Parse(Wire(fs)).msg = Meaning(fs)
                         ELSE Parse(Wire(fs)).status = "failure"
<1>1. Wire(fs) \in Seq(Nat) /\ Meaning(fs) \in Msg
  BY FieldsType
<1>2. Wire(fs) \o <<>> = Wire(fs) /\ <<>> \in Seq(Nat)
  BY <1>1
<1>3. Runs(fs, <<>>)
  BY <1>2, FieldsAreRead
<1>4. Parse(Wire(fs)) = _InternalParse[Going(Wire(fs) \o <<>>, FALSE, Empty)]
  BY <1>2, ParseIsLoop, Zenon
<1>5. CASE AllValid(fs)
  <2>1. PICK c \in BOOLEAN : Parse(Wire(fs)) = _InternalParse[Going(<<>>, c, Meaning(fs))]
    BY <1>3, <1>4, <1>5, Zenon DEF Runs
  <2>2. Parse(Wire(fs)) = Going(<<>>, c, Meaning(fs))
    BY <1>1, <2>1, LoopEnds, Zenon
  <2> QED BY <1>5, <2>2 DEF Going
<1>6. CASE ~AllValid(fs)
  BY <1>3, <1>4, <1>6, Zenon DEF Runs
<1> QED BY <1>5, <1>6

\* The bytes of one more field, and what follows them.
LEMMA WireThen ==
  ASSUME NEW fs \in Seq(Sample), NEW s \in Sample, NEW y \in Seq(Nat)
  PROVE  Wire(Append(fs, s)) \o y = Wire(fs) \o (s.wire \o y)
<1>1. Wire(fs) \in Seq(Nat) /\ s.wire \in Seq(Nat)
  BY WireAppend, SampleType
<1>2. (Wire(fs) \o s.wire) \o y = Wire(fs) \o (s.wire \o y)
  BY <1>1, ByteCat, Zenon
<1> QED BY <1>2, WireAppend, Zenon

\* The bytes e do not start with a field.
NoField(e) == \A w, x \in Seq(Nat), f \in Field : e = w \o x => ~Encodes(w, f)

\* Parse accepts nothing in which something that is not a field follows the
\* fields it has read.
LEMMA ParseRefuses ==
  ASSUME NEW fs \in Seq(Sample), Encoded(fs), NEW e \in Seq(Nat), e # <<>>, NoField(e)
  PROVE  Parse(Wire(fs) \o e).status # "ok"
<1>1. Runs(fs, e)
  BY FieldsAreRead
<1>2. Parse(Wire(fs) \o e) = _InternalParse[Going(Wire(fs) \o e, FALSE, Empty)]
  BY ParseIsLoop
<1>3. CASE AllValid(fs)
  <2>1. PICK c \in BOOLEAN : Parse(Wire(fs) \o e) = _InternalParse[Going(e, c, Meaning(fs))]
    BY <1>1, <1>2, <1>3, Zenon DEF Runs
  <2>2. Meaning(fs) \in Msg
    BY FieldsType
  <2>3. ~GoesOn(e, c, Meaning(fs))
    BY Zenon DEF GoesOn, NoField
  <2> QED BY <2>1, <2>2, <2>3, LoopAccepts, Zenon
<1>4. CASE ~AllValid(fs)
  <2>1. Parse(Wire(fs) \o e).status = "failure"
    BY <1>1, <1>2, <1>4, Zenon DEF Runs
  <2> QED BY <2>1
<1> QED BY <1>3, <1>4

\* What Parse accepts is a sequence of fields with valid texts, and nothing else.
LEMMA ParseAccepts ==
  ASSUME NEW v \in Seq(Nat), Parse(v).status = "ok"
  PROVE  \E fs \in Seq(Sample) : Encoded(fs) /\ AllValid(fs) /\ v = Wire(fs)
<1> DEFINE Found(fs) == Encoded(fs) /\ AllValid(fs)
           Ends == \E fs \in Seq(Sample) : Found(fs) /\ v = Wire(fs)
           G == {n \in Nat : \A fs \in Seq(Sample), x \in Seq(Nat) :
                               Len(x) = n /\ Found(fs) /\ v = Wire(fs) \o x => Ends}
<1>1. ASSUME NEW n \in Nat, \A k \in Nat : k < n => k \in G
      PROVE  n \in G
  <2> SUFFICES ASSUME NEW fs \in Seq(Sample), NEW x \in Seq(Nat),
                      Len(x) = n, Found(fs), v = Wire(fs) \o x
               PROVE  Ends
    OBVIOUS
  <2>1. Wire(fs) \in Seq(Nat) /\ Meaning(fs) \in Msg
    BY FieldsType
  <2>2. CASE x = <<>>
    <3>1. v = Wire(fs)
      BY <2>1, <2>2
    <3> QED BY <3>1
  <2>3. CASE x # <<>>
    <3>1. Runs(fs, x) /\ Parse(v) = _InternalParse[Going(Wire(fs) \o x, FALSE, Empty)]
      BY FieldsAreRead, ParseIsLoop
    <3>2. PICK c \in BOOLEAN : Parse(v) = _InternalParse[Going(x, c, Meaning(fs))]
      BY <3>1, Zenon DEF Runs
    <3>3. GoesOn(x, c, Meaning(fs))
      <4>1. _InternalParse[Going(x, c, Meaning(fs))].status = "ok"
        BY <3>2, Zenon
      <4> QED BY <2>1, <2>3, <4>1, LoopAccepts
    <3>4. PICK w \in Seq(Nat), y \in Seq(Nat), f \in Field :
            x = w \o y /\ Encodes(w, f) /\ Valid(f)
      BY <3>3, Zenon DEF GoesOn
    <3>5. PICK s : s = [wire |-> w, field |-> f]
      OBVIOUS
    <3>6. s \in Sample /\ s.wire = w /\ s.field = f
      BY <3>5 DEF Sample
    <3>7. PICK gs : gs = Append(fs, s)
      OBVIOUS
    <3>8. gs \in Seq(Sample) /\ Found(gs)
      BY <3>4, <3>6, <3>7, AppendSample
    <3>9. v = Wire(gs) \o y
      <4>1. Wire(gs) \o y = Wire(fs) \o (w \o y)
        BY <3>6, <3>7, WireThen
      <4> QED BY <3>4, <4>1, Zenon
    <3>10. Len(y) \in Nat /\ Len(y) < n
      <4>1. w # <<>>
        BY <3>4, FieldStep, EmptyType
      <4>2. Len(w) \in Nat /\ Len(w) # 0 /\ Len(y) \in Nat /\ Len(w \o y) = Len(w) + Len(y)
        BY <4>1
      <4> QED BY <3>4, <4>2
    <3>11. Len(y) \in G
      BY <1>1, <3>10
    <3> HIDE DEF Ends, Found
    <3> QED BY <3>8, <3>9, <3>11
  <2> QED BY <2>2, <2>3
<1>2. \A n \in Nat : n \in G
  <2> HIDE DEF G
  <2> QED BY <1>1, Induction
<1>3. <<>> \in Seq(Sample) /\ Found(<<>>) /\ v = Wire(<<>>) \o v
  <2>1. Encoded(<<>>) /\ AllValid(<<>>)
    BY DEF Encoded, AllValid
  <2> QED BY <2>1, WireEmpty
<1>4. Len(v) \in G
  <2>1. Len(v) \in Nat
    OBVIOUS
  <2> QED BY <1>2, <2>1, Zenon
<1> HIDE DEF Found, Ends
<1>5. Ends
  BY <1>3, <1>4
<1> QED BY <1>5 DEF Ends, Found

\* A field is made of parts of its bytes.
LEMMA EncodesReads ==
  ASSUME NEW w \in Seq(Nat), NEW f \in Field, Encodes(w, f)
  PROVE  f \in Readings(w)
<1>1. PICK k \in DOMAIN w :
        /\ IsVarint(SubSeq(w, 1, k), f.tag, 5)
        /\ LET p == SubSeq(w, k + 1, Len(w))
           IN  \/ f.tag % 8 = 0 /\ IsVarint(p, f.varint, 10) /\ f.bytes = <<>>
               \/ f.tag % 8 = 1 /\ f.varint = 0 /\ f.bytes = p /\ Len(p) = 8
               \/ /\ f.tag % 8 = 2 /\ f.varint = 0
                  /\ \E j \in DOMAIN p :
                       /\ IsVarint(SubSeq(p, 1, j), Len(f.bytes), 5)
                       /\ f.bytes = SubSeq(p, j + 1, Len(p))
               \/ f.tag % 8 = 5 /\ f.varint = 0 /\ f.bytes = p /\ Len(p) = 4
  BY DEF Encodes
<1> DEFINE p == SubSeq(w, k + 1, Len(w))
           Numbers == {0} \cup {ReadVarint[SubSeq(w, i, Len(w))] : i \in DOMAIN w}
           Ends == {SubSeq(w, i, Len(w)) : i \in 1..(Len(w) + 1)}
<1>2. PICK n \in Nat : n = Len(w)
  OBVIOUS
<1>3. k \in 1..n /\ DOMAIN w = 1..n
  BY <1>2
<1>4. p \in Seq(Nat) /\ Len(p) = n - k
  <2>1. k \in 0..Len(w)
    BY <1>2, <1>3
  <2> QED BY <1>2, <2>1, Cut
<1>5. f.tag \in {Varint(w, i) : i \in DOMAIN w}
  BY <1>1 DEF IsVarint, Varint
<1>6. <<>> \in Ends
  <2>1. SubSeq(w, n + 1, n) = <<>>
    BY <1>2
  <2>2. n + 1 \in 1..(n + 1)
    OBVIOUS
  <2> QED BY <1>2, <2>1, <2>2
<1>7. p \in Ends
  <2>1. k + 1 \in 1..(n + 1)
    BY <1>3
  <2> QED BY <1>2, <2>1
<1>8. ASSUME NEW j \in DOMAIN p
      PROVE  SubSeq(p, j + 1, Len(p)) \in Ends
  <2>1. j \in 1..(n - k)
    BY <1>4
  <2>2. SubSeq(p, j + 1, Len(p)) = SubSeq(w, k + j + 1, n)
    <3>1. PICK t : t = SubSeq(w, 1, k)
      OBVIOUS
    <3>2. t \in Seq(Nat) /\ Len(t) = k /\ w = t \o p
      <4>1. k \in 0..Len(w)
        BY <1>2, <1>3
      <4> QED BY <3>1, <4>1, Cut, ZenonT(60)
    <3> HIDE DEF p
    <3>3. PICK l, q : l = SubSeq(p, 1, j) /\ q = SubSeq(p, j + 1, Len(p))
      OBVIOUS
    <3>4. /\ l \in Seq(Nat) /\ q \in Seq(Nat) /\ p = l \o q
          /\ Len(l) = j /\ Len(q) = n - k - j
      <4>1. j \in 0..Len(p)
        BY <1>4, <2>1
      <4> QED BY <1>3, <1>4, <2>1, <3>3, <4>1, Cut
    <3>5. SubSeq((t \o l) \o q, Len(t) + Len(l) + 1, Len(t) + Len(l) + Len(q)) = q
      <4>1. t \in Seq(Nat) /\ l \in Seq(Nat) /\ q \in Seq(Nat)
        BY <3>2, <3>4
      <4> QED BY <4>1, ByteParts, Zenon
    <3>6. (t \o l) \o q = w
      <4>1. t \in Seq(Nat) /\ l \in Seq(Nat) /\ q \in Seq(Nat)
        BY <3>2, <3>4
      <4>2. (t \o l) \o q = t \o (l \o q)
        BY <4>1, ByteCat, ZenonT(60)
      <4> QED BY <3>2, <3>4, <4>2, Zenon
    <3>7. Len(t) + Len(l) + 1 = k + j + 1 /\ Len(t) + Len(l) + Len(q) = n
      BY <1>3, <2>1, <3>2, <3>4
    <3> QED BY <3>3, <3>5, <3>6, <3>7, Zenon
  <2>3. k + j + 1 \in 1..(n + 1)
    BY <1>3, <2>1
  <2> QED BY <1>2, <2>2, <2>3
<1>9. ASSUME IsVarint(p, f.varint, 10)
      PROVE  f.varint \in Numbers
  <2>1. Len(p) \in 1..10 /\ ReadVarint[p] = f.varint
    BY <1>9 DEF IsVarint
  <2>2. k + 1 \in 1..n
    BY <1>3, <1>4, <2>1
  <2> QED BY <1>2, <1>3, <2>1, <2>2
<1>10. 0 \in Numbers
  OBVIOUS
<1> HIDE DEF p, Numbers, Ends
<1>11. f.varint \in Numbers
  BY <1>1, <1>9, <1>10, Zenon DEF p
<1>12. f.bytes \in Ends
  BY <1>1, <1>6, <1>7, <1>8, Zenon DEF p
<1>13. f = [tag |-> f.tag, varint |-> f.varint, bytes |-> f.bytes]
  BY DEF Field
<1>14. Readings(w) = [tag : {Varint(w, i) : i \in DOMAIN w}, varint : Numbers, bytes : Ends]
  BY DEF Readings, Numbers, Ends
<1> QED BY <1>5, <1>11, <1>12, <1>13, <1>14

\* The sequences the property is about are sequences of encoded fields.
LEMMA FieldSeqsEncoded ==
  ASSUME NEW fs \in FieldSeqs
  PROVE  fs \in Seq(Sample) /\ Encoded(fs)
<1>1. PICK n \in 0..3 : fs \in [1..n -> Samples]
  BY DEF FieldSeqs, BoundedSeq, SeqOf
<1>2. Samples \subseteq Sample /\ \A s \in Samples : Encodes(s.wire, s.field)
  BY WireAssumption DEF Sample
<1>3. n \in Nat /\ fs \in [1..n -> Sample] /\ DOMAIN fs = 1..n
  BY <1>1, <1>2
<1>4. fs \in Seq(Sample)
  BY <1>3
<1> QED BY <1>1, <1>2, <1>3, <1>4 DEF Encoded

\* What is broken starts with no field.
LEMMA BrokenNoField ==
  ASSUME NEW e \in Broken
  PROVE  e \in Seq(Nat) /\ e # <<>> /\ NoField(e)
<1>1. /\ e \in Seq(Nat) /\ e # <<>>
      /\ \A n \in DOMAIN e : \A f \in Readings(SubSeq(e, 1, n)) : ~Encodes(SubSeq(e, 1, n), f)
  BY WireAssumption, Zenon
<1>2. ASSUME NEW w \in Seq(Nat), NEW x \in Seq(Nat), NEW f \in Field, e = w \o x, Encodes(w, f)
      PROVE  FALSE
  <2>1. w # <<>>
    BY <1>2, FieldStep, EmptyType
  <2>2. SubSeq(e, 1, Len(w)) = w /\ Len(e) = Len(w) + Len(x)
    BY <1>2, TwoParts
  <2>3. Len(w) \in DOMAIN e
    <3>1. Len(w) \in Nat /\ Len(x) \in Nat /\ Len(w) # 0 /\ DOMAIN e = 1..Len(e)
      BY <1>1, <2>1
    <3> QED BY <2>2, <3>1
  <2>4. f \in Readings(w)
    BY <1>2, EncodesReads
  <2> QED BY <1>1, <1>2, <2>2, <2>3, <2>4, Zenon
<1> QED BY <1>1, <1>2 DEF NoField

\* _InternalParse of src/helloworld.pb.cc reads every sequence of fields as the
\* wire format says, and accepts none that goes on with something else.
THEOREM ParsesFieldsHolds == ParsesFields
<1> SUFFICES ASSUME NEW fs \in FieldSeqs
             PROVE  /\ LET r == Parse(Wire(fs))
                           valid == \A i \in DOMAIN fs :
                                      IsTextSample(fs[i]) => IsValidUTF8(fs[i].field.bytes)
                       IN  IF valid THEN r.status = "ok" /\ r.msg = Meaning(fs)
                                    ELSE r.status = "failure"
                    /\ \A e \in Broken : Parse(Wire(fs) \o e).status # "ok"
  BY DEF ParsesFields
<1>1. fs \in Seq(Sample) /\ Encoded(fs)
  BY FieldSeqsEncoded
<1>2. AllValid(fs) <=> \A i \in DOMAIN fs :
                         IsTextSample(fs[i]) => IsValidUTF8(fs[i].field.bytes)
  BY DEF AllValid, Valid, IsTextSample
<1>3. IF AllValid(fs) THEN Parse(Wire(fs)).status = "ok" /\ Parse(Wire(fs)).msg = Meaning(fs)
                      ELSE Parse(Wire(fs)).status = "failure"
  BY <1>1, ParseReads
<1>4. ASSUME NEW e \in Broken
      PROVE  Parse(Wire(fs) \o e).status # "ok"
  BY <1>1, BrokenNoField, ParseRefuses
<1> QED BY <1>2, <1>3, <1>4, Zenon
-----------------------------------------------------------------------------
(* Writing. *)

\* The part of WriteField that follows the tag.
Body(f) ==
  CASE f.tag % 8 = 0 -> WriteVarint[f.varint]
    [] f.tag % 8 = 2 -> WriteVarint[Len(f.bytes)] \o f.bytes
    [] OTHER -> f.bytes

\* It, by wire type.
LEMMA BodyCases ==
  ASSUME NEW f
  PROVE  /\ f.tag % 8 = 0 => Body(f) = WriteVarint[f.varint]
         /\ f.tag % 8 = 2 => Body(f) = WriteVarint[Len(f.bytes)] \o f.bytes
         /\ f.tag % 8 # 0 /\ f.tag % 8 # 2 => Body(f) = f.bytes
<1>1. PICK k, x, y, z : /\ k = f.tag % 8 /\ x = WriteVarint[f.varint]
                        /\ y = WriteVarint[Len(f.bytes)] \o f.bytes /\ z = f.bytes
  OBVIOUS
<1>2. Body(f) = CASE k = 0 -> x [] k = 2 -> y [] OTHER -> z
  BY <1>1, Zenon DEF Body
<1>3. /\ k = 0 => Body(f) = x
      /\ k = 2 => Body(f) = y
      /\ k # 0 /\ k # 2 => Body(f) = z
  BY <1>2
<1> QED BY <1>1, <1>3, Zenon

\* The size of a field, by wire type.
LEMMA FieldSizeCases ==
  ASSUME NEW f
  PROVE  /\ f.tag % 8 = 0 => FieldSize(f) = NumberSize[f.tag] + NumberSize[f.varint]
         /\ f.tag % 8 = 2 =>
              FieldSize(f) = NumberSize[f.tag] + (NumberSize[Len(f.bytes)] + Len(f.bytes))
         /\ f.tag % 8 # 0 /\ f.tag % 8 # 2 => FieldSize(f) = NumberSize[f.tag] + Len(f.bytes)
<1>1. PICK k, x, y, z : /\ k = f.tag % 8 /\ x = NumberSize[f.varint]
                        /\ y = NumberSize[Len(f.bytes)] + Len(f.bytes) /\ z = Len(f.bytes)
  OBVIOUS
<1>2. PICK size : size = CASE k = 0 -> x [] k = 2 -> y [] OTHER -> z
  OBVIOUS
<1>3. FieldSize(f) = NumberSize[f.tag] + size
  BY <1>1, <1>2, Zenon DEF FieldSize
<1>4. /\ k = 0 => size = x
      /\ k = 2 => size = y
      /\ k # 0 /\ k # 2 => size = z
  BY <1>2
<1> QED BY <1>1, <1>3, <1>4, Zenon

\* WriteField writes bytes, as many as FieldSize says.
LEMMA WriteFieldType ==
  ASSUME NEW f \in Field
  PROVE  /\ WriteField(f) = WriteVarint[f.tag] \o Body(f)
         /\ WriteVarint[f.tag] \in Seq(Nat) /\ Body(f) \in Seq(Nat) /\ WriteField(f) \in Seq(Nat)
         /\ Len(WriteField(f)) = FieldSize(f) /\ FieldSize(f) \in Nat
<1>1. f.tag \in Nat /\ f.varint \in Nat /\ f.bytes \in Seq(Nat) /\ Len(f.bytes) \in Nat
  <2>1. f.tag \in Nat /\ f.varint \in Nat /\ f.bytes \in Seq(Nat)
    BY DEF Field
  <2> QED BY <2>1
<1>2. PICK t, n, l : t = WriteVarint[f.tag] /\ n = WriteVarint[f.varint]
                     /\ l = WriteVarint[Len(f.bytes)]
  OBVIOUS
<1>3. /\ t \in Seq(Nat) /\ n \in Seq(Nat) /\ l \in Seq(Nat)
      /\ Len(t) = NumberSize[f.tag] /\ Len(n) = NumberSize[f.varint]
      /\ Len(l) = NumberSize[Len(f.bytes)]
  BY <1>1, <1>2, WriteVarintIsVarint
<1>4. WriteField(f) = t \o Body(f)
  BY <1>2, Zenon DEF WriteField, Body
<1>5. PICK b : b = Body(f)
  OBVIOUS
<1>6. b \in Seq(Nat) /\ FieldSize(f) = Len(t) + Len(b)
  <2>1. CASE f.tag % 8 = 0
    <3>1. b = n /\ FieldSize(f) = Len(t) + Len(n)
      BY <1>2, <1>3, <1>5, <2>1, BodyCases, FieldSizeCases, Zenon
    <3> QED BY <1>3, <3>1
  <2>2. CASE f.tag % 8 = 2
    <3>1. b = l \o f.bytes /\ FieldSize(f) = Len(t) + (Len(l) + Len(f.bytes))
      BY <1>2, <1>3, <1>5, <2>2, BodyCases, FieldSizeCases, Zenon
    <3>2. l \o f.bytes \in Seq(Nat) /\ Len(l \o f.bytes) = Len(l) + Len(f.bytes)
      <4>1. l \in Seq(Nat) /\ f.bytes \in Seq(Nat)
        BY <1>1, <1>3
      <4> QED BY <4>1, TwoParts
    <3> QED BY <3>1, <3>2
  <2>3. CASE f.tag % 8 # 0 /\ f.tag % 8 # 2
    <3>1. b = f.bytes /\ FieldSize(f) = Len(t) + Len(f.bytes)
      BY <1>2, <1>3, <1>5, <2>3, BodyCases, FieldSizeCases, Zenon
    <3> QED BY <1>1, <3>1
  <2> QED BY <2>1, <2>2, <2>3
<1>7. t \o b \in Seq(Nat) /\ Len(t \o b) = Len(t) + Len(b) /\ Len(t) + Len(b) \in Nat
  <2>1. t \in Seq(Nat) /\ b \in Seq(Nat)
    BY <1>3, <1>6
  <2> QED BY <2>1
<1>8. WriteField(f) = t \o b
  BY <1>4, <1>5
<1>9. Len(WriteField(f)) = FieldSize(f) /\ FieldSize(f) \in Nat /\ WriteField(f) \in Seq(Nat)
  BY <1>6, <1>7, <1>8
<1> QED BY <1>2, <1>3, <1>5, <1>6, <1>8, <1>9

\* A shorter varint is one, too.
LEMMA VarintRewritten ==
  ASSUME NEW b \in Seq(Nat), NEW n \in Nat, NEW max \in Nat, IsVarint(b, n, max)
  PROVE  IsVarint(WriteVarint[n], n, max)
<1>1. Len(b) \in 1..max /\ ReadVarint[b] = n
  BY Zenon DEF IsVarint
<1>2. b # <<>> /\ Len(b) <= max /\ Len(b) \in Nat
  BY <1>1
<1>3. Len(WriteVarint[n]) <= Len(b) /\ Len(WriteVarint[n]) \in Nat
  BY <1>1, <1>2, WriteVarintShortest, WriteVarintIsVarint
<1>4. Len(WriteVarint[n]) <= max
  BY <1>2, <1>3
<1> QED BY <1>4, WriteVarintIsVarint

\* A field that was read is written as a field again: the same one.
LEMMA EncodesWritten ==
  ASSUME NEW w \in Seq(Nat), NEW f \in Field, Encodes(w, f)
  PROVE  Encodes(WriteField(f), f)
<1>1. f.tag \in Nat /\ f.varint \in Nat /\ f.bytes \in Seq(Nat) /\ Len(f.bytes) \in Nat
  <2>1. f.tag \in Nat /\ f.varint \in Nat /\ f.bytes \in Seq(Nat)
    BY DEF Field
  <2> QED BY <2>1
<1>2. PICK t \in Seq(Nat), p \in Seq(Nat) :
        f.tag >= 8 /\ IsVarint(t, f.tag, 5) /\ IsPayload(p, f)
  BY EncodesParts
<1>3. IsVarint(WriteVarint[f.tag], f.tag, 5)
  BY <1>1, <1>2, VarintRewritten
<1>4. IsPayload(Body(f), f)
  <2>1. CASE f.tag % 8 = 0
    <3>1. IsVarint(p, f.varint, 10) /\ f.bytes = <<>>
      BY <1>2, <2>1 DEF IsPayload
    <3>2. IsVarint(WriteVarint[f.varint], f.varint, 10)
      BY <1>1, <3>1, VarintRewritten
    <3> QED BY <2>1, <3>1, <3>2, BodyCases DEF IsPayload
  <2>2. CASE f.tag % 8 = 2
    <3>1. f.varint = 0 /\ \E l \in Seq(Nat) : IsVarint(l, Len(f.bytes), 5)
      BY <1>2, <2>2 DEF IsPayload
    <3>2. IsVarint(WriteVarint[Len(f.bytes)], Len(f.bytes), 5)
      BY <1>1, <3>1, VarintRewritten
    <3>3. WriteVarint[Len(f.bytes)] \in Seq(Nat)
      BY <1>1, WriteVarintIsVarint
    <3>4. Body(f) = WriteVarint[Len(f.bytes)] \o f.bytes
      BY <2>2, BodyCases
    <3> QED BY <2>2, <3>1, <3>2, <3>3, <3>4 DEF IsPayload
  <2>3. CASE f.tag % 8 # 0 /\ f.tag % 8 # 2
    <3>1. Body(f) = f.bytes
      BY <2>3, BodyCases
    <3>2. f.bytes = p
      BY <1>2, <2>3 DEF IsPayload
    <3> QED BY <1>2, <3>1, <3>2
  <2> QED BY <2>1, <2>2, <2>3
<1>5. \E a, b \in Seq(Nat) : WriteField(f) = a \o b /\ IsVarint(a, f.tag, 5) /\ IsPayload(b, f)
  BY <1>3, <1>4, WriteFieldType
<1>6. WriteField(f) \in Seq(Nat)
  BY WriteFieldType
<1> QED BY <1>2, <1>5, <1>6, EncodesParts

\* So is a text of the size a message may have.
LEMMA TextWritten ==
  ASSUME NEW x \in Seq(Nat), Len(x) < MaxSize
  PROVE  TextField(x) \in Field /\ Encodes(WriteField(TextField(x)), TextField(x))
<1>1. PICK f : f = TextField(x)
  OBVIOUS
<1>2. f \in Field /\ f.tag = 10 /\ f.varint = 0 /\ f.bytes = x
  BY <1>1 DEF TextField, Tag, Field
<1>3. Len(x) \in Nat
  OBVIOUS
<1>4. Len(WriteVarint[Len(x)]) <= 5
  BY <1>3, SmallNumberSize
<1>5. IsVarint(WriteVarint[Len(x)], Len(x), 5) /\ WriteVarint[Len(x)] \in Seq(Nat)
  BY <1>3, <1>4, WriteVarintIsVarint
<1>6. IsVarint(WriteVarint[10], 10, 5)
  <2>1. NumberSize[10] = 1
    BY NumberSizeDef
  <2>2. Len(WriteVarint[10]) = 1
    BY <2>1, WriteVarintIsVarint
  <2>3. 10 \in Nat /\ 5 \in Nat /\ Len(WriteVarint[10]) <= 5
    BY <2>2
  <2> QED BY <2>3, WriteVarintIsVarint, Zenon
<1>7. Body(f) = WriteVarint[Len(x)] \o x
  <2>1. f.tag % 8 = 2
    BY <1>2
  <2> QED BY <1>2, <2>1, BodyCases
<1>8. IsPayload(Body(f), f)
  <2>1. f.tag % 8 = 2
    BY <1>2
  <2> QED BY <1>2, <1>5, <1>7, <2>1 DEF IsPayload
<1>9. \E a, b \in Seq(Nat) : WriteField(f) = a \o b /\ IsVarint(a, f.tag, 5) /\ IsPayload(b, f)
  BY <1>2, <1>6, <1>8, WriteFieldType
<1>10. WriteField(f) \in Seq(Nat) /\ f.tag >= 8
  BY <1>2, WriteFieldType
<1> QED BY <1>1, <1>2, <1>9, <1>10, EncodesParts
-----------------------------------------------------------------------------
(* Serialising. *)

\* Append, taken apart again.
LEMMA FrontLast ==
  ASSUME NEW T, NEW s \in Seq(T), NEW z \in T
  PROVE  Front(Append(s, z)) = s /\ Last(Append(s, z)) = z
<1>1. PICK u : u = Append(s, z)
  OBVIOUS
<1>2. /\ Len(s) \in Nat /\ u \in Seq(T) /\ Len(u) = Len(s) + 1
      /\ \A i \in 1..Len(s) : u[i] = s[i]
      /\ u[Len(s) + 1] = z
  BY <1>1, Appended
<1>3. Last(u) = z
  BY <1>2 DEF Last
<1>4. SubSeq(u, 1, Len(s)) = s
  BY <1>2
<1>5. Len(u) - 1 = Len(s)
  BY <1>2
<1>6. Front(u) = s
  BY <1>4, <1>5, Zenon DEF Front
<1> QED BY <1>1, <1>3, <1>6

\* FieldsSize is what its definition says.
LEMMA FieldsSizeDef ==
  FieldsSize = [fs \in Seq(Field) |->
    IF fs = <<>> THEN 0 ELSE FieldsSize[Front(fs)] + FieldSize(Last(fs))]
<1> DEFINE S == Seq(Field)
           base == [fs \in S |-> 0]
           step == [fs \in S |-> IF fs = <<>> THEN fs ELSE Front(fs)]
           last == [fs \in S |-> IF fs = <<>> THEN 0 ELSE FieldSize(Last(fs))]
           comb == [fs \in S |-> [r \in Nat |-> r + last[fs]]]
           size == [fs \in S |-> Len(fs)]
<1>1. ASSUME NEW fs \in S, fs # <<>>
      PROVE  Front(fs) \in S /\ Len(Front(fs)) < Len(fs) /\ FieldSize(Last(fs)) \in Nat
  <2>1. PICK gs \in Seq(Field), f \in Field : fs = Append(gs, f) /\ Len(fs) = Len(gs) + 1
    BY <1>1, Unappend
  <2>2. Front(fs) = gs /\ Last(fs) = f /\ Len(gs) \in Nat
    BY <2>1, FrontLast
  <2>3. FieldSize(f) \in Nat
    BY WriteFieldType
  <2> QED BY <2>1, <2>2, <2>3
<1>2. base \in [S -> Nat] /\ size \in [S -> Nat]
  OBVIOUS
<1> HIDE DEF S
<1>3. step \in [S -> S]
  BY <1>1
<1>4. last \in [S -> Nat]
  BY <1>1
<1>5. comb \in [S -> [Nat -> Nat]]
  <2> HIDE DEF last
  <2> QED BY <1>4
<1>6. \A fs \in S : fs \notin {<<>>} => size[step[fs]] < size[fs]
  BY <1>1
<1>7. PICK f \in [S -> Nat] : Solution(f, S, {<<>>}, base, step, comb)
  <2> HIDE DEF base, step, comb, size
  <2>1. Recursive(S, Nat, {<<>>}, base, step, comb, size)
    BY <1>2, <1>3, <1>5, <1>6 DEF Recursive
  <2> QED BY <2>1, Recursion
<1>8. ASSUME NEW fs \in S
      PROVE  f[fs] = IF fs = <<>> THEN 0 ELSE f[Front(fs)] + FieldSize(Last(fs))
  <2>1. CASE fs = <<>>
    BY <1>7, <2>1 DEF Solution
  <2>2. CASE fs # <<>>
    <3>1. step[fs] = Front(fs) /\ last[fs] = FieldSize(Last(fs)) /\ Front(fs) \in S
      BY <1>1, <2>2
    <3>2. f[fs] = comb[fs][f[Front(fs)]]
      <4> HIDE DEF comb, step
      <4> QED BY <1>7, <2>2, <3>1 DEF Solution
    <3>3. f[Front(fs)] \in Nat
      BY <1>7, <3>1
    <3>4. comb[fs][f[Front(fs)]] = f[Front(fs)] + last[fs]
      <4> HIDE DEF last
      <4> QED BY <3>3
    <3> HIDE DEF comb, last
    <3> QED BY <2>2, <3>1, <3>2, <3>4
  <2> QED BY <2>1, <2>2
<1>9. \E g : g = [fs \in Seq(Field) |->
                    IF fs = <<>> THEN 0 ELSE g[Front(fs)] + FieldSize(Last(fs))]
  <2>1. f = [fs \in S |-> IF fs = <<>> THEN 0 ELSE f[Front(fs)] + FieldSize(Last(fs))]
    BY <1>7, <1>8
  <2> QED BY <2>1 DEF S
<1> QED BY <1>9 DEF FieldsSize

\* The size of one more field.
LEMMA FieldsSizeAppend ==
  /\ FieldsSize[<<>>] = 0
  /\ \A fs \in Seq(Field), f \in Field :
       FieldsSize[Append(fs, f)] = FieldsSize[fs] + FieldSize(f)
<1>1. <<>> \in Seq(Field)
  OBVIOUS
<1>2. ASSUME NEW fs \in Seq(Field), NEW f \in Field
      PROVE  FieldsSize[Append(fs, f)] = FieldsSize[fs] + FieldSize(f)
  <2>1. PICK gs : gs = Append(fs, f)
    OBVIOUS
  <2>2. gs \in Seq(Field) /\ gs # <<>> /\ Front(gs) = fs /\ Last(gs) = f
    BY <2>1, FrontLast, Appended
  <2>3. FieldsSize[gs] = FieldsSize[Front(gs)] + FieldSize(Last(gs))
    BY <2>2, FieldsSizeDef
  <2> QED BY <2>1, <2>2, <2>3
<1> QED BY <1>1, <1>2, FieldsSizeDef

\* A message put together from its parts, and its bytes.
Of(x, u) == [text |-> x, unknown |-> u]

\* The bytes of a message that has no unknown fields.
LEMMA SerializeText ==
  ASSUME NEW x \in Seq(Nat)
  PROVE  /\ x = <<>> => _InternalSerialize(Of(x, <<>>)) = <<>> /\ ByteSizeLong(Of(x, <<>>)) = 0
         /\ x # <<>> => /\ _InternalSerialize(Of(x, <<>>)) = WriteField(TextField(x))
                        /\ ByteSizeLong(Of(x, <<>>)) = FieldSize(TextField(x))
<1>1. PICK m : m = Of(x, <<>>)
  OBVIOUS
<1>2. m.text = x /\ m.unknown = <<>>
  BY <1>1 DEF Of
<1>3. FlattenSeq([i \in DOMAIN m.unknown |-> WriteField(m.unknown[i])]) = <<>>
  <2>1. [i \in DOMAIN m.unknown |-> WriteField(m.unknown[i])] = <<>>
    BY <1>2
  <2> QED BY <2>1, FlattenEmpty
<1>4. FieldsSize[m.unknown] = 0
  BY <1>2, FieldsSizeAppend
<1>5. CASE x = <<>>
  <2>1. _InternalSerialize(m) = <<>> \o <<>>
    BY <1>2, <1>3, <1>5, Zenon DEF _InternalSerialize
  <2>2. ByteSizeLong(m) = 0 + 0
    BY <1>2, <1>4, <1>5, Zenon DEF ByteSizeLong
  <2> QED BY <1>1, <1>5, <2>1, <2>2
<1>6. CASE x # <<>>
  <2>1. PICK f : f = TextField(x)
    OBVIOUS
  <2>2. f \in Field /\ f.tag = 10 /\ f.bytes = x
    BY <2>1 DEF TextField, Tag, Field
  <2>3. WriteField(f) \in Seq(Nat) /\ FieldSize(f) \in Nat
    BY <2>2, WriteFieldType
  <2>4. _InternalSerialize(m) = WriteField(f) \o <<>>
    BY <1>2, <1>3, <1>6, <2>1, Zenon DEF _InternalSerialize
  <2>5. ByteSizeLong(m) = (1 + NumberSize[Len(x)] + Len(x)) + 0
    BY <1>2, <1>4, <1>6, Zenon DEF ByteSizeLong
  <2>6. FieldSize(f) = 1 + (NumberSize[Len(x)] + Len(x))
    <3>1. f.tag % 8 = 2
      BY <2>2
    <3>2. NumberSize[10] = 1
      BY NumberSizeDef
    <3> QED BY <2>2, <3>1, <3>2, FieldSizeCases, Zenon
  <2>7. NumberSize[Len(x)] \in Nat /\ Len(x) \in Nat
    <3>1. Len(x) \in Nat
      OBVIOUS
    <3> QED BY <3>1, WriteVarintIsVarint
  <2>8. ByteSizeLong(m) = FieldSize(f)
    BY <2>5, <2>6, <2>7
  <2>9. WriteField(f) \o <<>> = WriteField(f)
    BY <2>3
  <2> QED BY <1>1, <1>6, <2>1, <2>4, <2>8, <2>9
<1> QED BY <1>5, <1>6

\* One more unknown field is written behind the others.
LEMMA SerializeAppend ==
  ASSUME NEW x \in Seq(Nat), NEW u \in Seq(Field), NEW f \in Field,
         TextField(x) \in Field
  PROVE  /\ _InternalSerialize(Of(x, u)) \in Seq(Nat)
         /\ _InternalSerialize(Of(x, Append(u, f))) = _InternalSerialize(Of(x, u)) \o WriteField(f)
<1> DEFINE W(v) == [i \in DOMAIN v |-> WriteField(v[i])]
<1>1. PICK v : v = Append(u, f)
  OBVIOUS
<1>2. PICK n \in Nat : n = Len(u)
  OBVIOUS
<1>3. /\ v \in Seq(Field) /\ DOMAIN u = 1..n /\ DOMAIN v = 1..(n + 1)
      /\ \A i \in 1..n : v[i] = u[i]
      /\ v[n + 1] = f
  BY <1>1, <1>2, Appended
<1>4. PICK t : t = IF x = <<>> THEN <<>> ELSE WriteField(TextField(x))
  OBVIOUS
<1>5. t \in Seq(Nat)
  <2>1. WriteField(TextField(x)) \in Seq(Nat)
    BY WriteFieldType
  <2> QED BY <1>4, <2>1
<1>6. WriteField(f) \in Seq(Nat) /\ \A i \in 1..n : WriteField(u[i]) \in Seq(Nat)
  BY <1>2, WriteFieldType
<1>7. PICK T : T = Seq(Nat)
  OBVIOUS
<1>8. PICK ws, z : ws = W(u) /\ z = WriteField(f)
  OBVIOUS
<1>9. ws \in Seq(T) /\ Len(ws) = n /\ z \in T /\ DOMAIN ws = 1..n
      /\ \A i \in 1..n : ws[i] = WriteField(u[i])
  BY <1>3, <1>6, <1>7, <1>8
<1>10. W(v) = Append(ws, z)
  <2>1. PICK q : q = Append(ws, z)
    OBVIOUS
  <2>2. /\ q \in Seq(T) /\ DOMAIN q = 1..(n + 1)
        /\ \A i \in 1..n : q[i] = ws[i]
        /\ q[n + 1] = z
    BY <1>9, <2>1, Appended
  <2>3. q = [i \in 1..(n + 1) |-> q[i]]
    <3>1. \A r \in Seq(T) : r = [i \in DOMAIN r |-> r[i]]
      OBVIOUS
    <3> QED BY <2>2, <3>1, Zenon
  <2>4. \A i \in 1..(n + 1) : i \in 1..n \/ i = n + 1
    OBVIOUS
  <2>5. \A i \in 1..(n + 1) : q[i] = WriteField(v[i])
    BY <1>3, <1>8, <1>9, <2>2, <2>4, Zenon
  <2>6. W(v) = [i \in 1..(n + 1) |-> WriteField(v[i])]
    BY <1>3, Zenon
  <2>7. [i \in 1..(n + 1) |-> q[i]] = [i \in 1..(n + 1) |-> WriteField(v[i])]
    BY <2>5, Zenon
  <2> QED BY <2>1, <2>3, <2>6, <2>7, Zenon
<1>11. FlattenSeq(ws) \in Seq(Nat) /\ FlattenSeq(Append(ws, z)) = FlattenSeq(ws) \o z
  <2>1. \A S : \A ss \in Seq(Seq(S)), y \in Seq(S) :
          FlattenSeq(ss) \in Seq(S) /\ FlattenSeq(Append(ss, y)) = FlattenSeq(ss) \o y
    BY FlattenAppend
  <2>2. ws \in Seq(Seq(Nat)) /\ z \in Seq(Nat)
    BY <1>7, <1>9
  <2> QED BY <2>1, <2>2, Zenon
<1>12. /\ Of(x, u).text = x /\ Of(x, u).unknown = u
       /\ Of(x, v).text = x /\ Of(x, v).unknown = v
  BY DEF Of
<1>13. _InternalSerialize(Of(x, u)) = t \o FlattenSeq(W(u))
  BY <1>4, <1>12, Zenon DEF _InternalSerialize
<1>14. _InternalSerialize(Of(x, v)) = t \o FlattenSeq(W(v))
  BY <1>4, <1>12, Zenon DEF _InternalSerialize
<1> HIDE DEF W
<1>15. PICK a : a = FlattenSeq(ws)
  OBVIOUS
<1>16. a \in Seq(Nat) /\ z \in Seq(Nat)
  BY <1>6, <1>8, <1>11, <1>15
<1>17. t \o a \in Seq(Nat)
  BY <1>5, <1>16
<1>18. (t \o a) \o z = t \o (a \o z)
  BY <1>5, <1>16, ByteCat, Zenon
<1>19. _InternalSerialize(Of(x, u)) = t \o a
  BY <1>8, <1>13, <1>15, Zenon
<1>20. _InternalSerialize(Of(x, v)) = t \o (a \o z)
  BY <1>10, <1>11, <1>14, <1>15, Zenon
<1> QED BY <1>1, <1>8, <1>17, <1>18, <1>19, <1>20, Zenon

\* A field that is read back from what WriteField writes for it.
Written(f) == f \in Field /\ Encodes(WriteField(f), f)

\* A message all of whose fields are.
Sendable(m) ==
  /\ m \in Msg
  /\ m.text # <<>> => Written(TextField(m.text))
  /\ \A i \in DOMAIN m.unknown : Written(m.unknown[i]) /\ m.unknown[i].tag # 10

\* The text x and the unknown fields u are written in the size that is said, as
\* fields that merge into those before them.
Sent(x, u) ==
  LET w == _InternalSerialize(Of(x, u))
  IN  /\ w \in Seq(Nat) /\ Len(w) = ByteSizeLong(Of(x, u))
      /\ \A fs \in Seq(Sample) : Encoded(fs) =>
           \E gs \in Seq(Sample) :
             /\ Encoded(gs) /\ Wire(gs) = Wire(fs) \o w
             /\ AllValid(gs) <=> AllValid(fs) /\ IsValidUTF8(x)
             /\ Meaning(gs) = MergeFrom(Meaning(fs), Of(x, u))

\* A field with the bytes it is written in.
LEMMA WrittenSample ==
  ASSUME NEW f, Written(f)
  PROVE  \E s \in Sample : s.wire = WriteField(f) /\ s.field = f /\ Encodes(s.wire, s.field)
<1>1. PICK s : s = [wire |-> WriteField(f), field |-> f]
  OBVIOUS
<1>2. f \in Field /\ Encodes(WriteField(f), f) /\ WriteField(f) \in Seq(Nat)
  BY WriteFieldType DEF Written
<1>3. s \in Sample
  BY <1>1, <1>2 DEF Sample
<1>4. s.wire = WriteField(f) /\ s.field = f
  BY <1>1
<1> QED BY <1>2, <1>3, <1>4

\* MergeFrom, part by part.
LEMMA MergeParts ==
  ASSUME NEW m \in Msg, NEW x \in Seq(Nat), NEW u \in Seq(Field)
  PROVE  /\ x = <<>> => MergeFrom(m, Of(x, u)) = Of(m.text, m.unknown \o u)
         /\ x # <<>> => MergeFrom(m, Of(x, u)) = Of(x, m.unknown \o u)
         /\ m = Of(m.text, m.unknown)
         /\ m.text \in Seq(Nat) /\ m.unknown \in Seq(Field) /\ m.unknown \o u \in Seq(Field)
<1>1. Of(x, u).text = x /\ Of(x, u).unknown = u
  BY DEF Of
<1>2. m.text \in Seq(Nat) /\ m.unknown \in Seq(Field)
  BY DEF Msg
<1>3. m = Of(m.text, m.unknown)
  BY DEF Msg, Of
<1>4. m.unknown \o u \in Seq(Field)
  BY <1>2
<1>5. MergeFrom(m, Of(x, u)) = Of(IF x = <<>> THEN m.text ELSE x, m.unknown \o u)
  BY <1>1, Zenon DEF MergeFrom, Of
<1> QED BY <1>2, <1>3, <1>4, <1>5, Zenon

\* AddField, part by part.
LEMMA AddParts ==
  ASSUME NEW x \in Seq(Nat), NEW u \in Seq(Field), NEW f \in Field
  PROVE  /\ f.tag = 10 => AddField(Of(x, u), f) = Of(f.bytes, u)
         /\ f.tag # 10 => AddField(Of(x, u), f) = Of(x, Append(u, f))
<1>1. IsText(f.tag) <=> f.tag = 10
  BY TextTag DEF Field
<1>2. PICK m : m = Of(x, u)
  OBVIOUS
<1>3. m.unknown = u
  BY <1>2 DEF Of
<1>4. AddField(m, f) = IF f.tag = 10 THEN [m EXCEPT !.text = f.bytes]
                                     ELSE [m EXCEPT !.unknown = Append(u, f)]
  BY <1>1, <1>3, Zenon DEF AddField
<1>5. PICK b, v : b = f.bytes /\ v = Append(u, f)
  OBVIOUS
<1>6. [m EXCEPT !.text = b] = Of(b, u)
  BY <1>2 DEF Of
<1>7. [m EXCEPT !.unknown = v] = Of(x, v)
  BY <1>2 DEF Of
<1> QED BY <1>2, <1>4, <1>5, <1>6, <1>7, Zenon

\* Concatenation and Append.
LEMMA CatAppend ==
  ASSUME NEW T, NEW s \in Seq(T), NEW t \in Seq(T), NEW z \in T
  PROVE  s \o Append(t, z) = Append(s \o t, z)
OBVIOUS

\* A text alone is sent.
LEMMA SentText ==
  ASSUME NEW x \in Seq(Nat), x # <<>> => Written(TextField(x))
  PROVE  Sent(x, <<>>)
<1>1. PICK w : w = _InternalSerialize(Of(x, <<>>))
  OBVIOUS
<1>2. <<>> \in Seq(Field)
  OBVIOUS
<1>3. CASE x = <<>>
  <2>1. w = <<>> /\ ByteSizeLong(Of(x, <<>>)) = 0
    BY <1>1, <1>3, SerializeText
  <2>2. w \in Seq(Nat) /\ Len(w) = ByteSizeLong(Of(x, <<>>))
    BY <2>1
  <2>3. IsValidUTF8(x)
    BY <1>3 DEF IsValidUTF8
  <2>4. ASSUME NEW fs \in Seq(Sample), Encoded(fs)
        PROVE  /\ Wire(fs) = Wire(fs) \o w
               /\ Meaning(fs) = MergeFrom(Meaning(fs), Of(x, <<>>))
    <3>1. PICK v, m : v = Wire(fs) /\ m = Meaning(fs)
      OBVIOUS
    <3>2. v \in Seq(Nat) /\ m \in Msg
      BY <3>1, FieldsType
    <3>3. v \o w = v
      BY <2>1, <3>2
    <3>4. m.unknown \o <<>> = m.unknown
      BY <3>2 DEF Msg
    <3>5. MergeFrom(m, Of(x, <<>>)) = m
      <4>1. MergeFrom(m, Of(x, <<>>)) = Of(m.text, m.unknown \o <<>>)
            /\ m = Of(m.text, m.unknown)
        BY <1>2, <1>3, <3>2, MergeParts
      <4> QED BY <3>4, <4>1, Zenon
    <3> QED BY <3>1, <3>3, <3>5
  <2>5. ASSUME NEW fs \in Seq(Sample), Encoded(fs)
        PROVE  \E gs \in Seq(Sample) :
                 /\ Encoded(gs) /\ Wire(gs) = Wire(fs) \o w
                 /\ AllValid(gs) <=> AllValid(fs) /\ IsValidUTF8(x)
                 /\ Meaning(gs) = MergeFrom(Meaning(fs), Of(x, <<>>))
    BY <2>3, <2>4, <2>5, Zenon
  <2> QED BY <1>1, <2>2, <2>5, Zenon DEF Sent
<1>4. CASE x # <<>>
  <2>1. PICK f : f = TextField(x)
    OBVIOUS
  <2>2. Written(f) /\ f \in Field /\ f.tag = 10 /\ f.bytes = x
    BY <1>4, <2>1 DEF TextField, Tag, Written
  <2>3. w = WriteField(f) /\ ByteSizeLong(Of(x, <<>>)) = FieldSize(f)
    BY <1>1, <1>4, <2>1, SerializeText
  <2>4. w \in Seq(Nat) /\ Len(w) = ByteSizeLong(Of(x, <<>>))
    BY <2>2, <2>3, WriteFieldType
  <2>5. PICK s \in Sample : s.wire = w /\ s.field = f /\ Encodes(s.wire, s.field)
    BY <2>2, <2>3, WrittenSample
  <2>6. Valid(f) <=> IsValidUTF8(x)
    BY <2>2 DEF Valid
  <2>7. ASSUME NEW fs \in Seq(Sample), Encoded(fs)
        PROVE  \E gs \in Seq(Sample) :
                 /\ Encoded(gs) /\ Wire(gs) = Wire(fs) \o w
                 /\ AllValid(gs) <=> AllValid(fs) /\ IsValidUTF8(x)
                 /\ Meaning(gs) = MergeFrom(Meaning(fs), Of(x, <<>>))
    <3>1. PICK gs : gs = Append(fs, s)
      OBVIOUS
    <3>2. /\ gs \in Seq(Sample) /\ Encoded(gs)
          /\ AllValid(gs) <=> AllValid(fs) /\ IsValidUTF8(x)
      BY <2>5, <2>6, <2>7, <3>1, AppendSample
    <3>3. Wire(gs) = Wire(fs) \o w
      BY <2>5, <3>1, WireAppend
    <3>4. PICK m : m = Meaning(fs)
      OBVIOUS
    <3>5. m \in Msg /\ Meaning(gs) = AddField(m, f)
      BY <2>5, <3>1, <3>4, MeaningAppend
    <3>6. m = Of(m.text, m.unknown) /\ m.text \in Seq(Nat) /\ m.unknown \in Seq(Field)
          /\ MergeFrom(m, Of(x, <<>>)) = Of(x, m.unknown \o <<>>)
      BY <1>2, <1>4, <3>5, MergeParts, Zenon
    <3>7. m.unknown \o <<>> = m.unknown
      BY <3>6
    <3>8. AddField(Of(m.text, m.unknown), f) = Of(x, m.unknown)
      BY <2>2, <3>6, AddParts
    <3>9. Meaning(gs) = MergeFrom(m, Of(x, <<>>))
      BY <3>5, <3>6, <3>7, <3>8, Zenon
    <3> QED BY <3>2, <3>3, <3>4, <3>9, Zenon
  <2> QED BY <1>1, <2>4, <2>7, Zenon DEF Sent
<1> QED BY <1>3, <1>4

\* One more unknown field is sent.
LEMMA SentAppend ==
  ASSUME NEW x \in Seq(Nat), TextField(x) \in Field, NEW u \in Seq(Field), Sent(x, u),
         FieldsSize[u] \in Nat, NEW f, Written(f), f.tag # 10
  PROVE  Sent(x, Append(u, f)) /\ FieldsSize[Append(u, f)] \in Nat
<1>1. f \in Field
  BY DEF Written
<1>2. PICK v : v = Append(u, f)
  OBVIOUS
<1>3. PICK w, z, y : w = _InternalSerialize(Of(x, u)) /\ z = WriteField(f)
                     /\ y = _InternalSerialize(Of(x, v))
  OBVIOUS
<1>4. w \in Seq(Nat) /\ z \in Seq(Nat) /\ y = w \o z /\ Len(z) = FieldSize(f) /\ FieldSize(f) \in Nat
  BY <1>1, <1>2, <1>3, SerializeAppend, WriteFieldType
<1>5. y \in Seq(Nat) /\ Len(y) = Len(w) + Len(z)
  <2>1. w \in Seq(Nat) /\ z \in Seq(Nat)
    BY <1>4
  <2>2. w \o z \in Seq(Nat) /\ Len(w \o z) = Len(w) + Len(z)
    BY <2>1, TwoParts
  <2> QED BY <1>4, <2>2, Zenon
<1>6. FieldsSize[v] = FieldsSize[u] + FieldSize(f) /\ FieldsSize[v] \in Nat
  BY <1>1, <1>2, <1>4, FieldsSizeAppend
<1>7. Len(y) = ByteSizeLong(Of(x, v))
  <2>1. /\ Of(x, u).text = x /\ Of(x, u).unknown = u
        /\ Of(x, v).text = x /\ Of(x, v).unknown = v
    BY DEF Of
  <2>2. PICK t : t = IF x = <<>> THEN 0 ELSE 1 + NumberSize[Len(x)] + Len(x)
    OBVIOUS
  <2>3. t \in Nat
    <3>1. Len(x) \in Nat
      OBVIOUS
    <3>2. NumberSize[Len(x)] \in Nat
      <4>1. Len(WriteVarint[Len(x)]) = NumberSize[Len(x)] /\ WriteVarint[Len(x)] \in Seq(Nat)
        BY <3>1, WriteVarintIsVarint
      <4> QED BY <4>1
    <3> QED BY <2>2, <3>1, <3>2
  <2>4. ByteSizeLong(Of(x, u)) = t + FieldsSize[u]
    BY <2>1, <2>2, Zenon DEF ByteSizeLong
  <2>5. ByteSizeLong(Of(x, v)) = t + FieldsSize[v]
    BY <2>1, <2>2, Zenon DEF ByteSizeLong
  <2>6. Len(w) = ByteSizeLong(Of(x, u))
    BY <1>3, Zenon DEF Sent
  <2>7. Len(w) + FieldSize(f) = t + (FieldsSize[u] + FieldSize(f))
    BY <1>4, <2>3, <2>4, <2>6
  <2> QED BY <1>4, <1>5, <1>6, <2>5, <2>7, Zenon
<1>8. PICK s \in Sample : s.wire = z /\ s.field = f /\ Encodes(s.wire, s.field)
  BY <1>3, WrittenSample
<1>9. Valid(f)
  BY DEF Valid
<1>10. ASSUME NEW fs \in Seq(Sample), Encoded(fs)
       PROVE  \E gs \in Seq(Sample) :
                /\ Encoded(gs) /\ Wire(gs) = Wire(fs) \o y
                /\ AllValid(gs) <=> AllValid(fs) /\ IsValidUTF8(x)
                /\ Meaning(gs) = MergeFrom(Meaning(fs), Of(x, v))
  <2>1. PICK hs \in Seq(Sample) :
          /\ Encoded(hs) /\ Wire(hs) = Wire(fs) \o w
          /\ AllValid(hs) <=> AllValid(fs) /\ IsValidUTF8(x)
          /\ Meaning(hs) = MergeFrom(Meaning(fs), Of(x, u))
    BY <1>3, <1>10, Zenon DEF Sent
  <2>2. PICK gs : gs = Append(hs, s)
    OBVIOUS
  <2>3. /\ gs \in Seq(Sample) /\ Encoded(gs)
        /\ AllValid(gs) <=> AllValid(fs) /\ IsValidUTF8(x)
    BY <1>8, <1>9, <2>1, <2>2, AppendSample
  <2>4. Wire(gs) = Wire(fs) \o y
    <3>1. Wire(gs) = Wire(hs) \o z
      BY <1>8, <2>2, WireAppend
    <3>2. PICK a : a = Wire(fs)
      OBVIOUS
    <3>3. a \in Seq(Nat) /\ w \in Seq(Nat) /\ z \in Seq(Nat)
      BY <1>4, <3>2, FieldsType
    <3>4. (a \o w) \o z = a \o (w \o z)
      BY <3>3, ByteCat, ZenonT(60)
    <3> QED BY <1>4, <2>1, <3>1, <3>2, <3>4, Zenon
  <2>5. PICK m : m = Meaning(fs)
    OBVIOUS
  <2>6. m \in Msg
    BY <2>5, FieldsType
  <2>7. v \in Seq(Field)
    BY <1>1, <1>2, Appended
  <2>8. PICK p : p = IF x = <<>> THEN m.text ELSE x
    OBVIOUS
  <2>9. /\ p \in Seq(Nat) /\ m.unknown \in Seq(Field) /\ m.unknown \o u \in Seq(Field)
        /\ MergeFrom(m, Of(x, u)) = Of(p, m.unknown \o u)
        /\ MergeFrom(m, Of(x, v)) = Of(p, m.unknown \o v)
    <3>1. m.text \in Seq(Nat) /\ m.unknown \in Seq(Field) /\ m.unknown \o u \in Seq(Field)
      BY <2>6, MergeParts
    <3>2. CASE x = <<>>
      <4>1. p = m.text
        BY <2>8, <3>2
      <4>2. MergeFrom(m, Of(x, u)) = Of(m.text, m.unknown \o u)
        BY <2>6, <3>2, MergeParts
      <4>3. MergeFrom(m, Of(x, v)) = Of(m.text, m.unknown \o v)
        BY <2>6, <2>7, <3>2, MergeParts
      <4> QED BY <3>1, <4>1, <4>2, <4>3, Zenon
    <3>3. CASE x # <<>>
      <4>1. p = x
        BY <2>8, <3>3
      <4>2. MergeFrom(m, Of(x, u)) = Of(x, m.unknown \o u)
        BY <2>6, <3>3, MergeParts
      <4>3. MergeFrom(m, Of(x, v)) = Of(x, m.unknown \o v)
        BY <2>6, <2>7, <3>3, MergeParts
      <4> QED BY <3>1, <4>1, <4>2, <4>3, Zenon
    <3> QED BY <3>2, <3>3
  <2>10. m.unknown \o v = Append(m.unknown \o u, f)
    <3>1. PICK k : k = m.unknown
      OBVIOUS
    <3>2. k \in Seq(Field)
      BY <2>9, <3>1
    <3>3. k \o Append(u, f) = Append(k \o u, f)
      BY <1>1, <3>2, CatAppend, SMTT(40)
    <3> QED BY <1>2, <3>1, <3>3, Zenon
  <2>11. Meaning(gs) = AddField(Of(p, m.unknown \o u), f)
    BY <1>8, <2>1, <2>2, <2>5, <2>9, MeaningAppend, Zenon
  <2>12. AddField(Of(p, m.unknown \o u), f) = Of(p, Append(m.unknown \o u, f))
    BY <1>1, <2>9, AddParts
  <2>13. Meaning(gs) = MergeFrom(m, Of(x, v))
    BY <2>9, <2>10, <2>11, <2>12, Zenon
  <2> QED BY <2>3, <2>4, <2>5, <2>13, Zenon
<1>11. Sent(x, v)
  BY <1>3, <1>5, <1>7, <1>10, Zenon DEF Sent
<1> QED BY <1>2, <1>6, <1>11

\* Every message whose fields can be written is sent.
LEMMA SendableSent ==
  ASSUME NEW m, Sendable(m)
  PROVE  Sent(m.text, m.unknown) /\ m = Of(m.text, m.unknown)
<1>1. m \in Msg /\ m.text \in Seq(Nat) /\ m.unknown \in Seq(Field) /\ m = Of(m.text, m.unknown)
  BY DEF Sendable, Msg, Of
<1>2. PICK x : x = m.text
  OBVIOUS
<1>3. x \in Seq(Nat) /\ (x # <<>> => Written(TextField(x))) /\ TextField(x) \in Field
  BY <1>1, <1>2 DEF Sendable, TextField, Tag, Field
<1> DEFINE Writable(u) == \A i \in DOMAIN u : Written(u[i]) /\ u[i].tag # 10
           Done(u) == Sent(x, u) /\ FieldsSize[u] \in Nat
           G == {n \in Nat : \A u \in Seq(Field) : Len(u) = n /\ Writable(u) => Done(u)}
<1>4. ASSUME NEW n \in Nat, \A k \in Nat : k < n => k \in G
      PROVE  n \in G
  <2> SUFFICES ASSUME NEW u \in Seq(Field), Len(u) = n, Writable(u)
               PROVE  Done(u)
    OBVIOUS
  <2>1. CASE u = <<>>
    BY <1>3, <2>1, SentText, FieldsSizeAppend
  <2>2. CASE u # <<>>
    <3>1. PICK v \in Seq(Field), f \in Field : u = Append(v, f) /\ Len(u) = Len(v) + 1
      BY <2>2, Unappend
    <3>2. PICK k \in Nat : k = Len(v)
      OBVIOUS
    <3>3. /\ DOMAIN v = 1..k /\ DOMAIN u = 1..(k + 1) /\ k < n /\ k \in G
          /\ \A i \in 1..k : u[i] = v[i]
          /\ u[k + 1] = f
      <4>1. k < n
        BY <3>1, <3>2
      <4>2. k \in G
        BY <1>4, <4>1
      <4> HIDE DEF G
      <4> QED BY <3>1, <3>2, <4>1, <4>2, Appended
    <3>4. Written(f) /\ f.tag # 10
      <4>1. k + 1 \in DOMAIN u
        BY <3>3
      <4> QED BY <3>3, <4>1
    <3>5. Writable(v)
      <4>1. \A i \in 1..k : i \in 1..(k + 1)
        OBVIOUS
      <4> QED BY <3>3, <4>1
    <3>6. Done(v)
      <4> HIDE DEF Done, Writable
      <4> QED BY <3>2, <3>3, <3>5
    <3> QED BY <1>3, <3>1, <3>4, <3>6, SentAppend
  <2> QED BY <2>1, <2>2
<1>5. \A n \in Nat : n \in G
  <2> HIDE DEF G
  <2> QED BY <1>4, Induction
<1>6. Len(m.unknown) \in Nat
  BY <1>1
<1>7. Writable(m.unknown)
  BY DEF Sendable
<1>8. Len(m.unknown) \in G
  BY <1>5, <1>6, Zenon
<1>9. Done(m.unknown)
  <2> HIDE DEF Done, Writable
  <2> QED BY <1>1, <1>7, <1>8
<1> QED BY <1>1, <1>2, <1>9
-----------------------------------------------------------------------------
(* What the code makes of any bytes and any message. *)

\* A field that was read leaves a message that can be sent.
LEMMA AddSendable ==
  ASSUME NEW m, Sendable(m), NEW w \in Seq(Nat), NEW f \in Field, Encodes(w, f)
  PROVE  Sendable(AddField(m, f))
<1>1. Written(f)
  BY EncodesWritten DEF Written
<1>2. PICK x, u : x = m.text /\ u = m.unknown
  OBVIOUS
<1>3. /\ x \in Seq(Nat) /\ u \in Seq(Field) /\ m = Of(x, u)
      /\ x # <<>> => Written(TextField(x))
      /\ \A i \in DOMAIN u : Written(u[i]) /\ u[i].tag # 10
  <2>1. m \in Msg
    BY DEF Sendable
  <2>2. x \in Seq(Nat) /\ u \in Seq(Field) /\ m = Of(x, u)
    BY <1>2, <2>1 DEF Msg, Of
  <2> QED BY <1>2, <2>2, Zenon DEF Sendable
<1>4. f.tag \in Nat /\ f.bytes \in Seq(Nat) /\ f.varint \in Nat
  BY DEF Field
<1>5. AddField(m, f) \in Msg
  BY AddFieldType DEF Sendable
<1>6. CASE f.tag = 10
  <2>1. AddField(m, f) = Of(f.bytes, u)
    BY <1>3, <1>6, AddParts
  <2>2. f = TextField(f.bytes)
    <3>1. f.varint = 0
      <4>1. PICK p : IsPayload(p, f)
        BY EncodesParts
      <4>2. f.tag % 8 = 2
        BY <1>6
      <4> QED BY <4>1, <4>2 DEF IsPayload
    <3> QED BY <1>6, <3>1 DEF TextField, Tag, Field
  <2>3. PICK g : g = AddField(m, f)
    OBVIOUS
  <2>4. g.text = f.bytes /\ g.unknown = u
    BY <2>1, <2>3 DEF Of
  <2>5. Written(TextField(g.text))
    BY <1>1, <2>2, <2>4, Zenon
  <2>6. Sendable(g)
    BY <1>3, <1>5, <2>3, <2>4, <2>5, Zenon DEF Sendable
  <2> QED BY <2>3, <2>6
<1>7. CASE f.tag # 10
  <2>1. AddField(m, f) = Of(x, Append(u, f))
    BY <1>3, <1>7, AddParts
  <2>2. PICK g, v, n : g = AddField(m, f) /\ v = Append(u, f) /\ n = Len(u)
    OBVIOUS
  <2>3. g.text = x /\ g.unknown = v
    BY <2>1, <2>2 DEF Of
  <2>4. /\ n \in Nat /\ DOMAIN u = 1..n /\ DOMAIN v = 1..(n + 1)
        /\ \A i \in 1..n : v[i] = u[i]
        /\ v[n + 1] = f
    BY <1>3, <2>2, Appended
  <2>5. \A i \in 1..(n + 1) : i \in 1..n \/ i = n + 1
    BY <2>4
  <2>6. \A i \in DOMAIN v : Written(v[i]) /\ v[i].tag # 10
    BY <1>1, <1>3, <1>7, <2>4, <2>5, Zenon
  <2>7. Sendable(g)
    BY <1>3, <1>5, <2>2, <2>3, <2>6, Zenon DEF Sendable
  <2> QED BY <2>2, <2>7
<1> QED BY <1>6, <1>7

\* What fields mean can be sent.
LEMMA MeaningSendable ==
  ASSUME NEW fs \in Seq(Sample), Encoded(fs)
  PROVE  Sendable(Meaning(fs))
<1> DEFINE G == {n \in Nat : \A gs \in Seq(Sample) : Len(gs) = n /\ Encoded(gs) =>
                               Sendable(Meaning(gs))}
<1>1. ASSUME NEW n \in Nat, \A k \in Nat : k < n => k \in G
      PROVE  n \in G
  <2> SUFFICES ASSUME NEW gs \in Seq(Sample), Len(gs) = n, Encoded(gs)
               PROVE  Sendable(Meaning(gs))
    OBVIOUS
  <2>1. CASE gs = <<>>
    <3>1. Meaning(gs) = Empty /\ Empty.text = <<>> /\ Empty.unknown = <<>>
      BY <2>1, MeaningEmpty DEF Empty
    <3>2. Sendable(Empty)
      BY <3>1, EmptyType DEF Sendable
    <3> QED BY <3>1, <3>2, Zenon
  <2>2. CASE gs # <<>>
    <3>1. PICK hs \in Seq(Sample), s \in Sample : gs = Append(hs, s) /\ Len(gs) = Len(hs) + 1
      BY <2>2, Unappend
    <3>2. Encoded(hs) /\ Encodes(s.wire, s.field)
      BY <3>1, AppendSample
    <3>3. Len(hs) \in Nat /\ Len(hs) < n
      BY <3>1
    <3>4. Len(hs) \in G
      BY <1>1, <3>3
    <3>5. Sendable(Meaning(hs))
      BY <3>2, <3>4
    <3>6. s.wire \in Seq(Nat) /\ s.field \in Field
      BY SampleType
    <3>7. Sendable(AddField(Meaning(hs), s.field))
      BY <3>2, <3>5, <3>6, AddSendable
    <3> QED BY <3>1, <3>7, MeaningAppend, Zenon
  <2> QED BY <2>1, <2>2
<1>2. \A n \in Nat : n \in G
  <2> HIDE DEF G
  <2> QED BY <1>1, Induction
<1>3. Len(fs) \in G
  <2>1. Len(fs) \in Nat
    OBVIOUS
  <2> QED BY <1>2, <2>1, Zenon
<1> QED BY <1>3

\* The parser and the wire format agree on every byte string: _InternalParse of
\* src/helloworld.pb.cc accepts the sequences of fields whose texts are valid and
\* nothing else, and what it reads from one is what it means, and can be sent on.
\* Of the code this says nothing where HelloWire leaves the input out: groups, and
\* numbers of more than 32 or 64 bits.
THEOREM ParserIsFormat ==
  \A v \in Seq(Nat) :
    /\ Parse(v).status = "ok" <=>
         \E fs \in Seq(Sample) : Encoded(fs) /\ AllValid(fs) /\ v = Wire(fs)
    /\ \A fs \in Seq(Sample) : Encoded(fs) /\ AllValid(fs) /\ v = Wire(fs) =>
         Parse(v).msg = Meaning(fs) /\ Sendable(Parse(v).msg)
<1>1. ASSUME NEW fs \in Seq(Sample), Encoded(fs), AllValid(fs)
      PROVE  /\ Parse(Wire(fs)).status = "ok" /\ Parse(Wire(fs)).msg = Meaning(fs)
             /\ Sendable(Parse(Wire(fs)).msg)
  <2>1. Parse(Wire(fs)).status = "ok" /\ Parse(Wire(fs)).msg = Meaning(fs)
    BY <1>1, ParseReads
  <2>2. Sendable(Meaning(fs))
    BY <1>1, MeaningSendable
  <2> QED BY <2>1, <2>2, Zenon
<1> QED BY <1>1, ParseAccepts, Zenon

\* Every message all of whose fields can be written is read back as it was,
\* unless its text is not valid, from as many bytes as ByteSizeLong says.
THEOREM MessagesReturn ==
  ASSUME NEW m, Sendable(m)
  PROVE  /\ _InternalSerialize(m) \in Seq(Nat)
         /\ Len(_InternalSerialize(m)) = ByteSizeLong(m)
         /\ IF IsValidUTF8(m.text)
            THEN /\ Parse(_InternalSerialize(m)).status = "ok"
                 /\ Parse(_InternalSerialize(m)).msg = m
            ELSE Parse(_InternalSerialize(m)).status = "failure"
<1>1. PICK x, u, w : x = m.text /\ u = m.unknown /\ w = _InternalSerialize(m)
  OBVIOUS
<1>2. m = Of(x, u) /\ Sent(x, u) /\ x \in Seq(Nat) /\ u \in Seq(Field)
  <2>1. x \in Seq(Nat) /\ u \in Seq(Field)
    BY <1>1 DEF Sendable, Msg
  <2> QED BY <1>1, <2>1, SendableSent
<1>3. w \in Seq(Nat) /\ Len(w) = ByteSizeLong(m)
  BY <1>1, <1>2, Zenon DEF Sent
<1>4. <<>> \in Seq(Sample) /\ Encoded(<<>>) /\ AllValid(<<>>)
  BY DEF Encoded, AllValid
<1>5. PICK gs \in Seq(Sample) :
        /\ Encoded(gs) /\ Wire(gs) = Wire(<<>>) \o w
        /\ AllValid(gs) <=> IsValidUTF8(x)
        /\ Meaning(gs) = MergeFrom(Meaning(<<>>), m)
  BY <1>1, <1>2, <1>4, Zenon DEF Sent
<1>6. Wire(gs) = w
  BY <1>3, <1>5, WireEmpty
<1>7. Meaning(gs) = m
  <2>1. Empty.text = <<>> /\ Empty.unknown = <<>> /\ <<>> \o u = u
    BY <1>2 DEF Empty
  <2>2. CASE x = <<>>
    <3>1. MergeFrom(Empty, Of(x, u)) = Of(Empty.text, Empty.unknown \o u)
      BY <1>2, <2>2, EmptyType, MergeParts
    <3> QED BY <1>2, <1>5, <2>1, <2>2, <3>1, MeaningEmpty, Zenon
  <2>3. CASE x # <<>>
    <3>1. MergeFrom(Empty, Of(x, u)) = Of(x, Empty.unknown \o u)
      BY <1>2, <2>3, EmptyType, MergeParts
    <3> QED BY <1>2, <1>5, <2>1, <3>1, MeaningEmpty, Zenon
  <2> QED BY <2>2, <2>3
<1>8. IF IsValidUTF8(x) THEN Parse(w).status = "ok" /\ Parse(w).msg = m
                        ELSE Parse(w).status = "failure"
  <2>1. IF AllValid(gs) THEN Parse(Wire(gs)).status = "ok" /\ Parse(Wire(gs)).msg = Meaning(gs)
                        ELSE Parse(Wire(gs)).status = "failure"
    BY <1>5, ParseReads
  <2> QED BY <1>5, <1>6, <1>7, <2>1, Zenon
<1> QED BY <1>1, <1>3, <1>8, Zenon

\* The bytes of a message after those of another are read as the two merged, for
\* any message and any bytes that are accepted.
THEOREM MessagesMerge ==
  ASSUME NEW m, Sendable(m), IsValidUTF8(m.text), NEW v \in Seq(Nat), Parse(v).status = "ok"
  PROVE  /\ Parse(v \o _InternalSerialize(m)).status = "ok"
         /\ Parse(v \o _InternalSerialize(m)).msg = MergeFrom(Parse(v).msg, m)
<1>1. PICK x, u, w : x = m.text /\ u = m.unknown /\ w = _InternalSerialize(m)
  OBVIOUS
<1>2. m = Of(x, u) /\ Sent(x, u)
  BY <1>1, SendableSent
<1>3. PICK fs \in Seq(Sample) : Encoded(fs) /\ AllValid(fs) /\ v = Wire(fs)
  BY ParseAccepts
<1>4. Parse(v).msg = Meaning(fs)
  BY <1>3, ParseReads
<1>5. PICK gs \in Seq(Sample) :
        /\ Encoded(gs) /\ Wire(gs) = Wire(fs) \o w
        /\ AllValid(gs) <=> AllValid(fs) /\ IsValidUTF8(x)
        /\ Meaning(gs) = MergeFrom(Meaning(fs), m)
  BY <1>1, <1>2, <1>3, Zenon DEF Sent
<1>6. AllValid(gs)
  BY <1>1, <1>3, <1>5
<1>7. Parse(Wire(gs)).status = "ok" /\ Parse(Wire(gs)).msg = Meaning(gs)
  BY <1>5, <1>6, ParseReads
<1>8. Wire(gs) = v \o w
  BY <1>3, <1>5
<1> QED BY <1>1, <1>4, <1>5, <1>7, <1>8, Zenon

\* The messages of the program can be sent.
LEMMA MessagesSendable ==
  ASSUME NEW m \in Messages
  PROVE  Sendable(m)
<1>1. Inputs \subseteq Seq(Nat) /\ Texts \subseteq Seq(Nat) /\ \A t \in Texts : Len(t) < MaxSize
  BY WireAssumption, Zenon
<1>2. Samples \subseteq Sample /\ \A s \in Samples : Encodes(s.wire, s.field)
  BY WireAssumption, Zenon DEF Sample
<1>3. CASE m = Empty
  <2>1. <<>> \in Seq(Sample) /\ Encoded(<<>>)
    BY DEF Encoded
  <2>2. Sendable(Meaning(<<>>))
    BY <2>1, MeaningSendable
  <2> QED BY <1>3, <2>2, MeaningEmpty, Zenon
<1>4. ASSUME NEW w \in Inputs, Parse(w).status = "ok", m = Parse(w).msg
      PROVE  Sendable(m)
  <2>1. w \in Seq(Nat)
    BY <1>1
  <2>2. PICK fs \in Seq(Sample) : Encoded(fs) /\ AllValid(fs) /\ w = Wire(fs)
    BY <1>4, <2>1, ParseAccepts
  <2> QED BY <1>4, <2>1, <2>2, ParserIsFormat, Zenon
<1>5. ASSUME NEW t \in Texts, NEW u \in Seq(Field), m = [text |-> t, unknown |-> u],
             \A i \in DOMAIN u : Written(u[i]) /\ u[i].tag # 10
      PROVE  Sendable(m)
  <2>1. t \in Seq(Nat) /\ Len(t) < MaxSize
    BY <1>1
  <2>2. Written(TextField(t))
    BY <2>1, TextWritten DEF Written
  <2>3. m.text = t /\ m.unknown = u /\ m \in Msg
    BY <1>5, <2>1 DEF Msg
  <2> QED BY <1>5, <2>2, <2>3, Zenon DEF Sendable
<1>6. ASSUME NEW t \in Texts, m = [text |-> t, unknown |-> <<>>]
      PROVE  Sendable(m)
  <2>1. <<>> \in Seq(Field) /\ DOMAIN <<>> = {}
    OBVIOUS
  <2> QED BY <1>5, <1>6, <2>1
<1>7. ASSUME NEW t \in Texts, NEW s \in Samples, ~IsTextSample(s),
             m = [text |-> t, unknown |-> <<s.field>>]
      PROVE  Sendable(m)
  <2>1. s \in Sample /\ Encodes(s.wire, s.field)
    BY <1>2
  <2>2. s.wire \in Seq(Nat) /\ s.field \in Field
    BY <2>1, SampleType
  <2>3. PICK f : f = s.field
    OBVIOUS
  <2>4. Written(f) /\ f.tag # 10 /\ f \in Field
    BY <1>7, <2>1, <2>2, <2>3, EncodesWritten DEF Written, IsTextSample
  <2>5. PICK u : u = <<f>>
    OBVIOUS
  <2>6. u \in Seq(Field) /\ \A i \in DOMAIN u : u[i] = f
    BY <2>4, <2>5
  <2> QED BY <1>5, <1>7, <2>3, <2>4, <2>5, <2>6, Zenon
<1> QED BY <1>3, <1>4, <1>6, <1>7 DEF Messages

\* What _InternalSerialize of src/helloworld.pb.cc writes has the size
\* ByteSizeLong says, and _InternalParse reads the message back from it.
THEOREM RoundTripHolds == RoundTrip
<1>1. ASSUME NEW m \in Messages
      PROVE  LET w == _InternalSerialize(m)
                 r == Parse(w)
             IN  /\ Len(w) = ByteSizeLong(m)
                 /\ IF IsValidUTF8(m.text) THEN r.status = "ok" /\ r.msg = m
                                           ELSE r.status = "failure"
  BY MessagesSendable, MessagesReturn
<1> QED BY <1>1 DEF RoundTrip

\* MergeFrom of src/helloworld.pb.cc does what reading the bytes of one message
\* after those of the other does.
THEOREM MergeIsConcatenationHolds == MergeIsConcatenation
<1>1. Inputs \subseteq Seq(Nat)
  BY WireAssumption, Zenon
<1>2. ASSUME NEW v \in Inputs, NEW m \in Messages, Parse(v).status = "ok", IsValidUTF8(m.text)
      PROVE  Parse(v \o _InternalSerialize(m)).msg = MergeFrom(Parse(v).msg, m)
  <2>1. Sendable(m) /\ v \in Seq(Nat)
    BY <1>1, MessagesSendable
  <2> QED BY <1>2, <2>1, MessagesMerge
<1> QED BY <1>2 DEF MergeIsConcatenation
-----------------------------------------------------------------------------
(* What the loop leaves behind, also when it fails. *)

\* Text in a message is there because mutable_name() was called.
Kept(s) == s \in ParseState /\ (~s.mutable => s.msg.text = <<>>)

\* The loop keeps to its states from any of them.
LEMMA LoopKeeps ==
  ASSUME NEW r \in Seq(Nat), NEW c \in BOOLEAN, NEW m \in Msg, ~c => m.text = <<>>
  PROVE  Kept(_InternalParse[Going(r, c, m)])
<1> DEFINE G == {n \in Nat : \A q \in Seq(Nat), d \in BOOLEAN, k \in Msg :
                   Len(q) = n /\ (~d => k.text = <<>>) =>
                     Kept(_InternalParse[Going(q, d, k)])}
<1>1. ASSUME NEW n \in Nat, \A j \in Nat : j < n => j \in G
      PROVE  n \in G
  <2> SUFFICES ASSUME NEW q \in Seq(Nat), NEW d \in BOOLEAN, NEW k \in Msg,
                      Len(q) = n, ~d => k.text = <<>>
               PROVE  Kept(_InternalParse[Going(q, d, k)])
    OBVIOUS
  <2>1. CASE q = <<>>
    <3>1. _InternalParse[Going(q, d, k)] = Going(q, d, k)
      BY <2>1, LoopEnds
    <3>2. Going(q, d, k) \in ParseState
      BY GoingType
    <3>3. Going(q, d, k).mutable = d /\ Going(q, d, k).msg = k
      BY DEF Going
    <3>4. Kept(Going(q, d, k))
      BY <3>2, <3>3, Zenon DEF Kept
    <3> QED BY <3>1, <3>4, Zenon
  <2>2. CASE q # <<>>
    <3>1. PICK t : t = ParseField(Going(q, d, k))
      OBVIOUS
    <3>2. /\ _InternalParse[Going(q, d, k)] = _InternalParse[t]
          /\ t.status # "ok" => _InternalParse[Going(q, d, k)] = t
      BY <2>2, <3>1, LoopSteps
    <3>3. /\ t \in ParseState
          /\ \/ t.status # "ok" /\ t.msg = k /\ (~t.mutable => ~d)
             \/ GoesOn(q, d, k)
      BY <3>1, StepIsField
    <3>4. CASE t.status # "ok" /\ t.msg = k /\ (~t.mutable => ~d)
      <4>1. Kept(t)
        BY <3>3, <3>4, Zenon DEF Kept
      <4> QED BY <3>2, <3>4, <4>1, Zenon
    <3>5. CASE GoesOn(q, d, k)
      <4>1. PICK w \in Seq(Nat), x \in Seq(Nat), f \in Field :
              /\ q = w \o x /\ Encodes(w, f)
              /\ t = Going(x, d \/ IsText(f.tag), AddField(k, f))
        BY <3>1, <3>5, Zenon DEF GoesOn
      <4>2. PICK e, l : e = (d \/ IsText(f.tag)) /\ l = AddField(k, f)
        OBVIOUS
      <4>3. e \in BOOLEAN
        BY <4>2 DEF IsText
      <4>4. l \in Msg
        BY <4>2, AddFieldType
      <4>5. ~e => l.text = <<>>
        <5>1. SUFFICES ASSUME ~e
                       PROVE  l.text = <<>>
          OBVIOUS
        <5>2. ~d /\ ~IsText(f.tag)
          BY <4>2, <5>1
        <5>3. l = [k EXCEPT !.unknown = Append(@, f)]
          BY <4>2, <5>2, Zenon DEF AddField
        <5>4. l.text = k.text
          BY <5>3 DEF Msg
        <5> QED BY <5>2, <5>4
      <4>6. Len(x) \in Nat /\ Len(x) < n
        <5>1. w # <<>>
          BY <4>1, FieldStep, EmptyType
        <5>2. Len(w) \in Nat /\ Len(w) # 0 /\ Len(x) \in Nat /\ Len(w \o x) = Len(w) + Len(x)
          BY <5>1
        <5> QED BY <4>1, <5>2
      <4>7. Len(x) \in G
        BY <1>1, <4>6
      <4>8. Kept(_InternalParse[Going(x, e, l)])
        BY <4>3, <4>4, <4>5, <4>7
      <4> QED BY <3>2, <4>1, <4>2, <4>8, Zenon
    <3> QED BY <3>3, <3>4, <3>5
  <2> QED BY <2>1, <2>2
<1>2. \A n \in Nat : n \in G
  <2> HIDE DEF G
  <2> QED BY <1>1, Induction
<1>3. Len(r) \in G
  <2>1. Len(r) \in Nat
    OBVIOUS
  <2> QED BY <1>2, <2>1, Zenon
<1> QED BY <1>3

\* Parse gives a state of the loop for every byte string, and leaves a text in the
\* message only if mutable_name() was called.
LEMMA ParseKeeps ==
  \A w \in Seq(Nat) : Parse(w) \in ParseState /\ (~Parse(w).mutable => Parse(w).msg.text = <<>>)
<1>1. Empty \in Msg /\ Empty.text = <<>>
  BY EmptyType DEF Empty
<1>2. ASSUME NEW w \in Seq(Nat)
      PROVE  Kept(Parse(w))
  <2>1. Kept(_InternalParse[Going(w, FALSE, Empty)])
    BY <1>1, LoopKeeps
  <2> QED BY <2>1, ParseIsLoop, Zenon
<1> QED BY <1>2, Zenon DEF Kept
=============================================================================
