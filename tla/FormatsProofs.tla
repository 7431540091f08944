------------------------------ MODULE FormatsProofs ------------------------------
(***************************************************************************)
(* Proofs about Formats, for every list of entries: what is written reads  *)
(* back, from the vault file and from the exports.                         *)
(***************************************************************************)
EXTENDS MCShell, ShellProofs

-----------------------------------------------------------------------------
(* Induction over numbers, with the property given as a set, and functions *)
(* defined by recursion up to a number.                                    *)

LEMMA NumberInduction ==
    ASSUME NEW S, 0 \in S, \A n \in Nat : n \in S => n + 1 \in S
    PROVE  Nat \subseteq S
  <1> SUFFICES ASSUME Nat \ S # {} PROVE FALSE
    OBVIOUS
  <1>1. PICK x \in Nat \ S : \A y \in Nat \ S : x <= y
    BY LeastNumber
  <1>2. x # 0 /\ x - 1 \in Nat /\ x = (x - 1) + 1 /\ ~(x <= x - 1)
    BY <1>1
  <1>3. x - 1 \in S
    BY <1>1, <1>2
  <1> QED
    BY <1>1, <1>2, <1>3

\* f is the sequence of values in V from start on.
Solves(f, V, start, n, next) ==
    f \in [0..n -> V] /\ f[0] = start /\ \A k \in 1..n : f[k] = next[<<f[k - 1], k>>]

\* A recursion whose steps stay in a set has a solution.
LEMMA RecursionUpTo ==
    ASSUME NEW V, NEW start \in V, NEW n \in Nat, NEW next \in [V \X (1..n) -> V]
    PROVE  \E f : Solves(f, V, start, n, next)
  <1> DEFINE P(m, f) == f[0] = start /\ \A k \in 1..m : f[k] = next[<<f[k - 1], k>>]
             S == {m \in Nat : m <= n => \E f \in [0..m -> V] : P(m, f)}
  <1>1. 0 \in S
    <2> DEFINE f == [k \in 0..0 |-> start]
    <2>1. f \in [0..0 -> V] /\ P(0, f)
      OBVIOUS
    <2> QED
      BY <2>1
  <1>2. ASSUME NEW m \in Nat, m \in S PROVE m + 1 \in S
    <2> SUFFICES ASSUME m + 1 <= n PROVE \E f \in [0..m + 1 -> V] : P(m + 1, f)
      OBVIOUS
    <2>1. PICK f \in [0..m -> V] : P(m, f)
      BY <1>2
    <2> DEFINE g == [k \in 0..m + 1 |-> IF k <= m THEN f[k] ELSE next[<<f[m], m + 1>>]]
    <2>2. next[<<f[m], m + 1>>] \in V
      BY <2>1
    <2>3. g \in [0..m + 1 -> V]
      BY <2>1, <2>2
    <2>4. g[0] = start
      BY <2>1
    <2>5. ASSUME NEW k \in 1..m + 1 PROVE g[k] = next[<<g[k - 1], k>>]
      <3>1. CASE k <= m
        <4>1. g[k] = f[k] /\ g[k - 1] = f[k - 1] /\ k \in 1..m
          BY <3>1
        <4> QED
          BY <2>1, <4>1
      <3>2. CASE k = m + 1
        <4>1. g[k] = next[<<f[m], k>>] /\ g[k - 1] = f[m]
          BY <3>2
        <4> QED
          BY <4>1
      <3> QED
        BY <3>1, <3>2
    <2> QED
      BY <2>3, <2>4, <2>5
  <1> HIDE DEF S
  <1>3. Nat \subseteq S
    BY <1>1, <1>2, NumberInduction
  <1>4. n \in S
    BY <1>3
  <1>5. \E f \in [0..n -> V] : P(n, f)
    <2> HIDE DEF P
    <2> QED
      BY <1>4 DEF S
  <1> QED
    BY <1>5 DEF Solves

-----------------------------------------------------------------------------
(* Integers as bytes. *)

LEMMA WeightFacts ==
    /\ Weight[0] = 1
    /\ \A k \in 1..8 : Weight[k] = Base * Weight[k - 1]
    /\ \A k \in 0..8 : Weight[k] \in Nat \ {0}
  <1> DEFINE V == Nat \ {0}
             next == [x \in V \X (1..8) |-> Base * x[1]]
  <1>1. next \in [V \X (1..8) -> V]
    BY BaseAssumption
  <1>2. PICK f : Solves(f, V, 1, 8, next)
    <2> HIDE DEF next
    <2>1. 1 \in V /\ 8 \in Nat
      OBVIOUS
    <2> HIDE DEF V
    <2> QED
      BY <1>1, <2>1, RecursionUpTo
  <1>3. \A k \in 1..8 : f[k] = Base * f[k - 1]
    BY <1>2 DEF Solves
  <1>4. f = [k \in 0..8 |-> IF k = 0 THEN 1 ELSE Base * f[k - 1]]
    BY <1>2, <1>3 DEF Solves
  <1>5. Weight = [k \in 0..8 |-> IF k = 0 THEN 1 ELSE Base * Weight[k - 1]]
    BY <1>4, Zenon DEF Weight
  <1>6. Weight[0] = 1 /\ \A k \in 1..8 : Weight[k] = Base * Weight[k - 1]
    BY <1>5
  <1>7. \A k \in 0..8 : Weight[k] \in V
    <2> DEFINE S == {k \in Nat : k <= 8 => Weight[k] \in V}
    <2>1. 0 \in S
      BY <1>6
    <2>2. ASSUME NEW k \in Nat, k \in S PROVE k + 1 \in S
      <3>1. k + 1 <= 8 => Weight[k + 1] = Base * Weight[k]
        BY <1>6
      <3> QED
        BY <2>2, <3>1, BaseAssumption
    <2> HIDE DEF S
    <2>3. Nat \subseteq S
      BY <2>1, <2>2, NumberInduction
    <2> USE DEF S
    <2> QED
      BY <2>3
  <1> QED
    BY <1>6, <1>7

\* Division with remainder has one answer.
LEMMA DivisionUnique ==
    ASSUME NEW v \in Nat, NEW w \in Nat \ {0}, NEW q \in Nat, NEW r \in Nat,
           v = q * w + r, r < w
    PROVE  v \div w = q /\ v % w = r
  OBVIOUS

\* The lowest digits and the next one.
LEMMA NextDigit ==
    ASSUME NEW v \in Nat, NEW w \in Nat \ {0}, NEW base \in Nat \ {0}
    PROVE  (v % w) + ((v \div w) % base) * w = v % (base * w)
  <1> DEFINE q == v \div w
             r == v % w
             p == q \div base
             d == q % base
  <1>1. q \in Nat /\ r \in Nat /\ v = q * w + r /\ r < w
    OBVIOUS
  <1>2. p \in Nat /\ d \in Nat /\ q = p * base + d /\ d < base
    BY <1>1
  <1> HIDE DEF q, r, p, d
  <1>3. v = p * (base * w) + (d * w + r)
    BY <1>1, <1>2
  <1>4. d * w + r \in Nat /\ base * w \in Nat \ {0}
    BY <1>1, <1>2
  <1>5. d * w + r < base * w
    <2>1. d + 1 <= base
      BY <1>2
    <2>2. (d + 1) * w <= base * w
      BY <1>2, <2>1
    <2> QED
      BY <1>1, <1>2, <2>2
  <1>6. v % (base * w) = d * w + r
    BY <1>2, <1>3, <1>4, <1>5, DivisionUnique
  <1> QED
    BY <1>1, <1>2, <1>6 DEF q, r, d

-----------------------------------------------------------------------------
(* Texts inside texts. *)

\* The characters of w follow the first o characters of t.
Holds(t, o, w) == o + Len(w) <= Len(t) /\ \A i \in 1..Len(w) : t[o + i] = w[i]

LEMMA HoldsParts ==
    ASSUME NEW t \in Seq(Nat), NEW o \in Nat, NEW x \in Seq(Nat), NEW y \in Seq(Nat),
           Holds(t, o, x \o y)
    PROVE  Holds(t, o, x) /\ Holds(t, o + Len(x), y) /\ Len(x \o y) = Len(x) + Len(y)
  <1>1. /\ x \o y \in Seq(Nat) /\ Len(x \o y) = Len(x) + Len(y)
        /\ \A i \in 1..Len(x) : (x \o y)[i] = x[i]
        /\ \A i \in 1..Len(y) : (x \o y)[Len(x) + i] = y[i]
    OBVIOUS
  <1>2. o + (Len(x) + Len(y)) <= Len(t)
    BY <1>1 DEF Holds
  <1>3. ASSUME NEW i \in 1..Len(x) PROVE t[o + i] = x[i]
    <2>1. i \in 1..Len(x \o y)
      BY <1>1
    <2>2. t[o + i] = (x \o y)[i]
      BY <2>1 DEF Holds
    <2> QED
      BY <1>1, <2>2
  <1>4. ASSUME NEW i \in 1..Len(y) PROVE t[(o + Len(x)) + i] = y[i]
    <2>1. Len(x) + i \in 1..Len(x \o y) /\ o + (Len(x) + i) = (o + Len(x)) + i
      BY <1>1
    <2>2. t[o + (Len(x) + i)] = (x \o y)[Len(x) + i]
      BY <2>1 DEF Holds
    <2> QED
      BY <1>1, <2>1, <2>2
  <1> QED
    BY <1>1, <1>2, <1>3, <1>4 DEF Holds

\* Concatenation, as a name the provers leave folded.
Cat(x, y) == x \o y

LEMMA CatType ==
    ASSUME NEW x \in Seq(Nat), NEW y \in Seq(Nat)
    PROVE  Cat(x, y) \in Seq(Nat) /\ Len(Cat(x, y)) = Len(x) + Len(y)
  BY DEF Cat

LEMMA HoldsCat ==
    ASSUME NEW t \in Seq(Nat), NEW o \in Nat, NEW x \in Seq(Nat), NEW y \in Seq(Nat),
           Holds(t, o, Cat(x, y))
    PROVE  Holds(t, o, x) /\ Holds(t, o + Len(x), y)
  <1>1. Holds(t, o, x \o y)
    BY DEF Cat
  <1> QED
    BY <1>1, HoldsParts

LEMMA SameText ==
    ASSUME NEW S, NEW x \in Seq(S), NEW y \in Seq(S), Len(x) = Len(y),
           \A i \in 1..Len(y) : x[i] = y[i]
    PROVE  x = y
  OBVIOUS

\* The prefixes that FlattenSeq goes through.
Joins(u, ss) ==
    /\ u \in [0..Len(ss) -> Seq(Nat)]
    /\ u[0] = <<>>
    /\ \A k \in 1..Len(ss) : u[k] = u[k - 1] \o ss[k]

LEMMA Joined ==
    ASSUME NEW ss \in Seq(Seq(Nat))
    PROVE  \E u : Joins(u, ss) /\ FlattenSeq(ss) = u[Len(ss)]
  <1> DEFINE n == Len(ss)
             V == Seq(Nat)
             next == [x \in V \X (1..n) |-> x[1] \o ss[x[2]]]
  <1>0. n \in Nat /\ \A k \in 1..n : ss[k] \in Seq(Nat)
    OBVIOUS
  <1>1. next \in [V \X (1..n) -> V]
    BY <1>0
  <1>2. PICK u : Solves(u, V, <<>>, n, next)
    <2>1. <<>> \in V
      OBVIOUS
    <2> HIDE DEF next, V, n
    <2> QED
      BY <1>0, <1>1, <2>1, RecursionUpTo
  <1>3. ASSUME NEW k \in 1..n PROVE u[k] = u[k - 1] \o ss[k]
    <2>1. k - 1 \in 0..n
      BY <1>0
    <2>2. u[k - 1] \in V /\ u[k] = next[<<u[k - 1], k>>]
      BY <1>2, <2>1 DEF Solves
    <2> QED
      BY <2>2
  <1>4. Joins(u, ss)
    BY <1>2, <1>3 DEF Joins, Solves
  <1>5. CASE n = 0
    <2>1. FlattenSeq(ss) = ss
      BY <1>5, Zenon DEF FlattenSeq
    <2>2. ss = <<>>
      BY <1>5
    <2> QED
      BY <1>4, <1>5, <2>1, <2>2 DEF Joins
  <1>6. CASE n # 0
    <2> DEFINE f[i \in 1..Len(ss)] == IF i = 1 THEN ss[i] ELSE f[i - 1] \o ss[i]
    <2>1. \E g : g = [i \in 1..Len(ss) |-> IF i = 1 THEN ss[i] ELSE g[i - 1] \o ss[i]]
      <3> DEFINE g == [i \in 1..Len(ss) |-> u[i]]
      <3>1. \A i \in 1..Len(ss) : g[i] = IF i = 1 THEN ss[i] ELSE g[i - 1] \o ss[i]
        <4>1. ASSUME NEW i \in 1..Len(ss), i = 1 PROVE u[i] = ss[i]
          <5>1. i - 1 = 0
            BY <4>1
          <5>2. u[i] = u[0] \o ss[i] /\ u[0] = <<>>
            BY <1>3, <1>4, <5>1 DEF Joins
          <5>3. ss[i] \in Seq(Nat)
            BY <1>0
          <5> QED
            BY <5>2, <5>3
        <4>2. ASSUME NEW i \in 1..Len(ss), i # 1 PROVE i - 1 \in 1..Len(ss)
          BY <4>2
        <4> QED
          BY <1>3, <4>1, <4>2
      <3>2. g = [i \in 1..Len(ss) |-> IF i = 1 THEN ss[i] ELSE g[i - 1] \o ss[i]]
        BY <3>1
      <3> QED
        BY <3>2
    <2>2. f = [i \in 1..Len(ss) |-> IF i = 1 THEN ss[i] ELSE f[i - 1] \o ss[i]]
      BY <2>1, Zenon
    <2>3. FlattenSeq(ss) = f[Len(ss)]
      BY <1>6, Zenon DEF FlattenSeq
    <2> HIDE DEF f
    <2> DEFINE S == {k \in Nat : k + 1 <= n => f[k + 1] = u[k + 1]}
    <2>4. 0 \in S
      <3>0. 1 \in 1..Len(ss) /\ 1 - 1 = 0 /\ 0 + 1 = 1
        BY <1>0, <1>6
      <3>1. f[1] = ss[1]
        BY <2>2, <3>0
      <3>2. u[1] = u[0] \o ss[1]
        BY <1>3, <3>0
      <3>3. u[0] = <<>> /\ ss[1] \in Seq(Nat)
        BY <1>0, <1>4, <3>0 DEF Joins
      <3>4. u[1] = ss[1]
        BY <3>2, <3>3
      <3> QED
        BY <3>0, <3>1, <3>4
    <2>5. ASSUME NEW k \in Nat, k \in S PROVE k + 1 \in S
      <3> SUFFICES ASSUME (k + 1) + 1 <= n PROVE f[(k + 1) + 1] = u[(k + 1) + 1]
        OBVIOUS
      <3>1. f[k + 1] = u[k + 1]
        BY <1>0, <2>5
      <3>0. (k + 1) + 1 \in 1..Len(ss) /\ ((k + 1) + 1) - 1 = k + 1 /\ (k + 1) + 1 # 1
        BY <1>0
      <3>2. f[(k + 1) + 1] = f[k + 1] \o ss[(k + 1) + 1]
        BY <2>2, <3>0
      <3>3. u[(k + 1) + 1] = u[k + 1] \o ss[(k + 1) + 1]
        BY <1>3, <3>0
      <3> QED
        BY <3>1, <3>2, <3>3
    <2> HIDE DEF S
    <2>6. Nat \subseteq S
      BY <2>4, <2>5, NumberInduction
    <2>7. n - 1 \in S /\ (n - 1) + 1 = n
      BY <1>0, <1>6, <2>6
    <2>8. f[n] = u[n]
      BY <1>0, <2>7 DEF S
    <2> QED
      BY <1>4, <2>3, <2>8
  <1> QED
    BY <1>5, <1>6

\* A text that holds a join holds each part behind the parts before it.
LEMMA HoldsJoined ==
    ASSUME NEW ss \in Seq(Seq(Nat)), NEW u, Joins(u, ss),
           NEW t \in Seq(Nat), NEW o \in Nat, Holds(t, o, u[Len(ss)])
    PROVE  \A k \in 1..Len(ss) :
             /\ Holds(t, o + Len(u[k - 1]), ss[k])
             /\ Len(u[k]) = Len(u[k - 1]) + Len(ss[k])
             /\ u[k - 1] \in Seq(Nat) /\ u[k] \in Seq(Nat)
  <1> DEFINE n == Len(ss)
             S == {j \in Nat : j <= n => Holds(t, o, u[n - j])}
  <1>0. n \in Nat /\ \A k \in 1..n : ss[k] \in Seq(Nat)
    OBVIOUS
  <1>00. \A k \in 0..n : u[k] \in Seq(Nat)
    BY DEF Joins
  <1>1. 0 \in S
    BY <1>0
  <1>2. ASSUME NEW j \in Nat, j \in S PROVE j + 1 \in S
    <2> SUFFICES ASSUME j + 1 <= n PROVE Holds(t, o, u[n - (j + 1)])
      OBVIOUS
    <2>1. n - j \in 1..n /\ n - (j + 1) = (n - j) - 1 /\ (n - j) - 1 \in 0..n
      BY <1>0
    <2>2. u[n - j] = u[(n - j) - 1] \o ss[n - j]
      BY <2>1 DEF Joins
    <2>3. Holds(t, o, u[n - j])
      BY <1>0, <1>2
    <2>4. u[(n - j) - 1] \in Seq(Nat) /\ ss[n - j] \in Seq(Nat)
      BY <1>0, <1>00, <2>1
    <2>5. Holds(t, o, u[(n - j) - 1])
      BY <2>2, <2>3, <2>4, HoldsParts
    <2> QED
      BY <2>1, <2>5
  <1> HIDE DEF S
  <1>3. Nat \subseteq S
    BY <1>1, <1>2, NumberInduction
  <1>4. ASSUME NEW k \in 0..n PROVE Holds(t, o, u[k])
    <2>1. n - k \in S /\ n - k <= n /\ n - (n - k) = k
      BY <1>0, <1>3
    <2> QED
      BY <2>1 DEF S
  <1>5. ASSUME NEW k \in 1..n
        PROVE  /\ Holds(t, o + Len(u[k - 1]), ss[k])
               /\ Len(u[k]) = Len(u[k - 1]) + Len(ss[k])
               /\ u[k - 1] \in Seq(Nat) /\ u[k] \in Seq(Nat)
    <2>1. k \in 0..n /\ k - 1 \in 0..n
      BY <1>0
    <2>2. u[k] = u[k - 1] \o ss[k]
      BY DEF Joins
    <2>3. Holds(t, o, u[k])
      BY <1>4, <2>1
    <2>4. u[k - 1] \in Seq(Nat) /\ u[k] \in Seq(Nat) /\ ss[k] \in Seq(Nat)
      BY <1>0, <1>00, <2>1
    <2> QED
      BY <2>2, <2>3, <2>4, HoldsParts
  <1> QED
    BY <1>5

-----------------------------------------------------------------------------
(* Reading the vault file back. *)

\* A reader that has not thrown.
Reader(o, x) == [ok |-> TRUE, offset |-> o, val |-> x]

LEMMA UintType ==
    ASSUME NEW v \in Nat, NEW width \in {4, 8}
    PROVE  WriteUint(v, width) \in Seq(Nat) /\ Len(WriteUint(v, width)) = width
  <1>1. ASSUME NEW i \in 1..width PROVE (v \div Weight[i - 1]) % Base \in Nat
    <2>1. Weight[i - 1] \in Nat \ {0}
      BY WeightFacts
    <2>2. v \div Weight[i - 1] \in Nat
      BY <2>1
    <2> QED
      BY <2>2, BaseAssumption
  <1>2. width \in Nat
    OBVIOUS
  <1> DEFINE w == [i \in 1..width |-> (v \div Weight[i - 1]) % Base]
  <1>3. w \in [1..width -> Nat]
    BY <1>1
  <1>4. w \in Seq(Nat) /\ Len(w) = width
    <2> HIDE DEF w
    <2> QED
      BY <1>2, <1>3
  <1> QED
    BY <1>4 DEF WriteUint

\* The bytes of an integer read as that integer, when it fits the width.
LEMMA ReadsUint ==
    ASSUME NEW bytes \in Seq(Nat), NEW o \in Nat, NEW x, NEW width \in {4, 8},
           NEW v \in Nat, v < Weight[width], Holds(bytes, o, WriteUint(v, width))
    PROVE  ReadUint(bytes, Reader(o, x), width) = Reader(o + width, v)
  <1> DEFINE r == Reader(o, x)
             digits[k \in 0..width] ==
                IF k = 0 THEN 0 ELSE digits[k - 1] + bytes[r.offset + k] * Weight[k - 1]
             d == [k \in 0..width |-> v % Weight[k]]
  <1>0. r.ok = TRUE /\ r.offset = o
    BY DEF Reader
  <1>1. Len(WriteUint(v, width)) = width
    BY UintType
  <1>2. Fits(bytes, r, width)
    <2>1. o + width <= Len(bytes)
      BY <1>1 DEF Holds
    <2> QED
      BY <1>0, <2>1 DEF Fits
  <1>3. ReadUint(bytes, r, width) =
            [ok |-> TRUE, offset |-> r.offset + width, val |-> digits[width]]
    BY <1>2, Zenon DEF ReadUint
  <1>4. ASSUME NEW k \in 1..width
        PROVE  bytes[r.offset + k] = (v \div Weight[k - 1]) % Base
    <2>1. bytes[o + k] = WriteUint(v, width)[k]
      BY <1>1 DEF Holds
    <2> QED
      BY <1>0, <2>1 DEF WriteUint
  <1>5. \A k \in 0..width : k \in 0..8
    OBVIOUS
  <1>6. ASSUME NEW k \in 1..width
        PROVE  v % Weight[k] = (v % Weight[k - 1]) + bytes[r.offset + k] * Weight[k - 1]
    <2>1. k \in 1..8 /\ k - 1 \in 0..8
      OBVIOUS
    <2>2. Weight[k - 1] \in Nat \ {0} /\ Weight[k] = Base * Weight[k - 1]
      BY <2>1, WeightFacts
    <2>3. (v % Weight[k - 1]) + ((v \div Weight[k - 1]) % Base) * Weight[k - 1]
            = v % (Base * Weight[k - 1])
      <3> DEFINE w == Weight[k - 1]
      <3>1. w \in Nat \ {0} /\ Base \in Nat \ {0}
        BY <2>2, BaseAssumption
      <3> HIDE DEF w
      <3>2. (v % w) + ((v \div w) % Base) * w = v % (Base * w)
        BY <3>1, NextDigit
      <3> QED
        BY <3>2 DEF w
    <2>4. bytes[r.offset + k] = (v \div Weight[k - 1]) % Base
      BY <1>4
    <2> QED
      BY <2>2, <2>3, <2>4
  <1>7. v % Weight[0] = 0
    BY WeightFacts
  <1>8. d = [k \in 0..width |->
                IF k = 0 THEN 0 ELSE d[k - 1] + bytes[r.offset + k] * Weight[k - 1]]
    <2> HIDE DEF r
    <2>1. ASSUME NEW k \in 0..width
          PROVE  v % Weight[k] =
                    IF k = 0 THEN 0 ELSE d[k - 1] + bytes[r.offset + k] * Weight[k - 1]
      <3>1. CASE k = 0
        BY <1>7, <3>1
      <3>2. CASE k # 0
        <4>1. k \in 1..width /\ k - 1 \in 0..width
          BY <3>2
        <4>2. d[k - 1] = v % Weight[k - 1]
          BY <4>1
        <4> QED
          BY <1>6, <3>2, <4>1, <4>2
      <3> QED
        BY <3>1, <3>2
    <2> QED
      BY <2>1
  <1>9. digits = [k \in 0..width |->
                IF k = 0 THEN 0 ELSE digits[k - 1] + bytes[r.offset + k] * Weight[k - 1]]
    <2> HIDE DEF d, r
    <2> QED
      BY <1>8, Zenon
  <1> HIDE DEF digits, r, d
  <1> DEFINE S == {k \in Nat : k <= width => digits[k] = v % Weight[k]}
  <1>10. 0 \in S
    BY <1>7, <1>9
  <1>11. ASSUME NEW k \in Nat, k \in S PROVE k + 1 \in S
    <2> SUFFICES ASSUME k + 1 <= width PROVE digits[k + 1] = v % Weight[k + 1]
      OBVIOUS
    <2>1. k + 1 \in 1..width /\ (k + 1) - 1 = k /\ k + 1 \in 0..width /\ k + 1 # 0
      OBVIOUS
    <2>2. digits[k + 1] = digits[k] + bytes[r.offset + (k + 1)] * Weight[k]
      BY <1>9, <2>1
    <2>3. v % Weight[k + 1] = (v % Weight[k]) + bytes[r.offset + (k + 1)] * Weight[k]
      BY <1>6, <2>1
    <2>4. digits[k] = v % Weight[k]
      BY <1>11
    <2> QED
      BY <2>2, <2>3, <2>4
  <1> HIDE DEF S
  <1>12. Nat \subseteq S
    BY <1>10, <1>11, NumberInduction
  <1>13. digits[width] = v % Weight[width]
    BY <1>12 DEF S
  <1>14. v % Weight[width] = v
    <2>1. width \in 0..8
      OBVIOUS
    <2>2. Weight[width] \in Nat \ {0}
      BY <2>1, WeightFacts
    <2>3. v = 0 * Weight[width] + v
      BY <2>2
    <2> QED
      BY <2>2, <2>3, DivisionUnique
  <1> QED
    BY <1>0, <1>3, <1>13, <1>14 DEF r, Reader

LEMMA StringType ==
    ASSUME NEW s \in Seq(Nat)
    PROVE  WriteString(s) \in Seq(Nat) /\ Len(WriteString(s)) = 4 + Len(s)
  <1>1. Len(s) \in Nat
    OBVIOUS
  <1>2. WriteUint(Len(s), 4) \in Seq(Nat) /\ Len(WriteUint(Len(s), 4)) = 4
    BY <1>1, UintType
  <1> DEFINE w == WriteUint(Len(s), 4)
  <1> HIDE DEF w
  <1>3. w \o s \in Seq(Nat) /\ Len(w \o s) = Len(w) + Len(s)
    BY <1>2 DEF w
  <1> QED
    BY <1>2, <1>3 DEF WriteString, w

LEMMA ReadsString ==
    ASSUME NEW bytes \in Seq(Nat), NEW o \in Nat, NEW x, NEW s \in Seq(Nat),
           Len(s) < Weight[4], Holds(bytes, o, WriteString(s))
    PROVE  ReadString(bytes, Reader(o, x)) = Reader(o + Len(WriteString(s)), s)
  <1> DEFINE n == Reader(o + 4, Len(s))
  <1>0. Len(s) \in Nat /\ Len(WriteString(s)) = 4 + Len(s)
    BY StringType
  <1>1. WriteUint(Len(s), 4) \in Seq(Nat) /\ Len(WriteUint(Len(s), 4)) = 4
    BY <1>0, UintType
  <1>2. Holds(bytes, o, WriteUint(Len(s), 4)) /\ Holds(bytes, o + 4, s)
    <2> DEFINE w == WriteUint(Len(s), 4)
    <2>1. Holds(bytes, o, w \o s)
      BY DEF WriteString
    <2> HIDE DEF w
    <2>2. w \in Seq(Nat) /\ Len(w) = 4
      BY <1>1 DEF w
    <2>3. Holds(bytes, o, w) /\ Holds(bytes, o + Len(w), s)
      BY <2>1, <2>2, HoldsParts
    <2> QED
      BY <2>2, <2>3 DEF w
  <1>3. ReadUint(bytes, Reader(o, x), 4) = n
    BY <1>0, <1>2, ReadsUint
  <1>4. n.ok = TRUE /\ n.offset = o + 4 /\ n.val = Len(s)
    BY DEF Reader
  <1>5. Fits(bytes, n, n.val)
    <2>1. (o + 4) + Len(s) <= Len(bytes)
      BY <1>2 DEF Holds
    <2> QED
      BY <1>4, <2>1 DEF Fits
  <1>6. SubSeq(bytes, (o + 4) + 1, (o + 4) + Len(s)) = s
    <2> DEFINE w == SubSeq(bytes, (o + 4) + 1, (o + 4) + Len(s))
    <2>1. (o + 4) + Len(s) <= Len(bytes) /\ \A i \in 1..Len(s) : bytes[(o + 4) + i] = s[i]
      BY <1>2 DEF Holds
    <2>0. Len(s) \in Nat /\ Len(bytes) \in Nat
      OBVIOUS
    <2> DEFINE l == Len(s)
               a1 == (o + 4) + 1
               b1 == (o + 4) + l
    <2>5. /\ l \in Nat /\ a1 \in Nat \ {0} /\ b1 \in Nat /\ b1 <= Len(bytes)
          /\ (IF a1 <= b1 THEN b1 - a1 + 1 ELSE 0) = l /\ b1 - a1 + 1 = l
          /\ \A i \in 1..l : a1 + i - 1 = (o + 4) + i
      <3>1. l \in Nat /\ b1 <= Len(bytes)
        BY <2>0, <2>1
      <3> HIDE DEF l
      <3> QED
        BY <3>1
    <2>6. w = SubSeq(bytes, a1, b1)
      OBVIOUS
    <2>7. \A i \in 1..l : bytes[(o + 4) + i] = s[i]
      BY <2>1
    <2> HIDE DEF w, l, a1, b1
    <2>8. /\ w \in Seq(Nat) /\ Len(w) = IF a1 <= b1 THEN b1 - a1 + 1 ELSE 0
          /\ \A j \in 1..(b1 - a1 + 1) : w[j] = bytes[a1 + j - 1]
      BY <2>5, <2>6, AtEnd
    <2>2. w \in Seq(Nat) /\ Len(w) = Len(s)
      BY <2>5, <2>8 DEF l
    <2>9. \A i \in 1..l : w[i] = s[i]
      BY <2>5, <2>7, <2>8
    <2>3. \A i \in 1..Len(s) : w[i] = s[i]
      BY <2>9 DEF l
    <2> HIDE DEF w
    <2>4. w = s
      BY <2>2, <2>3, SameText
    <2> QED
      BY <2>4 DEF w
  <1>7. ReadString(bytes, Reader(o, x)) =
            [ok |-> TRUE, offset |-> n.offset + n.val,
             val |-> SubSeq(bytes, n.offset + 1, n.offset + n.val)]
    <2> HIDE DEF n
    <2> QED
      BY <1>3, <1>4, <1>5, Zenon DEF ReadString
  <1>8. ReadString(bytes, Reader(o, x)) =
            [ok |-> TRUE, offset |-> (o + 4) + Len(s), val |-> s]
    BY <1>4, <1>6, <1>7
  <1>9. (o + 4) + Len(s) = o + Len(WriteString(s))
    BY <1>0
  <1> QED
    BY <1>8, <1>9 DEF Reader

\* An entry whose parts fit the widths they are written with.
VaultEntry ==
    [service : Seq(Nat), username : Seq(Nat), password : Seq(Nat), totp : Seq(Nat), updated : Nat]
Storable(e) ==
    /\ e \in VaultEntry
    /\ \A s \in {e.service, e.username, e.password, e.totp} : Len(s) < Weight[4]
    /\ e.updated < Weight[8]

LEMMA EntryType ==
    ASSUME NEW e \in VaultEntry
    PROVE  WriteEntry(e) \in Seq(Nat)
  <1> DEFINE s == WriteString(e.service)
             n == WriteString(e.username)
             p == WriteString(e.password)
             w == WriteUint(e.updated, 8)
             q == WriteString(e.totp)
  <1>1. s \in Seq(Nat) /\ n \in Seq(Nat) /\ p \in Seq(Nat) /\ q \in Seq(Nat)
    BY StringType DEF VaultEntry
  <1>2. w \in Seq(Nat)
    BY UintType DEF VaultEntry
  <1> HIDE DEF s, n, p, w, q
  <1>3. s \o n \o p \o w \o q \in Seq(Nat)
    BY <1>1, <1>2
  <1> QED
    BY <1>3 DEF WriteEntry, s, n, p, w, q

\* Five texts in a row.
Five(t, o, s, n, p, w, q) ==
    /\ Holds(t, o, s)
    /\ Holds(t, o + Len(s), n)
    /\ Holds(t, o + Len(s) + Len(n), p)
    /\ Holds(t, o + Len(s) + Len(n) + Len(p), w)
    /\ Holds(t, o + Len(s) + Len(n) + Len(p) + Len(w), q)
    /\ Len(Cat(Cat(Cat(Cat(s, n), p), w), q)) = Len(s) + Len(n) + Len(p) + Len(w) + Len(q)

LEMMA HoldsFive ==
    ASSUME NEW t \in Seq(Nat), NEW o \in Nat, NEW s \in Seq(Nat), NEW n \in Seq(Nat),
           NEW p \in Seq(Nat), NEW w \in Seq(Nat), NEW q \in Seq(Nat),
           Holds(t, o, Cat(Cat(Cat(Cat(s, n), p), w), q))
    PROVE  Five(t, o, s, n, p, w, q)
  <1> DEFINE x2 == Cat(s, n)
             x3 == Cat(x2, p)
             x4 == Cat(x3, w)
  <1>1. x2 \in Seq(Nat) /\ Len(x2) = Len(s) + Len(n)
    BY CatType
  <1>2. x3 \in Seq(Nat) /\ Len(x3) = Len(x2) + Len(p)
    BY <1>1, CatType
  <1>3. x4 \in Seq(Nat) /\ Len(x4) = Len(x3) + Len(w)
    BY <1>2, CatType
  <1>4. Len(Cat(x4, q)) = Len(x4) + Len(q)
    BY <1>3, CatType
  <1>5. Holds(t, o, x4) /\ Holds(t, o + Len(x4), q)
    BY <1>3, HoldsCat
  <1>6. Holds(t, o, x3) /\ Holds(t, o + Len(x3), w)
    BY <1>2, <1>5, HoldsCat
  <1>7. Holds(t, o, x2) /\ Holds(t, o + Len(x2), p)
    BY <1>1, <1>6, HoldsCat
  <1>8. Holds(t, o, s) /\ Holds(t, o + Len(s), n)
    BY <1>7, HoldsCat
  <1>9. Len(s) \in Nat /\ Len(n) \in Nat /\ Len(p) \in Nat /\ Len(w) \in Nat /\ Len(q) \in Nat
    OBVIOUS
  <1> HIDE DEF x2, x3, x4
  <1>10. /\ o + Len(x2) = o + Len(s) + Len(n)
         /\ o + Len(x3) = o + Len(s) + Len(n) + Len(p)
         /\ o + Len(x4) = o + Len(s) + Len(n) + Len(p) + Len(w)
         /\ Len(Cat(x4, q)) = Len(s) + Len(n) + Len(p) + Len(w) + Len(q)
    BY <1>1, <1>2, <1>3, <1>4, <1>9
  <1> QED
    BY <1>5, <1>6, <1>7, <1>8, <1>10 DEF x2, x3, x4, Five

LEMMA ReadsEntry ==
    ASSUME NEW bytes \in Seq(Nat), NEW o \in Nat, NEW x, NEW e, Storable(e),
           Holds(bytes, o, WriteEntry(e))
    PROVE  ReadEntry(bytes, Reader(o, x), 3) = Reader(o + Len(WriteEntry(e)), e)
  <1> DEFINE s == WriteString(e.service)
             n == WriteString(e.username)
             p == WriteString(e.password)
             w == WriteUint(e.updated, 8)
             q == WriteString(e.totp)
             o1 == o + Len(s)
             o2 == o1 + Len(n)
             o3 == o2 + Len(p)
             o4 == o3 + Len(w)
             o5 == o4 + Len(q)
             r1 == Reader(o1, e.service)
             r2 == Reader(o2, e.username)
             r3 == Reader(o3, e.password)
             r4 == Reader(o4, e.updated)
             r5 == Reader(o5, e.totp)
  <1>0. /\ e.service \in Seq(Nat) /\ e.username \in Seq(Nat) /\ e.password \in Seq(Nat)
        /\ e.totp \in Seq(Nat) /\ e.updated \in Nat
        /\ e = [service |-> e.service, username |-> e.username, password |-> e.password,
                updated |-> e.updated, totp |-> e.totp]
    BY DEF Storable, VaultEntry
  <1>1. /\ Len(e.service) < Weight[4] /\ Len(e.username) < Weight[4]
        /\ Len(e.password) < Weight[4] /\ Len(e.totp) < Weight[4] /\ e.updated < Weight[8]
    BY DEF Storable
  <1>2. /\ s \in Seq(Nat) /\ n \in Seq(Nat) /\ p \in Seq(Nat) /\ w \in Seq(Nat) /\ q \in Seq(Nat)
        /\ Len(w) = 8 /\ Len(q) = 4 + Len(e.totp)
    BY <1>0, StringType, UintType
  <1>3. WriteEntry(e) = Cat(Cat(Cat(Cat(s, n), p), w), q)
    BY DEF WriteEntry, Cat
  <1>4. /\ Holds(bytes, o, s) /\ Holds(bytes, o1, n) /\ Holds(bytes, o2, p)
        /\ Holds(bytes, o3, w) /\ Holds(bytes, o4, q)
        /\ Len(WriteEntry(e)) = Len(s) + Len(n) + Len(p) + Len(w) + Len(q)
    <2> HIDE DEF s, n, p, w, q
    <2>1. Holds(bytes, o, Cat(Cat(Cat(Cat(s, n), p), w), q))
      BY <1>3
    <2>2. Five(bytes, o, s, n, p, w, q)
      BY <1>2, <2>1, HoldsFive
    <2> QED
      BY <1>3, <2>2 DEF Five
  <1>5. o1 \in Nat /\ o2 \in Nat /\ o3 \in Nat /\ o4 \in Nat /\ o5 \in Nat
    <2> HIDE DEF s, n, p, w, q
    <2>1. Len(s) \in Nat /\ Len(n) \in Nat /\ Len(p) \in Nat /\ Len(w) \in Nat /\ Len(q) \in Nat
      BY <1>2
    <2> QED
      BY <2>1
  <1>6. o4 + 4 <= Len(bytes) /\ o3 + 8 <= Len(bytes)
    <2> HIDE DEF o4, o3, q, w
    <2>1. o4 + Len(q) <= Len(bytes) /\ o3 + Len(w) <= Len(bytes)
      BY <1>4 DEF Holds
    <2>2. Len(e.totp) \in Nat /\ Len(bytes) \in Nat
      BY <1>0
    <2> QED
      BY <1>2, <1>5, <2>1, <2>2
  <1> HIDE DEF o1, o2, o3, o4, o5
  <1>7. /\ ReadString(bytes, Reader(o, x)) = r1 /\ ReadString(bytes, r1) = r2
        /\ ReadString(bytes, r2) = r3 /\ ReadString(bytes, r4) = r5
    <2>1. ReadString(bytes, Reader(o, x)) = Reader(o1, e.service)
      BY <1>0, <1>1, <1>4, ReadsString DEF o1
    <2>2. ReadString(bytes, r1) = Reader(o2, e.username)
      BY <1>0, <1>1, <1>4, <1>5, ReadsString DEF o2
    <2>3. ReadString(bytes, r2) = Reader(o3, e.password)
      BY <1>0, <1>1, <1>4, <1>5, ReadsString DEF o3
    <2>4. ReadString(bytes, r4) = Reader(o5, e.totp)
      BY <1>0, <1>1, <1>4, <1>5, ReadsString DEF o5
    <2> QED
      BY <2>1, <2>2, <2>3, <2>4
  <1>8. ReadUint(bytes, r3, 8) = r4
    <2>1. ReadUint(bytes, r3, 8) = Reader(o3 + 8, e.updated)
      BY <1>0, <1>1, <1>4, <1>5, ReadsUint
    <2>2. o4 = o3 + 8
      <3> HIDE DEF w
      <3> QED
        BY <1>2 DEF o4
    <2> QED
      BY <2>1, <2>2
  <1>9. Fits(bytes, r3, 8) /\ Fits(bytes, r4, 4)
    BY <1>6 DEF Fits, Reader
  <1>10. /\ r5.ok = TRUE /\ r1.val = e.service /\ r2.val = e.username /\ r3.val = e.password
         /\ r4.val = e.updated /\ r5.val = e.totp /\ r5.offset = o5
    BY DEF Reader
  <1> HIDE DEF r1, r2, r3, r4, r5
  <1>11. ReadEntry(bytes, Reader(o, x), 3) =
            [ok |-> TRUE, offset |-> r5.offset,
             val |-> [service |-> r1.val, username |-> r2.val,
                      password |-> r3.val, updated |-> r4.val, totp |-> r5.val]]
    <2>1. 3 >= 3
      OBVIOUS
    <2> QED
      BY <1>7, <1>8, <1>9, <1>10, <2>1, Zenon DEF ReadEntry
  <1>12. o5 = o + Len(WriteEntry(e))
    <2> HIDE DEF s, n, p, w, q
    <2>1. Len(s) \in Nat /\ Len(n) \in Nat /\ Len(p) \in Nat /\ Len(w) \in Nat /\ Len(q) \in Nat
      BY <1>2
    <2> QED
      BY <1>4, <2>1 DEF o1, o2, o3, o4, o5
  <1> QED
    BY <1>0, <1>10, <1>11, <1>12 DEF Reader

\* Lists of entries as the program keeps them: one entry for each service.
Savable(es) ==
    /\ es \in Seq(VaultEntry) /\ Len(es) < Weight[4]
    /\ \A i \in 1..Len(es) : Storable(es[i])
    /\ \A i, j \in 1..Len(es) : es[i].service = es[j].service => i = j

\* The entry with its time stamp, and the first k entries as they are loaded.
Stamped(e, now) == IF e.updated = 0 THEN [e EXCEPT !.updated = now] ELSE e
LoadedTo(es, k, now) == [i \in 1..k |-> Stamped(es[i], now)]

LEMMA StampedType ==
    ASSUME NEW e \in VaultEntry, NEW now \in Nat
    PROVE  Stamped(e, now) \in VaultEntry /\ Stamped(e, now).service = e.service
  BY DEF Stamped, VaultEntry

\* Adding the next entry appends it: no earlier one has its name.
LEMMA AddsNext ==
    ASSUME NEW es, Savable(es), NEW now \in Nat, NEW k \in Nat, k + 1 <= Len(es)
    PROVE  add_entry(LoadedTo(es, k, now), es[k + 1], now) = LoadedTo(es, k + 1, now)
  <1> DEFINE x == LoadedTo(es, k, now)
             y == LoadedTo(es, k + 1, now)
             e == es[k + 1]
             same == {i \in DOMAIN x : x[i].service = e.service}
  <1>0. Len(es) \in Nat /\ \A i \in 1..Len(es) : es[i] \in VaultEntry
    BY DEF Savable
  <1>1. k + 1 \in 1..Len(es)
    BY <1>0
  <1>2. x \in Seq(VaultEntry) /\ Len(x) = k /\ DOMAIN x = 1..k
        /\ \A i \in 1..k : x[i] = Stamped(es[i], now)
    <2>1. \A i \in 1..k : Stamped(es[i], now) \in VaultEntry
      BY <1>0, StampedType
    <2> QED
      BY <2>1 DEF LoadedTo
  <1>3. y \in Seq(VaultEntry) /\ Len(y) = k + 1
        /\ \A i \in 1..k + 1 : y[i] = Stamped(es[i], now)
    <2>1. \A i \in 1..k + 1 : Stamped(es[i], now) \in VaultEntry
      BY <1>0, StampedType
    <2> QED
      BY <2>1 DEF LoadedTo
  <1>4. same = {}
    <2> SUFFICES ASSUME NEW i \in 1..k, x[i].service = e.service PROVE FALSE
      BY <1>2
    <2>1. i \in 1..Len(es) /\ i # k + 1
      BY <1>0
    <2>2. es[i].service = es[k + 1].service
      BY <1>0, <1>2, <2>1, StampedType
    <2> QED
      BY <1>1, <2>1, <2>2 DEF Savable
  <1>5. add_entry(x, e, now) = Append(x, Stamped(e, now))
    <2> HIDE DEF x, e
    <2> QED
      BY <1>4, Zenon DEF add_entry, Stamped
  <1>6. Append(x, Stamped(e, now)) = y
    <2> DEFINE z == Append(x, Stamped(e, now))
    <2>1. Stamped(e, now) \in VaultEntry
      BY <1>0, <1>1, StampedType
    <2> HIDE DEF x, y, e
    <2>2. z \in Seq(VaultEntry) /\ Len(z) = k + 1 /\ z[k + 1] = Stamped(e, now)
          /\ \A i \in 1..k : z[i] = x[i]
      BY <1>2, <2>1
    <2>3. \A i \in 1..k + 1 : z[i] = y[i]
      BY <1>2, <1>3, <2>2 DEF e
    <2> HIDE DEF z
    <2>4. z = y
      BY <1>3, <2>2, <2>3, SameText
    <2> QED
      BY <2>4 DEF z
  <1> QED
    BY <1>5, <1>6

\* For every list of entries whose parts fit their widths, and whatever
\* characters they hold, deserialize gives back what serialize was given:
\* no length and no time stamp shifts the entries after it.
THEOREM LoadingReadsSaved ==
    ASSUME NEW es, Savable(es), NEW now \in Nat
    PROVE  LoadReadsSave(es, now)
  <1> DEFINE n == Len(es)
             ss == [i \in DOMAIN es |-> WriteEntry(es[i])]
             head == WriteUint(n, 4)
             bytes == serialize(es)
  <1>0. n \in Nat /\ n < Weight[4] /\ DOMAIN es = 1..n
        /\ \A i \in 1..n : es[i] \in VaultEntry /\ Storable(es[i])
    BY DEF Savable
  <1> HIDE DEF n
  <1>1. ss \in Seq(Seq(Nat)) /\ Len(ss) = n /\ \A i \in 1..n : ss[i] = WriteEntry(es[i])
    <2>1. \A i \in 1..n : WriteEntry(es[i]) \in Seq(Nat)
      BY <1>0, EntryType
    <2> QED
      BY <1>0, <2>1
  <1>2. PICK u : Joins(u, ss) /\ FlattenSeq(ss) = u[n]
    <2> HIDE DEF ss
    <2> QED
      BY <1>1, Joined
  <1>3. head \in Seq(Nat) /\ Len(head) = 4
    BY <1>0, UintType
  <1>4. u[n] \in Seq(Nat) /\ u[0] = <<>>
    <2> HIDE DEF ss
    <2> QED
      BY <1>0, <1>1, <1>2 DEF Joins
  <1>5. bytes = Cat(head, u[n])
    BY <1>2 DEF serialize, Cat, n
  <1> HIDE DEF ss, head, bytes
  <1>6. bytes \in Seq(Nat) /\ Len(bytes) = 4 + Len(u[n]) /\ Len(u[n]) \in Nat
    <2> DEFINE w == u[n]
    <2> HIDE DEF w
    <2>1. w \in Seq(Nat) /\ bytes = Cat(head, w)
      BY <1>4, <1>5 DEF w
    <2>0. Len(w) \in Nat
      BY <2>1
    <2>2. Cat(head, w) \in Seq(Nat) /\ Len(Cat(head, w)) = Len(head) + Len(w)
      BY <1>3, <2>1, CatType
    <2> QED
      BY <1>3, <2>0, <2>1, <2>2 DEF w
  <1>7. Holds(bytes, 0, head) /\ Holds(bytes, 4, u[n])
    <2>1. \A i \in 1..Len(bytes) : bytes[0 + i] = bytes[i]
      BY <1>6
    <2>2. Holds(bytes, 0, bytes)
      BY <1>6, <2>1 DEF Holds
    <2>3. Holds(bytes, 0, Cat(head, u[n]))
      BY <1>5, <2>2
    <2>4. Holds(bytes, 0, head) /\ Holds(bytes, 0 + Len(head), u[n])
      BY <1>3, <1>4, <1>6, <2>3, HoldsCat
    <2>5. 0 + Len(head) = 4
      BY <1>3
    <2> QED
      BY <2>4, <2>5
  <1>8. \A k \in 1..n : /\ Holds(bytes, 4 + Len(u[k - 1]), WriteEntry(es[k]))
                        /\ Len(u[k]) = Len(u[k - 1]) + Len(WriteEntry(es[k]))
                        /\ u[k - 1] \in Seq(Nat)
    <2>1. Holds(bytes, 4, u[Len(ss)])
      BY <1>1, <1>7
    <2>2. \A k \in 1..Len(ss) :
             /\ Holds(bytes, 4 + Len(u[k - 1]), ss[k])
             /\ Len(u[k]) = Len(u[k - 1]) + Len(ss[k])
             /\ u[k - 1] \in Seq(Nat) /\ u[k] \in Seq(Nat)
      BY <1>1, <1>2, <1>6, <2>1, HoldsJoined
    <2> QED
      BY <1>1, <2>2
  <1> DEFINE start == [ok |-> TRUE, offset |-> 0, val |-> 0]
             count == ReadUint(bytes, start, 4)
             Read(k) == IF k = 0 THEN n ELSE es[k]
             State(k) == [reader |-> Reader(4 + Len(u[k]), Read(k)), es |-> LoadedTo(es, k, now)]
  <1>9. count = Reader(4, n)
    <2>1. start = Reader(0, 0)
      BY DEF Reader
    <2>2. ReadUint(bytes, Reader(0, 0), 4) = Reader(0 + 4, n)
      BY <1>0, <1>6, <1>7, ReadsUint DEF head
    <2>3. 0 + 4 = 4
      OBVIOUS
    <2> QED
      BY <2>1, <2>2, <2>3
  <1>10. count.ok = TRUE /\ count.val = n
    <2> HIDE DEF count
    <2> QED
      BY <1>9 DEF Reader
  <1>11. [reader |-> count, es |-> <<>>] = State(0)
    <2>1. LoadedTo(es, 0, now) = <<>>
      BY DEF LoadedTo
    <2>2. 4 + Len(u[0]) = 4
      BY <1>4
    <2> HIDE DEF count
    <2> QED
      BY <1>9, <2>1, <2>2
  <1>12. ASSUME NEW k \in Nat, k + 1 <= n
         PROVE  LoadEntry(bytes, State(k), 3, now) = State(k + 1)
    <2> DEFINE r == Reader(4 + Len(u[k]), Read(k))
               r1 == Reader(4 + Len(u[k + 1]), es[k + 1])
    <2>0. k + 1 \in 1..n /\ (k + 1) - 1 = k
      BY <1>0, <1>12
    <2>1. /\ Holds(bytes, 4 + Len(u[k]), WriteEntry(es[k + 1]))
          /\ Len(u[k + 1]) = Len(u[k]) + Len(WriteEntry(es[k + 1]))
          /\ u[k] \in Seq(Nat)
      BY <1>8, <2>0
    <2>2. Storable(es[k + 1]) /\ WriteEntry(es[k + 1]) \in Seq(Nat)
      BY <1>0, <2>0, EntryType
    <2>3. 4 + Len(u[k]) \in Nat /\ 4 + Len(u[k + 1]) = (4 + Len(u[k])) + Len(WriteEntry(es[k + 1]))
      <3> DEFINE l == Len(u[k])
                 m == Len(WriteEntry(es[k + 1]))
      <3>1. l \in Nat /\ m \in Nat
        BY <2>1, <2>2
      <3>2. Len(u[k + 1]) = l + m
        BY <2>1
      <3> HIDE DEF l, m
      <3>3. 4 + l \in Nat /\ 4 + (l + m) = (4 + l) + m
        BY <3>1
      <3>4. 4 + l \in Nat /\ 4 + Len(u[k + 1]) = (4 + l) + m
        BY <3>2, <3>3
      <3> QED
        BY <3>4 DEF l, m
    <2>4. ReadEntry(bytes, r, 3) = Reader((4 + Len(u[k])) + Len(WriteEntry(es[k + 1])), es[k + 1])
      <3> DEFINE o == 4 + Len(u[k])
                 e == es[k + 1]
      <3> HIDE DEF o, e
      <3>1. o \in Nat /\ Storable(e) /\ Holds(bytes, o, WriteEntry(e))
        BY <2>1, <2>2, <2>3 DEF o, e
      <3>2. ReadEntry(bytes, Reader(o, Read(k)), 3) = Reader(o + Len(WriteEntry(e)), e)
        BY <1>6, <3>1, ReadsEntry
      <3> QED
        BY <3>2 DEF o, e
    <2>5. ReadEntry(bytes, r, 3) = r1
      BY <2>3, <2>4
    <2>6. r.ok = TRUE /\ r1.ok = TRUE /\ r1.val = es[k + 1]
      BY DEF Reader
    <2>7. State(k).reader = r /\ State(k).es = LoadedTo(es, k, now)
      OBVIOUS
    <2>8. State(k + 1) = [reader |-> r1, es |-> LoadedTo(es, k + 1, now)]
      OBVIOUS
    <2>9. add_entry(LoadedTo(es, k, now), es[k + 1], now) = LoadedTo(es, k + 1, now)
      BY <1>12, AddsNext DEF n
    <2> HIDE DEF State, r, r1
    <2> QED
      BY <2>5, <2>6, <2>7, <2>8, <2>9, Zenon DEF LoadEntry
  <1> HIDE DEF State, count
  <1> DEFINE loaded[k \in 0..count.val] ==
                IF k = 0 THEN [reader |-> count, es |-> <<>>]
                ELSE LoadEntry(bytes, loaded[k - 1], 3, now)
             f == [k \in 0..count.val |-> State(k)]
  <1>13. f = [k \in 0..count.val |->
                IF k = 0 THEN [reader |-> count, es |-> <<>>]
                ELSE LoadEntry(bytes, f[k - 1], 3, now)]
    <2>1. ASSUME NEW k \in 0..n
          PROVE  State(k) = IF k = 0 THEN [reader |-> count, es |-> <<>>]
                            ELSE LoadEntry(bytes, f[k - 1], 3, now)
      <3>1. CASE k = 0
        BY <1>11, <3>1
      <3>2. CASE k # 0
        <4>1. k - 1 \in Nat /\ (k - 1) + 1 = k /\ k - 1 \in 0..n /\ k <= n
          BY <1>0, <3>2
        <4>2. f[k - 1] = State(k - 1)
          BY <1>10, <4>1
        <4>3. LoadEntry(bytes, State(k - 1), 3, now) = State((k - 1) + 1)
          BY <1>12, <4>1
        <4> QED
          BY <3>2, <4>1, <4>2, <4>3
      <3> QED
        BY <3>1, <3>2
    <2> QED
      BY <1>10, <2>1
  <1>14. loaded = [k \in 0..count.val |->
                IF k = 0 THEN [reader |-> count, es |-> <<>>]
                ELSE LoadEntry(bytes, loaded[k - 1], 3, now)]
    <2> HIDE DEF f
    <2> QED
      BY <1>13, Zenon
  <1>15. deserialize(bytes, 3, now) =
            [ok |-> loaded[count.val].reader.ok, es |-> loaded[count.val].es]
    <2>1. bytes # <<>>
      BY <1>6
    <2> QED
      BY <1>10, <2>1, Zenon DEF deserialize, count
  <1> HIDE DEF loaded, f
  <1> DEFINE S == {k \in Nat : k <= n => loaded[k] = State(k)}
  <1>16. 0 \in S
    BY <1>0, <1>10, <1>11, <1>14
  <1>17. ASSUME NEW k \in Nat, k \in S PROVE k + 1 \in S
    <2> SUFFICES ASSUME k + 1 <= n PROVE loaded[k + 1] = State(k + 1)
      OBVIOUS
    <2>1. k + 1 \in 0..count.val /\ k + 1 # 0 /\ (k + 1) - 1 = k /\ k <= n
      BY <1>0, <1>10
    <2>2. loaded[k + 1] = LoadEntry(bytes, loaded[k], 3, now)
      BY <1>14, <2>1
    <2>3. loaded[k] = State(k)
      BY <1>17, <2>1
    <2> QED
      BY <1>12, <2>2, <2>3
  <1> HIDE DEF S
  <1>18. Nat \subseteq S
    BY <1>16, <1>17, NumberInduction
  <1>19. loaded[n] = State(n)
    BY <1>0, <1>18 DEF S
  <1>20. State(n).reader.ok = TRUE /\ State(n).es = LoadedTo(es, n, now)
    BY DEF State, Reader
  <1>21. deserialize(bytes, 3, now) = [ok |-> TRUE, es |-> LoadedTo(es, n, now)]
    BY <1>10, <1>15, <1>19, <1>20
  <1>22. LoadedTo(es, n, now) = [i \in DOMAIN es |->
                  IF es[i].updated = 0 THEN [es[i] EXCEPT !.updated = now] ELSE es[i]]
    BY <1>0 DEF LoadedTo, Stamped
  <1> QED
    BY <1>21, <1>22 DEF LoadReadsSave, bytes

-----------------------------------------------------------------------------
(* Reading the CSV export. *)

Row(m, fd, row, rows) == [mode |-> m, field |-> fd, row |-> row, rows |-> rows]
CsvModes == {"in", "quote", "out", "bad"}
CsvState == [mode : CsvModes, field : Seq(Nat), row : Seq(Seq(Nat)), rows : Seq(Seq(Seq(Nat)))]

\* f is the run of the reader on t.
CsvRuns(f, t) ==
    /\ f \in [0..Len(t) -> CsvState]
    /\ f[0] = Row("out", <<>>, <<>>, <<>>)
    /\ \A k \in 1..Len(t) : f[k] = CsvChar(f[k - 1], t[k])

LEMMA CsvCharType ==
    ASSUME NEW st \in CsvState, NEW c \in Nat
    PROVE  CsvChar(st, c) \in CsvState
  <1>1. /\ Append(st.field, c) \in Seq(Nat) /\ <<>> \in Seq(Nat)
        /\ Append(st.row, st.field) \in Seq(Seq(Nat)) /\ <<>> \in Seq(Seq(Nat))
    BY DEF CsvState
  <1>2. Append(st.rows, Append(st.row, st.field)) \in Seq(Seq(Seq(Nat)))
    BY <1>1 DEF CsvState
  <1> QED
    BY <1>1, <1>2 DEF CsvChar, CsvState, CsvModes

LEMMA CsvChars ==
    ASSUME NEW fd, NEW row, NEW rows
    PROVE  /\ CsvChar(Row("out", fd, row, rows), Quote) = Row("in", fd, row, rows)
           /\ CsvChar(Row("in", fd, row, rows), Quote) = Row("quote", fd, row, rows)
           /\ \A c \in Nat \ {Quote} :
                CsvChar(Row("in", fd, row, rows), c) = Row("in", Append(fd, c), row, rows)
           /\ CsvChar(Row("quote", fd, row, rows), Quote) = Row("in", Append(fd, Quote), row, rows)
           /\ CsvChar(Row("quote", fd, row, rows), Comma) =
                Row("out", <<>>, Append(row, fd), rows)
           /\ CsvChar(Row("quote", fd, row, rows), Newline) =
                Row("out", <<>>, <<>>, Append(rows, Append(row, fd)))
  <1> USE CsvAssumption DEF CsvChar, Row
  <1>1. CsvChar(Row("out", fd, row, rows), Quote) = Row("in", fd, row, rows)
    OBVIOUS
  <1>2. CsvChar(Row("in", fd, row, rows), Quote) = Row("quote", fd, row, rows)
    OBVIOUS
  <1>3. ASSUME NEW c \in Nat \ {Quote}
        PROVE  CsvChar(Row("in", fd, row, rows), c) = Row("in", Append(fd, c), row, rows)
    OBVIOUS
  <1>4. CsvChar(Row("quote", fd, row, rows), Quote) = Row("in", Append(fd, Quote), row, rows)
    OBVIOUS
  <1>5. CsvChar(Row("quote", fd, row, rows), Comma) = Row("out", <<>>, Append(row, fd), rows)
    OBVIOUS
  <1>6. CsvChar(Row("quote", fd, row, rows), Newline) =
            Row("out", <<>>, <<>>, Append(rows, Append(row, fd)))
    OBVIOUS
  <1> HIDE DEF CsvChar, Row
  <1> QED
    BY <1>1, <1>2, <1>3, <1>4, <1>5, <1>6

\* What ReadCsv says is where the run ends.
LEMMA CsvRun ==
    ASSUME NEW t \in Seq(Nat)
    PROVE  \E f : /\ CsvRuns(f, t)
                  /\ ReadCsv(t) = IF f[Len(t)].mode = "out" THEN f[Len(t)].rows ELSE NotCsv
  <1> DEFINE n == Len(t)
             start == [mode |-> "out", field |-> <<>>, row |-> <<>>, rows |-> <<>>]
             next == [x \in CsvState \X (1..n) |-> CsvChar(x[1], t[x[2]])]
             after[k \in 0..Len(t)] ==
                IF k = 0 THEN [mode |-> "out", field |-> <<>>, row |-> <<>>, rows |-> <<>>]
                ELSE CsvChar(after[k - 1], t[k])
  <1>0. n \in Nat /\ \A k \in 1..n : t[k] \in Nat
    OBVIOUS
  <1>1. start \in CsvState
    BY DEF CsvState, CsvModes
  <1>2. next \in [CsvState \X (1..n) -> CsvState]
    <2>1. \A st \in CsvState, k \in 1..n : CsvChar(st, t[k]) \in CsvState
      BY <1>0, CsvCharType
    <2> QED
      BY <2>1
  <1>3. PICK g : Solves(g, CsvState, start, n, next)
    <2> HIDE DEF next, n, start
    <2> QED
      BY <1>0, <1>1, <1>2, RecursionUpTo
  <1>4. ASSUME NEW k \in 1..n PROVE g[k] = CsvChar(g[k - 1], t[k])
    <2>1. k - 1 \in 0..n
      BY <1>0
    <2>2. g[k - 1] \in CsvState /\ g[k] = next[<<g[k - 1], k>>]
      BY <1>3, <2>1 DEF Solves
    <2> QED
      BY <2>2
  <1>5. g = [k \in 0..Len(t) |->
                IF k = 0 THEN [mode |-> "out", field |-> <<>>, row |-> <<>>, rows |-> <<>>]
                ELSE CsvChar(g[k - 1], t[k])]
    <2>1. g \in [0..n -> CsvState] /\ g[0] = start
      BY <1>3 DEF Solves
    <2>2. \A k \in 0..n : k # 0 => k \in 1..n
      OBVIOUS
    <2> HIDE DEF CsvState
    <2> QED
      BY <1>4, <2>1, <2>2
  <1>6. after = [k \in 0..Len(t) |->
                IF k = 0 THEN [mode |-> "out", field |-> <<>>, row |-> <<>>, rows |-> <<>>]
                ELSE CsvChar(after[k - 1], t[k])]
    BY <1>5, Zenon
  <1>7. ReadCsv(t) = IF after[Len(t)].mode = "out" THEN after[Len(t)].rows ELSE NotCsv
    BY Zenon DEF ReadCsv
  <1> HIDE DEF after
  <1>8. after[0] = start /\ \A k \in 1..n : after[k] = CsvChar(after[k - 1], t[k])
    <2>1. 0 \in 0..n /\ \A k \in 1..n : k \in 0..n /\ k # 0
      BY <1>0
    <2> QED
      BY <1>6, <2>1
  <1> DEFINE S == {k \in Nat : k <= n => after[k] \in CsvState}
  <1>9. 0 \in S
    BY <1>1, <1>8
  <1>10. ASSUME NEW k \in Nat, k \in S PROVE k + 1 \in S
    <2> SUFFICES ASSUME k + 1 <= n PROVE after[k + 1] \in CsvState
      OBVIOUS
    <2>1. k + 1 \in 1..n /\ (k + 1) - 1 = k /\ k <= n
      BY <1>0
    <2>2. after[k + 1] = CsvChar(after[k], t[k + 1])
      BY <1>8, <2>1
    <2>3. after[k] \in CsvState
      BY <1>10, <2>1
    <2> QED
      BY <1>0, <2>1, <2>2, <2>3, CsvCharType
  <1> HIDE DEF S
  <1>11. Nat \subseteq S
    BY <1>9, <1>10, NumberInduction
  <1>12. \A k \in 0..n : after[k] \in CsvState
    BY <1>0, <1>11 DEF S
  <1>13. after \in [0..n -> CsvState]
    BY <1>6, <1>12
  <1>14. CsvRuns(after, t)
    BY <1>8, <1>13 DEF CsvRuns, Row
  <1> QED
    BY <1>7, <1>14

\* The run takes the characters of w one by one from o on.
CsvTakes(f, o, w) == \A i \in 1..Len(w) : f[o + i] = CsvChar(f[(o + i) - 1], w[i])

LEMMA CsvMeets ==
    ASSUME NEW t \in Seq(Nat), NEW f, CsvRuns(f, t), NEW o \in Nat, NEW w \in Seq(Nat),
           Holds(t, o, w)
    PROVE  CsvTakes(f, o, w)
  <1> SUFFICES ASSUME NEW i \in 1..Len(w) PROVE f[o + i] = CsvChar(f[(o + i) - 1], w[i])
    BY DEF CsvTakes
  <1>1. o + Len(w) <= Len(t) /\ t[o + i] = w[i]
    BY DEF Holds
  <1>2. o + i \in 1..Len(t)
    BY <1>1
  <1> QED
    BY <1>1, <1>2 DEF CsvRuns

\* Inside the quotes, a character or a doubled quote is one more character.
LEMMA CsvDoubled ==
    ASSUME NEW t \in Seq(Nat), NEW f, CsvRuns(f, t), NEW o \in Nat, NEW c \in Nat,
           Holds(t, o, Doubled(c)), NEW fd, NEW row, NEW rows, f[o] = Row("in", fd, row, rows)
    PROVE  f[o + Len(Doubled(c))] = Row("in", Append(fd, c), row, rows)
  <1>1. CASE c = Quote
    <2>1. Doubled(c) = <<Quote, Quote>>
      BY <1>1 DEF Doubled
    <2> DEFINE w == <<Quote, Quote>>
    <2>2. w \in Seq(Nat) /\ Len(w) = 2 /\ w[1] = Quote /\ w[2] = Quote
      BY CsvAssumption
    <2> HIDE DEF w
    <2>3. Holds(t, o, w)
      BY <2>1 DEF w
    <2>4. (o + 1) - 1 = o /\ (o + 2) - 1 = o + 1 /\ 1 \in 1..2 /\ 2 \in 1..2
      OBVIOUS
    <2>7. 1 \in 1..Len(w) /\ 2 \in 1..Len(w)
      BY <2>2
    <2>8. CsvTakes(f, o, w)
      BY <2>2, <2>3, CsvMeets
    <2>5. f[o + 1] = CsvChar(f[o], Quote)
      BY <2>2, <2>4, <2>7, <2>8 DEF CsvTakes
    <2>6. f[o + 2] = CsvChar(f[o + 1], Quote)
      BY <2>2, <2>4, <2>7, <2>8 DEF CsvTakes
    <2> QED
      BY <1>1, <2>1, <2>2, <2>5, <2>6, CsvChars DEF w
  <1>2. CASE c # Quote
    <2>1. Doubled(c) = <<c>>
      BY <1>2 DEF Doubled
    <2> DEFINE w == <<c>>
    <2>2. w \in Seq(Nat) /\ Len(w) = 1 /\ w[1] = c
      OBVIOUS
    <2> HIDE DEF w
    <2>3. Holds(t, o, w)
      BY <2>1 DEF w
    <2>4. (o + 1) - 1 = o /\ 1 \in 1..1
      OBVIOUS
    <2>7. 1 \in 1..Len(w)
      BY <2>2
    <2>8. CsvTakes(f, o, w)
      BY <2>2, <2>3, CsvMeets
    <2>5. f[o + 1] = CsvChar(f[o], c)
      BY <2>2, <2>4, <2>7, <2>8 DEF CsvTakes
    <2> QED
      BY <1>2, <2>1, <2>2, <2>5, CsvChars DEF w
  <1> QED
    BY <1>1, <1>2

\* The first characters of a text.
First(g, k) == SubSeq(g, 1, k)

LEMMA FirstNext ==
    ASSUME NEW g \in Seq(Nat)
    PROVE  /\ First(g, 0) = <<>> /\ First(g, Len(g)) = g
           /\ \A k \in Nat : k + 1 <= Len(g) =>
                Append(First(g, k), g[k + 1]) = First(g, k + 1)
  <1>1. First(g, 0) = <<>>
    BY DEF First
  <1>2. First(g, Len(g)) = g
    <2>1. /\ First(g, Len(g)) \in Seq(Nat) /\ Len(First(g, Len(g))) = Len(g)
          /\ \A j \in 1..Len(g) : First(g, Len(g))[j] = g[j]
      BY AtFront DEF First
    <2> QED
      BY <2>1, SameText
  <1>3. ASSUME NEW k \in Nat, k + 1 <= Len(g)
        PROVE  Append(First(g, k), g[k + 1]) = First(g, k + 1)
    <2> DEFINE x == First(g, k)
               y == First(g, k + 1)
               z == Append(x, g[k + 1])
    <2>1. x \in Seq(Nat) /\ Len(x) = k /\ \A j \in 1..k : x[j] = g[j]
      BY <1>3, AtFront DEF First
    <2>2. y \in Seq(Nat) /\ Len(y) = k + 1 /\ \A j \in 1..k + 1 : y[j] = g[j]
      BY <1>3, AtFront DEF First
    <2>3. g[k + 1] \in Nat
      BY <1>3
    <2> HIDE DEF x, y
    <2>4. z \in Seq(Nat) /\ Len(z) = k + 1 /\ \A j \in 1..k + 1 : z[j] = g[j]
      BY <2>1, <2>3
    <2> HIDE DEF z
    <2>5. z = y
      BY <2>2, <2>4, SameText
    <2> QED
      BY <2>5 DEF x, y, z
  <1> QED
    BY <1>1, <1>2, <1>3

LEMMA GuardedType ==
    ASSUME NEW s \in Seq(Nat)
    PROVE  Guarded(s) \in Seq(Nat)
  BY CsvAssumption DEF Guarded

LEMMA CsvFieldType ==
    ASSUME NEW g \in Seq(Nat)
    PROVE  LET ss == [i \in DOMAIN g |-> Doubled(g[i])]
           IN  /\ ss \in Seq(Seq(Nat)) /\ Len(ss) = Len(g)
               /\ \A i \in 1..Len(g) : ss[i] = Doubled(g[i])
  <1>1. \A i \in 1..Len(g) : Doubled(g[i]) \in Seq(Nat)
    BY CsvAssumption DEF Doubled
  <1>2. DOMAIN g = 1..Len(g) /\ Len(g) \in Nat
    OBVIOUS
  <1> QED
    BY <1>1, <1>2

\* The characters between the quotes are the field.
LEMMA CsvReadsText ==
    ASSUME NEW t \in Seq(Nat), NEW f, CsvRuns(f, t), NEW o \in Nat, NEW g \in Seq(Nat),
           NEW w, w = FlattenSeq([i \in DOMAIN g |-> Doubled(g[i])]),
           Holds(t, o, w), NEW row, NEW rows, f[o] = Row("in", <<>>, row, rows)
    PROVE  w \in Seq(Nat) /\ f[o + Len(w)] = Row("in", g, row, rows)
  <1> DEFINE ss == [i \in DOMAIN g |-> Doubled(g[i])]
             n == Len(g)
  <1>1. ss \in Seq(Seq(Nat)) /\ Len(ss) = n /\ \A i \in 1..n : ss[i] = Doubled(g[i])
    BY CsvFieldType
  <1>0. n \in Nat /\ \A i \in 1..n : g[i] \in Nat
    OBVIOUS
  <1> HIDE DEF n
  <1>2. PICK u : Joins(u, ss) /\ FlattenSeq(ss) = u[Len(ss)]
    <2> HIDE DEF ss
    <2> QED
      BY <1>1, Joined
  <1>3. w = u[n] /\ u[0] = <<>> /\ w \in Seq(Nat)
    <2>1. w = u[Len(ss)]
      BY <1>2
    <2> HIDE DEF ss
    <2> QED
      BY <1>0, <1>1, <1>2, <2>1 DEF Joins
  <1> HIDE DEF ss
  <1>4. \A k \in 1..n : /\ Holds(t, o + Len(u[k - 1]), Doubled(g[k]))
                        /\ Len(u[k]) = Len(u[k - 1]) + Len(Doubled(g[k]))
                        /\ u[k - 1] \in Seq(Nat)
    <2>1. Holds(t, o, u[Len(ss)])
      BY <1>1, <1>3
    <2>2. \A k \in 1..Len(ss) :
             /\ Holds(t, o + Len(u[k - 1]), ss[k])
             /\ Len(u[k]) = Len(u[k - 1]) + Len(ss[k])
             /\ u[k - 1] \in Seq(Nat) /\ u[k] \in Seq(Nat)
      BY <1>1, <1>2, <2>1, HoldsJoined
    <2> QED
      BY <1>1, <2>2
  <1> DEFINE S == {k \in Nat : k <= n => f[o + Len(u[k])] = Row("in", First(g, k), row, rows)}
  <1>5. 0 \in S
    <2>1. o + Len(u[0]) = o
      BY <1>3
    <2>2. f[o + Len(u[0])] = Row("in", First(g, 0), row, rows)
      BY <2>1, FirstNext
    <2> QED
      BY <2>2
  <1>6. ASSUME NEW k \in Nat, k \in S PROVE k + 1 \in S
    <2> SUFFICES ASSUME k + 1 <= n PROVE f[o + Len(u[k + 1])] = Row("in", First(g, k + 1), row, rows)
      OBVIOUS
    <2>1. k + 1 \in 1..n /\ (k + 1) - 1 = k /\ k <= n
      BY <1>0
    <2>2. /\ Holds(t, o + Len(u[k]), Doubled(g[k + 1]))
          /\ Len(u[k + 1]) = Len(u[k]) + Len(Doubled(g[k + 1]))
          /\ u[k] \in Seq(Nat)
      BY <1>4, <2>1
    <2>3. f[o + Len(u[k])] = Row("in", First(g, k), row, rows)
      BY <1>6, <2>1
    <2> DEFINE p == o + Len(u[k])
               d == Len(Doubled(g[k + 1]))
    <2>4. p \in Nat /\ o + Len(u[k + 1]) = p + d
      <3>1. Len(u[k]) \in Nat /\ d \in Nat
        <4>1. ss[k + 1] \in Seq(Nat)
          BY <1>1, <2>1
        <4>2. Doubled(g[k + 1]) \in Seq(Nat)
          BY <1>1, <2>1, <4>1
        <4> QED
          BY <2>2, <4>2
      <3> HIDE DEF d
      <3>2. Len(u[k + 1]) = Len(u[k]) + d
        BY <2>2 DEF d
      <3> QED
        BY <3>1, <3>2
    <2>5. f[p + d] = Row("in", Append(First(g, k), g[k + 1]), row, rows)
      <3> DEFINE c == g[k + 1]
                 fd == First(g, k)
      <3>1. Holds(t, p, Doubled(c)) /\ f[p] = Row("in", fd, row, rows) /\ c \in Nat /\ p \in Nat
        BY <1>0, <2>1, <2>2, <2>3, <2>4
      <3> HIDE DEF p, c, fd
      <3>2. f[p + Len(Doubled(c))] = Row("in", Append(fd, c), row, rows)
        BY <3>1, CsvDoubled
      <3> QED
        BY <3>2 DEF c, fd
    <2>6. Append(First(g, k), g[k + 1]) = First(g, k + 1)
      BY FirstNext DEF n
    <2> QED
      BY <2>4, <2>5, <2>6
  <1> HIDE DEF S
  <1>7. Nat \subseteq S
    BY <1>5, <1>6, NumberInduction
  <1>8. f[o + Len(u[n])] = Row("in", First(g, n), row, rows)
    BY <1>0, <1>7 DEF S
  <1>9. First(g, n) = g
    BY FirstNext DEF n
  <1> QED
    BY <1>3, <1>8, <1>9

LEMMA FlatType ==
    ASSUME NEW ss \in Seq(Seq(Nat))
    PROVE  FlattenSeq(ss) \in Seq(Nat)
  <1>1. PICK u : Joins(u, ss) /\ FlattenSeq(ss) = u[Len(ss)]
    BY Joined
  <1>2. Len(ss) \in 0..Len(ss)
    OBVIOUS
  <1> QED
    BY <1>1, <1>2 DEF Joins

LEMMA OneType ==
    ASSUME NEW c \in Nat
    PROVE  <<c>> \in Seq(Nat) /\ Len(<<c>>) = 1 /\ <<c>>[1] = c
  OBVIOUS

LEMMA CsvOne ==
    ASSUME NEW t \in Seq(Nat), NEW f, CsvRuns(f, t), NEW o \in Nat, NEW c \in Nat,
           Holds(t, o, <<c>>)
    PROVE  f[o + 1] = CsvChar(f[o], c)
  <1> DEFINE w == <<c>>
  <1>1. w \in Seq(Nat) /\ Len(w) = 1 /\ w[1] = c
    BY OneType
  <1> HIDE DEF w
  <1>2. CsvTakes(f, o, w)
    BY <1>1, CsvMeets DEF w
  <1>3. 1 \in 1..Len(w) /\ (o + 1) - 1 = o
    BY <1>1
  <1> QED
    BY <1>1, <1>2, <1>3 DEF CsvTakes

LEMMA CsvReadsField ==
    ASSUME NEW t \in Seq(Nat), NEW f, CsvRuns(f, t), NEW o \in Nat, NEW s \in Seq(Nat),
           Holds(t, o, write_csv_field(s)),
           NEW row, NEW rows, f[o] = Row("out", <<>>, row, rows)
    PROVE  f[o + Len(write_csv_field(s))] = Row("quote", Guarded(s), row, rows)
  <1> DEFINE g == Guarded(s)
             q == <<Quote>>
             ss == [i \in DOMAIN g |-> Doubled(g[i])]
             w == FlattenSeq(ss)
  <1>1. g \in Seq(Nat)
    BY GuardedType
  <1>2. q \in Seq(Nat) /\ Len(q) = 1
    BY CsvAssumption, OneType
  <1>3. w \in Seq(Nat)
    <2> HIDE DEF g
    <2>1. ss \in Seq(Seq(Nat))
      BY <1>1, CsvFieldType
    <2> HIDE DEF ss
    <2> QED
      BY <2>1, FlatType
  <1>4. write_csv_field(s) = Cat(Cat(q, w), q)
    BY DEF write_csv_field, Cat
  <1> HIDE DEF w
  <1>5. /\ Cat(q, w) \in Seq(Nat) /\ Len(Cat(q, w)) = 1 + Len(w) /\ Len(w) \in Nat
        /\ Len(Cat(Cat(q, w), q)) = (1 + Len(w)) + 1
    <2> HIDE DEF q
    <2>1. Cat(q, w) \in Seq(Nat) /\ Len(Cat(q, w)) = Len(q) + Len(w)
      BY <1>2, <1>3, CatType
    <2>2. Len(Cat(Cat(q, w), q)) = Len(Cat(q, w)) + Len(q)
      BY <1>2, <2>1, CatType
    <2>3. Len(w) \in Nat
      BY <1>3
    <2> QED
      BY <1>2, <2>1, <2>2, <2>3
  <1>6. Holds(t, o, q) /\ Holds(t, o + 1, w) /\ Holds(t, o + (1 + Len(w)), q)
    <2> HIDE DEF q
    <2>1. Holds(t, o, Cat(Cat(q, w), q))
      BY <1>4
    <2>2. Holds(t, o, Cat(q, w)) /\ Holds(t, o + Len(Cat(q, w)), q)
      BY <1>2, <1>5, <2>1, HoldsCat
    <2>3. Holds(t, o, q) /\ Holds(t, o + Len(q), w)
      BY <1>2, <1>3, <2>2, HoldsCat
    <2> QED
      BY <1>2, <1>5, <2>2, <2>3
  <1>7. Quote \in Nat
    BY CsvAssumption
  <1>8. f[o + 1] = Row("in", <<>>, row, rows)
    <2>1. Holds(t, o, <<Quote>>)
      BY <1>6
    <2>2. f[o + 1] = CsvChar(f[o], Quote)
      BY <1>7, <2>1, CsvOne
    <2> DEFINE fd == <<>>
    <2>3. f[o] = Row("out", fd, row, rows)
      OBVIOUS
    <2> HIDE DEF fd
    <2>4. CsvChar(Row("out", fd, row, rows), Quote) = Row("in", fd, row, rows)
      BY CsvChars
    <2>5. f[o + 1] = Row("in", fd, row, rows)
      BY <2>2, <2>3, <2>4
    <2> QED
      BY <2>5 DEF fd
  <1>9. f[(o + 1) + Len(w)] = Row("in", g, row, rows)
    <2>1. o + 1 \in Nat
      OBVIOUS
    <2> HIDE DEF g
    <2> QED
      BY <1>1, <1>6, <1>8, <2>1, CsvReadsText DEF w
  <1>10. /\ (o + 1) + Len(w) = o + (1 + Len(w)) /\ o + (1 + Len(w)) \in Nat
         /\ (o + (1 + Len(w))) + 1 = o + ((1 + Len(w)) + 1)
    BY <1>5
  <1>11. f[(o + (1 + Len(w))) + 1] = CsvChar(f[o + (1 + Len(w))], Quote)
    <2> DEFINE p == o + (1 + Len(w))
    <2>1. p \in Nat /\ Holds(t, p, <<Quote>>)
      BY <1>6, <1>10
    <2> HIDE DEF p
    <2>2. f[p + 1] = CsvChar(f[p], Quote)
      BY <1>7, <2>1, CsvOne
    <2> QED
      BY <2>2 DEF p
  <1>12. CsvChar(Row("in", g, row, rows), Quote) = Row("quote", g, row, rows)
    BY CsvChars
  <1>13. f[o + ((1 + Len(w)) + 1)] = Row("quote", g, row, rows)
    BY <1>9, <1>10, <1>11, <1>12
  <1>14. Len(write_csv_field(s)) = (1 + Len(w)) + 1
    BY <1>4, <1>5
  <1> QED
    BY <1>13, <1>14

LEMMA CsvCellType ==
    ASSUME NEW s \in Seq(Nat), NEW c \in Nat
    PROVE  /\ write_csv_field(s) \in Seq(Nat) /\ CsvCell(s, c) \in Seq(Nat)
           /\ Len(CsvCell(s, c)) = Len(write_csv_field(s)) + 1
           /\ CsvCell(s, c) = Cat(write_csv_field(s), <<c>>)
  <1> DEFINE g == Guarded(s)
             q == <<Quote>>
             ss == [i \in DOMAIN g |-> Doubled(g[i])]
             w == FlattenSeq(ss)
  <1>1. g \in Seq(Nat)
    BY GuardedType
  <1>2. q \in Seq(Nat)
    BY CsvAssumption, OneType
  <1>3. w \in Seq(Nat)
    <2> HIDE DEF g
    <2>1. ss \in Seq(Seq(Nat))
      BY <1>1, CsvFieldType
    <2> HIDE DEF ss
    <2> QED
      BY <2>1, FlatType
  <1>4. write_csv_field(s) = Cat(Cat(q, w), q)
    BY DEF write_csv_field, Cat
  <1>5. Cat(Cat(q, w), q) \in Seq(Nat)
    <2> HIDE DEF q, w
    <2> QED
      BY <1>2, <1>3, CatType
  <1>6. write_csv_field(s) \in Seq(Nat)
    BY <1>4, <1>5
  <1>7. CsvCell(s, c) = Cat(write_csv_field(s), <<c>>)
    BY DEF CsvCell, Cat
  <1> DEFINE x == write_csv_field(s)
             y == <<c>>
  <1>8. x \in Seq(Nat) /\ y \in Seq(Nat) /\ Len(y) = 1
    BY <1>6, OneType
  <1> HIDE DEF x, y
  <1>9. Cat(x, y) \in Seq(Nat) /\ Len(Cat(x, y)) = Len(x) + Len(y)
    BY <1>8, CatType
  <1> QED
    BY <1>6, <1>7, <1>8, <1>9 DEF x, y

\* A cell adds its field to the row, and the last one the row to the rows.
CsvAdds(f, o, s, c, row, rows) ==
    f[o + Len(CsvCell(s, c))] = Row("out", <<>>, Append(row, Guarded(s)), rows)
CsvEnds(f, o, s, c, row, rows) ==
    f[o + Len(CsvCell(s, c))] = Row("out", <<>>, <<>>, Append(rows, Append(row, Guarded(s))))

LEMMA CsvReadsCell ==
    ASSUME NEW t \in Seq(Nat), NEW f, CsvRuns(f, t), NEW o \in Nat, NEW s \in Seq(Nat),
           NEW c \in {Comma, Newline}, Holds(t, o, CsvCell(s, c)),
           NEW row, NEW rows, f[o] = Row("out", <<>>, row, rows)
    PROVE  /\ c = Comma => CsvAdds(f, o, s, c, row, rows)
           /\ c = Newline => CsvEnds(f, o, s, c, row, rows)
  <1> DEFINE x == write_csv_field(s)
             p == o + Len(x)
  <1>0. c \in Nat
    BY CsvAssumption
  <1>1. x \in Seq(Nat) /\ CsvCell(s, c) = Cat(x, <<c>>) /\ Len(CsvCell(s, c)) = Len(x) + 1
    BY <1>0, CsvCellType
  <1>2. <<c>> \in Seq(Nat)
    BY <1>0, OneType
  <1>3. Holds(t, o, x) /\ Holds(t, p, <<c>>)
    <2> DEFINE y == <<c>>
    <2>1. Holds(t, o, Cat(x, y)) /\ y \in Seq(Nat)
      BY <1>1, <1>2
    <2>2. x \in Seq(Nat)
      BY <1>1
    <2> HIDE DEF x, y
    <2>3. Holds(t, o, x) /\ Holds(t, o + Len(x), y)
      BY <2>1, <2>2, HoldsCat
    <2> QED
      BY <2>3 DEF y
  <1>4. f[p] = Row("quote", Guarded(s), row, rows)
    BY <1>3, CsvReadsField
  <1>5. p \in Nat /\ o + Len(CsvCell(s, c)) = p + 1
    <2> HIDE DEF x
    <2>1. Len(x) \in Nat /\ Len(CsvCell(s, c)) = Len(x) + 1
      BY <1>1
    <2> DEFINE l == Len(x)
    <2> HIDE DEF l
    <2>2. l \in Nat /\ Len(CsvCell(s, c)) = l + 1
      BY <2>1 DEF l
    <2>3. o + l \in Nat /\ o + Len(CsvCell(s, c)) = (o + l) + 1
      BY <2>2
    <2> QED
      BY <2>3 DEF l
  <1> HIDE DEF p
  <1>6. f[p + 1] = CsvChar(f[p], c)
    BY <1>0, <1>3, <1>5, CsvOne
  <1>7. ASSUME c = Comma PROVE CsvAdds(f, o, s, c, row, rows)
    BY <1>4, <1>5, <1>6, <1>7, CsvChars DEF CsvAdds
  <1>8. ASSUME c = Newline PROVE CsvEnds(f, o, s, c, row, rows)
    BY <1>4, <1>5, <1>6, <1>8, CsvChars DEF CsvEnds
  <1> QED
    BY <1>7, <1>8

\* The row that is read for an entry.
CsvFields(e) == [k \in 1..4 |-> Guarded(Fields4(e)[k])]

LEMMA CsvFieldsAre ==
    ASSUME NEW e \in VaultEntry
    PROVE  /\ CsvFields(e) \in Seq(Seq(Nat))
           /\ Append(Append(Append(Append(<<>>, Guarded(e.service)), Guarded(e.username)),
                     Guarded(e.password)), Guarded(e.totp)) = CsvFields(e)
  <1>0. e.service \in Seq(Nat) /\ e.username \in Seq(Nat) /\ e.password \in Seq(Nat) /\ e.totp \in Seq(Nat)
    BY DEF VaultEntry
  <1> DEFINE g1 == Guarded(e.service)
             g2 == Guarded(e.username)
             g3 == Guarded(e.password)
             g4 == Guarded(e.totp)
             x == CsvFields(e)
  <1>1. g1 \in Seq(Nat) /\ g2 \in Seq(Nat) /\ g3 \in Seq(Nat) /\ g4 \in Seq(Nat)
    BY <1>0, GuardedType
  <1>2. x = [k \in 1..4 |-> IF k = 1 THEN g1 ELSE IF k = 2 THEN g2 ELSE IF k = 3 THEN g3 ELSE g4]
    BY DEF CsvFields, Fields4
  <1> HIDE DEF g1, g2, g3, g4, x
  <1>3. x \in Seq(Seq(Nat)) /\ Len(x) = 4 /\ x[1] = g1 /\ x[2] = g2 /\ x[3] = g3 /\ x[4] = g4
    BY <1>1, <1>2
  <1> DEFINE y == Append(Append(Append(Append(<<>>, g1), g2), g3), g4)
  <1>4. y \in Seq(Seq(Nat)) /\ Len(y) = 4 /\ y[1] = g1 /\ y[2] = g2 /\ y[3] = g3 /\ y[4] = g4
    BY <1>1
  <1> HIDE DEF y
  <1>5. \A i \in 1..4 : y[i] = x[i]
    <2>1. \A i \in 1..4 : i = 1 \/ i = 2 \/ i = 3 \/ i = 4
      OBVIOUS
    <2> QED
      BY <1>3, <1>4, <2>1
  <1>6. y = x
    BY <1>3, <1>4, <1>5, SameText
  <1> QED
    BY <1>3, <1>6 DEF y, x, g1, g2, g3, g4

LEMMA CsvReadsRow ==
    ASSUME NEW t \in Seq(Nat), NEW f, CsvRuns(f, t), NEW o \in Nat, NEW e \in VaultEntry,
           Holds(t, o, CsvRow(e)), NEW rows, f[o] = Row("out", <<>>, <<>>, rows)
    PROVE  f[o + Len(CsvRow(e))] = Row("out", <<>>, <<>>, Append(rows, CsvFields(e)))
  <1>0. e.service \in Seq(Nat) /\ e.username \in Seq(Nat) /\ e.password \in Seq(Nat) /\ e.totp \in Seq(Nat)
    BY DEF VaultEntry
  <1>c. Comma \in Nat /\ Newline \in Nat /\ Comma # Newline
    BY CsvAssumption
  <1> DEFINE c1 == CsvCell(e.service, Comma)
             c2 == CsvCell(e.username, Comma)
             c3 == CsvCell(e.password, Comma)
             c4 == CsvCell(e.totp, Newline)
             x2 == Cat(c1, c2)
             x3 == Cat(x2, c3)
             x4 == Cat(x3, c4)
             p1 == o + Len(c1)
             p2 == p1 + Len(c2)
             p3 == p2 + Len(c3)
             p4 == p3 + Len(c4)
             r1 == Append(<<>>, Guarded(e.service))
             r2 == Append(r1, Guarded(e.username))
             r3 == Append(r2, Guarded(e.password))
             r4 == Append(r3, Guarded(e.totp))
  <1>1. c1 \in Seq(Nat) /\ c2 \in Seq(Nat) /\ c3 \in Seq(Nat) /\ c4 \in Seq(Nat)
    BY <1>0, <1>c, CsvCellType
  <1>2. CsvRow(e) = x4
    BY DEF CsvRow, Cat
  <1>3. r4 = CsvFields(e)
    BY CsvFieldsAre
  <1>4. /\ Len(c1) \in Nat /\ Len(c2) \in Nat /\ Len(c3) \in Nat /\ Len(c4) \in Nat
        /\ x2 \in Seq(Nat) /\ x3 \in Seq(Nat) /\ Len(x2) = Len(c1) + Len(c2)
        /\ Len(x3) = Len(x2) + Len(c3) /\ Len(x4) = Len(x3) + Len(c4)
    <2> HIDE DEF c1, c2, c3, c4
    <2>1. x2 \in Seq(Nat) /\ Len(x2) = Len(c1) + Len(c2)
      BY <1>1, CatType
    <2> HIDE DEF x2
    <2>2. x3 \in Seq(Nat) /\ Len(x3) = Len(x2) + Len(c3)
      BY <1>1, <2>1, CatType
    <2> HIDE DEF x3
    <2>3. Len(x4) = Len(x3) + Len(c4)
      BY <1>1, <2>2, CatType
    <2> QED
      BY <1>1, <2>1, <2>2, <2>3
  <1> HIDE DEF c1, c2, c3, c4, x2, x3, x4
  <1>5. Holds(t, o, x3) /\ Holds(t, o + Len(x3), c4)
    <2>1. Holds(t, o, Cat(x3, c4))
      BY <1>2 DEF x4
    <2> QED
      BY <1>1, <1>4, <2>1, HoldsCat
  <1>6. Holds(t, o, x2) /\ Holds(t, o + Len(x2), c3)
    <2>1. Holds(t, o, Cat(x2, c3))
      BY <1>5 DEF x3
    <2> QED
      BY <1>1, <1>4, <2>1, HoldsCat
  <1>7. Holds(t, o, c1) /\ Holds(t, o + Len(c1), c2)
    <2>1. Holds(t, o, Cat(c1, c2))
      BY <1>6 DEF x2
    <2> QED
      BY <1>1, <2>1, HoldsCat
  <1>8. /\ p1 \in Nat /\ p2 \in Nat /\ p3 \in Nat /\ o + Len(x2) = p2 /\ o + Len(x3) = p3
        /\ o + Len(CsvRow(e)) = p4
    <2> DEFINE l1 == Len(c1)
               l2 == Len(c2)
               l3 == Len(c3)
               l4 == Len(c4)
    <2>1. /\ l1 \in Nat /\ l2 \in Nat /\ l3 \in Nat /\ l4 \in Nat
          /\ Len(x2) = l1 + l2 /\ Len(x3) = Len(x2) + l3 /\ Len(CsvRow(e)) = Len(x3) + l4
      BY <1>2, <1>4
    <2> HIDE DEF l1, l2, l3, l4
    <2>2. /\ o + l1 \in Nat /\ (o + l1) + l2 \in Nat /\ ((o + l1) + l2) + l3 \in Nat
          /\ o + Len(x2) = (o + l1) + l2 /\ o + Len(x3) = ((o + l1) + l2) + l3
          /\ o + Len(CsvRow(e)) = (((o + l1) + l2) + l3) + l4
      BY <2>1
    <2> QED
      BY <2>2 DEF l1, l2, l3, l4
  <1>9. Holds(t, p1, c2) /\ Holds(t, p2, c3) /\ Holds(t, p3, c4)
    BY <1>5, <1>6, <1>7, <1>8
  <1> HIDE DEF p1, p2, p3, p4
  <1> DEFINE s1 == e.service
             s2 == e.username
             s3 == e.password
             s4 == e.totp
             r0 == <<>>
  <1>10. /\ Holds(t, o, CsvCell(s1, Comma)) /\ Holds(t, p1, CsvCell(s2, Comma))
         /\ Holds(t, p2, CsvCell(s3, Comma)) /\ Holds(t, p3, CsvCell(s4, Newline))
    BY <1>7, <1>9 DEF c1, c2, c3, c4
  <1>11. /\ p1 = o + Len(CsvCell(s1, Comma)) /\ p2 = p1 + Len(CsvCell(s2, Comma))
         /\ p3 = p2 + Len(CsvCell(s3, Comma)) /\ p4 = p3 + Len(CsvCell(s4, Newline))
    BY DEF p1, p2, p3, p4, c1, c2, c3, c4
  <1>12. /\ r1 = Append(r0, Guarded(s1)) /\ r2 = Append(r1, Guarded(s2))
         /\ r3 = Append(r2, Guarded(s3)) /\ r4 = Append(r3, Guarded(s4))
         /\ f[o] = Row("out", <<>>, r0, rows)
    OBVIOUS
  <1>13. /\ s1 \in Seq(Nat) /\ s2 \in Seq(Nat) /\ s3 \in Seq(Nat) /\ s4 \in Seq(Nat)
         /\ Comma \in {Comma, Newline} /\ Newline \in {Comma, Newline}
    BY <1>0
  <1> HIDE DEF r0, r1, r2, r3, r4, s1, s2, s3, s4
  <1>14. CsvAdds(f, o, s1, Comma, r0, rows)
    BY <1>10, <1>12, <1>13, CsvReadsCell
  <1>15. f[p1] = Row("out", <<>>, r1, rows)
    BY <1>11, <1>12, <1>14 DEF CsvAdds
  <1>16. CsvAdds(f, p1, s2, Comma, r1, rows)
    BY <1>8, <1>10, <1>13, <1>15, CsvReadsCell
  <1>17. f[p2] = Row("out", <<>>, r2, rows)
    BY <1>11, <1>12, <1>16 DEF CsvAdds
  <1>18. CsvAdds(f, p2, s3, Comma, r2, rows)
    BY <1>8, <1>10, <1>13, <1>17, CsvReadsCell
  <1>19. f[p3] = Row("out", <<>>, r3, rows)
    BY <1>11, <1>12, <1>18 DEF CsvAdds
  <1>20. CsvEnds(f, p3, s4, Newline, r3, rows)
    BY <1>8, <1>10, <1>13, <1>19, CsvReadsCell
  <1>21. f[p4] = Row("out", <<>>, <<>>, Append(rows, r4))
    BY <1>11, <1>12, <1>20 DEF CsvEnds
  <1> QED
    BY <1>3, <1>8, <1>21

\* A sequence of rows, one longer.
LEMMA RowsNext ==
    ASSUME NEW S, NEW k \in Nat, NEW g, \A i \in 1..k + 1 : g[i] \in S
    PROVE  Append([i \in 1..k |-> g[i]], g[k + 1]) = [i \in 1..k + 1 |-> g[i]]
  <1> DEFINE x == [i \in 1..k |-> g[i]]
             y == [i \in 1..k + 1 |-> g[i]]
             z == Append(x, g[k + 1])
  <1>1. x \in Seq(S) /\ Len(x) = k /\ \A i \in 1..k : x[i] = g[i]
    OBVIOUS
  <1>2. y \in Seq(S) /\ Len(y) = k + 1 /\ \A i \in 1..k + 1 : y[i] = g[i]
    OBVIOUS
  <1>3. g[k + 1] \in S
    OBVIOUS
  <1> HIDE DEF x, y
  <1>4. z \in Seq(S) /\ Len(z) = k + 1 /\ \A i \in 1..k + 1 : z[i] = g[i]
    BY <1>1, <1>3
  <1> HIDE DEF z
  <1>5. z = y
    BY <1>2, <1>4, SameText
  <1> QED
    BY <1>5 DEF x, y, z

LEMMA CsvRowType ==
    ASSUME NEW e \in VaultEntry
    PROVE  CsvRow(e) \in Seq(Nat)
  <1>0. e.service \in Seq(Nat) /\ e.username \in Seq(Nat) /\ e.password \in Seq(Nat) /\ e.totp \in Seq(Nat)
    BY DEF VaultEntry
  <1>c. Comma \in Nat /\ Newline \in Nat
    BY CsvAssumption
  <1> DEFINE c1 == CsvCell(e.service, Comma)
             c2 == CsvCell(e.username, Comma)
             c3 == CsvCell(e.password, Comma)
             c4 == CsvCell(e.totp, Newline)
  <1>1. c1 \in Seq(Nat) /\ c2 \in Seq(Nat) /\ c3 \in Seq(Nat) /\ c4 \in Seq(Nat)
    BY <1>0, <1>c, CsvCellType
  <1>2. CsvRow(e) = Cat(Cat(Cat(c1, c2), c3), c4)
    BY DEF CsvRow, Cat
  <1> HIDE DEF c1, c2, c3, c4
  <1>3. Cat(Cat(Cat(c1, c2), c3), c4) \in Seq(Nat)
    BY <1>1, CatType
  <1> QED
    BY <1>2, <1>3

\* Whatever characters the fields hold, the CSV export has one row of four
\* fields for each entry, each its text with the apostrophe that guards it.
LEMMA CsvExport ==
    ASSUME NEW es \in Seq(VaultEntry)
    PROVE  ReadCsv(write_csv(es)) = [i \in DOMAIN es |-> CsvFields(es[i])]
  <1> DEFINE n == Len(es)
             ss == [i \in DOMAIN es |-> CsvRow(es[i])]
             t == write_csv(es)
             R == Seq(Seq(Nat))
             g == [i \in DOMAIN es |-> CsvFields(es[i])]
             Upto(k) == [i \in 1..k |-> g[i]]
  <1>0. n \in Nat /\ DOMAIN es = 1..n /\ \A i \in 1..n : es[i] \in VaultEntry
    OBVIOUS
  <1> HIDE DEF n
  <1>1. ss \in Seq(Seq(Nat)) /\ Len(ss) = n /\ \A i \in 1..n : ss[i] = CsvRow(es[i])
    <2>1. \A i \in 1..n : CsvRow(es[i]) \in Seq(Nat)
      BY <1>0, CsvRowType
    <2> QED
      BY <1>0, <2>1
  <1>2. PICK u : Joins(u, ss) /\ FlattenSeq(ss) = u[n]
    <2> HIDE DEF ss
    <2> QED
      BY <1>1, Joined
  <1>3. t = u[n] /\ t \in Seq(Nat) /\ u[0] = <<>>
    <2>1. t = u[n]
      BY <1>2 DEF write_csv
    <2> HIDE DEF ss, t
    <2> QED
      BY <1>0, <1>1, <1>2, <2>1 DEF Joins
  <1>4. \A i \in 1..n : g[i] = CsvFields(es[i]) /\ g[i] \in R
    BY <1>0, CsvFieldsAre
  <1>5. g = Upto(n)
    BY <1>0
  <1> HIDE DEF ss, t, g, R
  <1>6. \A k \in 1..n : /\ Holds(t, Len(u[k - 1]), CsvRow(es[k]))
                        /\ Len(u[k]) = Len(u[k - 1]) + Len(CsvRow(es[k]))
                        /\ u[k - 1] \in Seq(Nat)
    <2>0. Len(t) \in Nat
      BY <1>3
    <2>1. Holds(t, 0, t)
      BY <2>0 DEF Holds
    <2>2. Holds(t, 0, u[Len(ss)])
      BY <1>1, <1>3, <2>1
    <2>3. \A k \in 1..Len(ss) :
             /\ Holds(t, 0 + Len(u[k - 1]), ss[k])
             /\ Len(u[k]) = Len(u[k - 1]) + Len(ss[k])
             /\ u[k - 1] \in Seq(Nat) /\ u[k] \in Seq(Nat)
      BY <1>1, <1>2, <1>3, <2>2, HoldsJoined
    <2>4. \A k \in 1..n : 0 + Len(u[k - 1]) = Len(u[k - 1])
      <3> SUFFICES ASSUME NEW k \in 1..n PROVE 0 + Len(u[k - 1]) = Len(u[k - 1])
        OBVIOUS
      <3> DEFINE l == Len(u[k - 1])
      <3>1. l \in Nat
        BY <1>1, <2>3
      <3> HIDE DEF l
      <3>2. 0 + l = l
        BY <3>1
      <3> QED
        BY <3>2 DEF l
    <2> QED
      BY <1>1, <2>3, <2>4
  <1>7. PICK f : /\ CsvRuns(f, t)
                 /\ ReadCsv(t) = IF f[Len(t)].mode = "out" THEN f[Len(t)].rows ELSE NotCsv
    BY <1>3, CsvRun
  <1> DEFINE S == {k \in Nat : k <= n => f[Len(u[k])] = Row("out", <<>>, <<>>, Upto(k))}
  <1>8. 0 \in S
    <2>1. Len(u[0]) = 0
      BY <1>3
    <2>2. Upto(0) = <<>>
      OBVIOUS
    <2>3. f[0] = Row("out", <<>>, <<>>, <<>>)
      BY <1>7 DEF CsvRuns
    <2>4. f[Len(u[0])] = Row("out", <<>>, <<>>, Upto(0))
      BY <2>1, <2>2, <2>3
    <2> QED
      BY <2>4
  <1>9. ASSUME NEW k \in Nat, k \in S PROVE k + 1 \in S
    <2> SUFFICES ASSUME k + 1 <= n PROVE f[Len(u[k + 1])] = Row("out", <<>>, <<>>, Upto(k + 1))
      OBVIOUS
    <2>1. k + 1 \in 1..n /\ (k + 1) - 1 = k /\ k <= n
      BY <1>0
    <2>2. /\ Holds(t, Len(u[k]), CsvRow(es[k + 1]))
          /\ Len(u[k + 1]) = Len(u[k]) + Len(CsvRow(es[k + 1]))
          /\ u[k] \in Seq(Nat)
      BY <1>6, <2>1
    <2> DEFINE o == Len(u[k])
               e == es[k + 1]
               rows == Upto(k)
    <2>3. /\ o \in Nat /\ e \in VaultEntry /\ Holds(t, o, CsvRow(e))
          /\ f[o] = Row("out", <<>>, <<>>, rows) /\ Len(u[k + 1]) = o + Len(CsvRow(e))
      BY <1>0, <1>9, <2>1, <2>2
    <2> HIDE DEF o, e, rows
    <2>4. f[o + Len(CsvRow(e))] = Row("out", <<>>, <<>>, Append(rows, CsvFields(e)))
      BY <1>3, <1>7, <2>3, CsvReadsRow
    <2>5. Append(rows, CsvFields(e)) = Upto(k + 1)
      <3>1. \A i \in 1..k + 1 : g[i] \in R
        BY <1>0, <1>4
      <3>2. Append(Upto(k), g[k + 1]) = Upto(k + 1)
        BY <3>1, RowsNext
      <3>3. g[k + 1] = CsvFields(e)
        BY <1>4, <2>1 DEF e
      <3> QED
        BY <3>2, <3>3 DEF rows
    <2> QED
      BY <2>3, <2>4, <2>5
  <1> HIDE DEF S
  <1>10. Nat \subseteq S
    BY <1>8, <1>9, NumberInduction
  <1>11. f[Len(t)] = Row("out", <<>>, <<>>, Upto(n))
    BY <1>0, <1>3, <1>10 DEF S
  <1>12. ReadCsv(t) = Upto(n)
    <2> DEFINE v == Upto(n)
    <2> HIDE DEF v
    <2>1. f[Len(t)] = Row("out", <<>>, <<>>, v)
      BY <1>11 DEF v
    <2>2. f[Len(t)].mode = "out" /\ f[Len(t)].rows = v
      BY <2>1 DEF Row
    <2> QED
      BY <1>7, <2>2 DEF v
  <1> QED
    BY <1>5, <1>12 DEF g, t

-----------------------------------------------------------------------------
(* The JSON export. *)

Json(m, tx) == [mode |-> m, text |-> tx]
JsonModes == {"start", "text", "escape", "number", "end", "bad"}
JsonState == [mode : JsonModes, text : Seq(Int)]

\* f is the run of the reader on t.
JsonRuns(f, t) ==
    /\ f \in [0..Len(t) -> JsonState]
    /\ f[0] = Json("start", <<>>)
    /\ \A k \in 1..Len(t) : f[k] = JsonStep(f[k - 1], t[k])

\* An escape by letter names one character.
LEMMA NamedIs ==
    ASSUME NEW k \in DOMAIN Named
    PROVE  (CHOOSE j \in DOMAIN Named : Named[j] = Named[k]) = k
  BY JsonAssumption

LEMMA JsonStepType ==
    ASSUME NEW st \in JsonState, NEW c \in Nat
    PROVE  JsonStep(st, c) \in JsonState
  <1> DEFINE d == CHOOSE k \in DOMAIN Named : Named[k] = c
  <1>1. Append(st.text, c) \in Seq(Int) /\ Append(st.text, c - Base) \in Seq(Int)
    BY BaseAssumption DEF JsonState
  <1>2. ASSUME NEW k \in DOMAIN Named, Named[k] = c PROVE Append(st.text, d) \in Seq(Int)
    <2>1. d = k
      BY <1>2, NamedIs
    <2>2. d \in Nat
      BY <2>1, JsonAssumption
    <2> QED
      BY <2>2 DEF JsonState
  <1>3. (\E k \in DOMAIN Named : Named[k] = c) => Append(st.text, d) \in Seq(Int)
    BY <1>2
  <1> HIDE DEF d
  <1> DEFINE x1 == Append(st.text, c)
             x2 == Append(st.text, d)
             x3 == Append(st.text, c - Base)
             A1 == st.mode = "escape" /\ \E k \in DOMAIN Named : Named[k] = c
  <1>4. JsonStep(st, c) =
          CASE st.mode = "start" /\ c = Quote -> [st EXCEPT !.mode = "text"]
            [] st.mode = "text" /\ c = Backslash -> [st EXCEPT !.mode = "escape"]
            [] st.mode = "text" /\ c = Quote -> [st EXCEPT !.mode = "end"]
            [] st.mode = "text" /\ c \notin Controls \cup {Quote, Backslash} ->
                  [st EXCEPT !.text = x1]
            [] st.mode = "escape" /\ c \in {Quote, Backslash} ->
                  [st EXCEPT !.mode = "text", !.text = x1]
            [] A1 -> [st EXCEPT !.mode = "text", !.text = x2]
            [] st.mode = "escape" /\ c = LetterU -> [st EXCEPT !.mode = "number"]
            [] st.mode = "number" -> [st EXCEPT !.mode = "text", !.text = x3]
            [] OTHER -> [st EXCEPT !.mode = "bad"]
    BY DEF JsonStep, d
  <1>5. x1 \in Seq(Int) /\ (A1 => x2 \in Seq(Int)) /\ x3 \in Seq(Int)
    BY <1>1, <1>3
  <1> HIDE DEF x1, x2, x3, A1
  <1> QED
    BY <1>4, <1>5 DEF JsonState, JsonModes

LEMMA JsonSteps ==
    ASSUME NEW tx
    PROVE  /\ JsonStep(Json("start", tx), Quote) = Json("text", tx)
           /\ JsonStep(Json("text", tx), Backslash) = Json("escape", tx)
           /\ JsonStep(Json("text", tx), Quote) = Json("end", tx)
           /\ \A c \in Nat : c \notin Controls \cup {Quote, Backslash} =>
                JsonStep(Json("text", tx), c) = Json("text", Append(tx, c))
           /\ \A c \in {Quote, Backslash} :
                JsonStep(Json("escape", tx), c) = Json("text", Append(tx, c))
           /\ \A k \in DOMAIN Named :
                JsonStep(Json("escape", tx), Named[k]) = Json("text", Append(tx, k))
           /\ JsonStep(Json("escape", tx), LetterU) = Json("number", tx)
           /\ \A c \in Nat :
                JsonStep(Json("number", tx), Base + c) = Json("text", Append(tx, c))
  <1> USE JsonAssumption DEF JsonStep, Json
  <1>1. JsonStep(Json("start", tx), Quote) = Json("text", tx)
    OBVIOUS
  <1>2. JsonStep(Json("text", tx), Backslash) = Json("escape", tx)
    OBVIOUS
  <1>3. JsonStep(Json("text", tx), Quote) = Json("end", tx)
    OBVIOUS
  <1>4. ASSUME NEW c \in Nat, c \notin Controls \cup {Quote, Backslash}
        PROVE  JsonStep(Json("text", tx), c) = Json("text", Append(tx, c))
    BY <1>4
  <1>5. ASSUME NEW c \in {Quote, Backslash}
        PROVE  JsonStep(Json("escape", tx), c) = Json("text", Append(tx, c))
    OBVIOUS
  <1>6. ASSUME NEW k \in DOMAIN Named
        PROVE  JsonStep(Json("escape", tx), Named[k]) = Json("text", Append(tx, k))
    <2> DEFINE d == CHOOSE j \in DOMAIN Named : Named[j] = Named[k]
    <2>1. d = k
      BY NamedIs
    <2>2. JsonStep(Json("escape", tx), Named[k]) = Json("text", Append(tx, d))
      OBVIOUS
    <2> QED
      BY <2>1, <2>2
  <1>7. JsonStep(Json("escape", tx), LetterU) = Json("number", tx)
    OBVIOUS
  <1>8. ASSUME NEW c \in Nat
        PROVE  JsonStep(Json("number", tx), Base + c) = Json("text", Append(tx, c))
    <2>1. (Base + c) - Base = c
      BY BaseAssumption
    <2>2. JsonStep(Json("number", tx), Base + c) = Json("text", Append(tx, (Base + c) - Base))
      OBVIOUS
    <2> QED
      BY <2>1, <2>2
  <1> HIDE DEF JsonStep, Json
  <1> QED
    BY <1>1, <1>2, <1>3, <1>4, <1>5, <1>6, <1>7, <1>8

\* What ReadJsonString says is where the run ends.
LEMMA JsonRun ==
    ASSUME NEW t \in Seq(Nat)
    PROVE  \E f : /\ JsonRuns(f, t)
                  /\ ReadJsonString(t) = IF f[Len(t)].mode = "end" THEN f[Len(t)].text ELSE NotJson
  <1> DEFINE n == Len(t)
             start == [mode |-> "start", text |-> <<>>]
             next == [x \in JsonState \X (1..n) |-> JsonStep(x[1], t[x[2]])]
             after[k \in 0..Len(t)] ==
                IF k = 0 THEN [mode |-> "start", text |-> <<>>]
                ELSE JsonStep(after[k - 1], t[k])
  <1>0. n \in Nat /\ \A k \in 1..n : t[k] \in Nat
    OBVIOUS
  <1>1. start \in JsonState
    BY DEF JsonState, JsonModes
  <1>2. next \in [JsonState \X (1..n) -> JsonState]
    <2>1. \A st \in JsonState, k \in 1..n : JsonStep(st, t[k]) \in JsonState
      BY <1>0, JsonStepType
    <2> QED
      BY <2>1
  <1>3. PICK g : Solves(g, JsonState, start, n, next)
    <2> HIDE DEF next, n, start
    <2> QED
      BY <1>0, <1>1, <1>2, RecursionUpTo
  <1>4. ASSUME NEW k \in 1..n PROVE g[k] = JsonStep(g[k - 1], t[k])
    <2>1. k - 1 \in 0..n
      BY <1>0
    <2>2. g[k - 1] \in JsonState /\ g[k] = next[<<g[k - 1], k>>]
      BY <1>3, <2>1 DEF Solves
    <2> QED
      BY <2>2
  <1>5. g = [k \in 0..Len(t) |->
                IF k = 0 THEN [mode |-> "start", text |-> <<>>]
                ELSE JsonStep(g[k - 1], t[k])]
    <2>1. g \in [0..n -> JsonState] /\ g[0] = start
      BY <1>3 DEF Solves
    <2>2. \A k \in 0..n : k # 0 => k \in 1..n
      OBVIOUS
    <2> HIDE DEF JsonState
    <2> QED
      BY <1>4, <2>1, <2>2
  <1>6. after = [k \in 0..Len(t) |->
                IF k = 0 THEN [mode |-> "start", text |-> <<>>]
                ELSE JsonStep(after[k - 1], t[k])]
    BY <1>5, Zenon
  <1>7. ReadJsonString(t) = IF after[Len(t)].mode = "end" THEN after[Len(t)].text ELSE NotJson
    BY Zenon DEF ReadJsonString
  <1> HIDE DEF after
  <1>8. after[0] = start /\ \A k \in 1..n : after[k] = JsonStep(after[k - 1], t[k])
    <2>1. 0 \in 0..n /\ \A k \in 1..n : k \in 0..n /\ k # 0
      BY <1>0
    <2> QED
      BY <1>6, <2>1
  <1> DEFINE S == {k \in Nat : k <= n => after[k] \in JsonState}
  <1>9. 0 \in S
    BY <1>1, <1>8
  <1>10. ASSUME NEW k \in Nat, k \in S PROVE k + 1 \in S
    <2> SUFFICES ASSUME k + 1 <= n PROVE after[k + 1] \in JsonState
      OBVIOUS
    <2>1. k + 1 \in 1..n /\ (k + 1) - 1 = k /\ k <= n
      BY <1>0
    <2>2. after[k + 1] = JsonStep(after[k], t[k + 1])
      BY <1>8, <2>1
    <2>3. after[k] \in JsonState
      BY <1>10, <2>1
    <2> QED
      BY <1>0, <2>1, <2>2, <2>3, JsonStepType
  <1> HIDE DEF S
  <1>11. Nat \subseteq S
    BY <1>9, <1>10, NumberInduction
  <1>12. \A k \in 0..n : after[k] \in JsonState
    BY <1>0, <1>11 DEF S
  <1>13. after \in [0..n -> JsonState]
    BY <1>6, <1>12
  <1>14. JsonRuns(after, t)
    BY <1>8, <1>13 DEF JsonRuns, Json
  <1> QED
    BY <1>7, <1>14

\* The run takes the characters of w one by one from o on.
JsonTakes(f, o, w) == \A i \in 1..Len(w) : f[o + i] = JsonStep(f[(o + i) - 1], w[i])

LEMMA JsonMeets ==
    ASSUME NEW t \in Seq(Nat), NEW f, JsonRuns(f, t), NEW o \in Nat, NEW w \in Seq(Nat),
           Holds(t, o, w)
    PROVE  JsonTakes(f, o, w)
  <1> SUFFICES ASSUME NEW i \in 1..Len(w) PROVE f[o + i] = JsonStep(f[(o + i) - 1], w[i])
    BY DEF JsonTakes
  <1>1. o + Len(w) <= Len(t) /\ t[o + i] = w[i]
    BY DEF Holds
  <1>2. o + i \in 1..Len(t)
    BY <1>1
  <1> QED
    BY <1>1, <1>2 DEF JsonRuns

LEMMA JsonOne ==
    ASSUME NEW t \in Seq(Nat), NEW f, JsonRuns(f, t), NEW o \in Nat, NEW w \in Seq(Nat),
           Holds(t, o, w)
    PROVE  /\ Len(w) = 1 => f[o + 1] = JsonStep(f[o], w[1])
           /\ Len(w) = 2 => f[o + 2] = JsonStep(JsonStep(f[o], w[1]), w[2])
           /\ Len(w) = 3 => f[o + 3] = JsonStep(JsonStep(JsonStep(f[o], w[1]), w[2]), w[3])
  <1>1. JsonTakes(f, o, w)
    BY JsonMeets
  <1>2. (o + 1) - 1 = o /\ (o + 2) - 1 = o + 1 /\ (o + 3) - 1 = o + 2
    OBVIOUS
  <1>3. 1 \in 1..Len(w) => f[o + 1] = JsonStep(f[o], w[1])
    BY <1>1, <1>2 DEF JsonTakes
  <1>4. 2 \in 1..Len(w) => f[o + 2] = JsonStep(f[o + 1], w[2])
    BY <1>1, <1>2 DEF JsonTakes
  <1>5. 3 \in 1..Len(w) => f[o + 3] = JsonStep(f[o + 2], w[3])
    BY <1>1, <1>2 DEF JsonTakes
  <1>6. /\ Len(w) = 1 => 1 \in 1..Len(w)
        /\ Len(w) = 2 => 1 \in 1..Len(w) /\ 2 \in 1..Len(w)
        /\ Len(w) = 3 => 1 \in 1..Len(w) /\ 2 \in 1..Len(w) /\ 3 \in 1..Len(w)
    <2> DEFINE l == Len(w)
    <2>1. l \in Nat
      OBVIOUS
    <2> HIDE DEF l
    <2>2. /\ l = 1 => 1 \in 1..l
          /\ l = 2 => 1 \in 1..l /\ 2 \in 1..l
          /\ l = 3 => 1 \in 1..l /\ 2 \in 1..l /\ 3 \in 1..l
      BY <2>1
    <2> QED
      BY <2>2 DEF l
  <1> QED
    BY <1>3, <1>4, <1>5, <1>6

LEMMA JsonCharIs ==
    ASSUME NEW c \in Nat
    PROVE  /\ JsonChar(c) \in Seq(Nat)
           /\ c \in {Quote, Backslash} => JsonChar(c) = <<Backslash, c>>
           /\ c \in DOMAIN Named => JsonChar(c) = <<Backslash, Named[c]>>
           /\ c \in Controls \ DOMAIN Named => JsonChar(c) = <<Backslash, LetterU, Base + c>>
           /\ c \notin Controls \cup {Quote, Backslash} => JsonChar(c) = <<c>>
  <1>1. c \in {Quote, Backslash} => JsonChar(c) = <<Backslash, c>>
    BY JsonAssumption DEF JsonChar
  <1>2. c \in DOMAIN Named => JsonChar(c) = <<Backslash, Named[c]>>
    BY JsonAssumption DEF JsonChar
  <1>3. c \in Controls \ DOMAIN Named => JsonChar(c) = <<Backslash, LetterU, Base + c>>
    BY JsonAssumption DEF JsonChar
  <1>4. c \notin Controls \cup {Quote, Backslash} => JsonChar(c) = <<c>>
    BY JsonAssumption DEF JsonChar
  <1>5. /\ <<c>> \in Seq(Nat) /\ <<Backslash, c>> \in Seq(Nat)
        /\ <<Backslash, LetterU, Base + c>> \in Seq(Nat)
        /\ c \in DOMAIN Named => <<Backslash, Named[c]>> \in Seq(Nat)
    BY BaseAssumption, JsonAssumption
  <1> QED
    BY <1>1, <1>2, <1>3, <1>4, <1>5

\* Inside a string, what is written for a character is read as the character.
LEMMA JsonReadsChar ==
    ASSUME NEW t \in Seq(Nat), NEW f, JsonRuns(f, t), NEW o \in Nat, NEW c \in Nat,
           Holds(t, o, JsonChar(c)), NEW tx, f[o] = Json("text", tx)
    PROVE  f[o + Len(JsonChar(c))] = Json("text", Append(tx, c))
  <1> DEFINE w == JsonChar(c)
  <1>0. w \in Seq(Nat) /\ Holds(t, o, w)
    BY JsonCharIs
  <1>s. JsonStep(Json("text", tx), Backslash) = Json("escape", tx)
    BY JsonSteps
  <1>1. CASE c \in {Quote, Backslash}
    <2>1. Len(w) = 2 /\ w[1] = Backslash /\ w[2] = c
      <3>1. w = <<Backslash, c>>
        BY <1>1, JsonCharIs
      <3> HIDE DEF w
      <3> QED
        BY <3>1
    <2> HIDE DEF w
    <2>2. f[o + 2] = JsonStep(JsonStep(f[o], Backslash), c)
      BY <1>0, <2>1, JsonOne
    <2>3. JsonStep(Json("escape", tx), c) = Json("text", Append(tx, c))
      BY <1>1, JsonSteps
    <2>4. f[o + Len(w)] = Json("text", Append(tx, c))
      BY <1>s, <2>1, <2>2, <2>3
    <2> QED
      BY <2>4 DEF w
  <1>2. CASE c \in DOMAIN Named
    <2>1. Len(w) = 2 /\ w[1] = Backslash /\ w[2] = Named[c]
      <3>1. w = <<Backslash, Named[c]>>
        BY <1>2, JsonCharIs
      <3> HIDE DEF w
      <3> QED
        BY <3>1
    <2> HIDE DEF w
    <2>2. f[o + 2] = JsonStep(JsonStep(f[o], Backslash), Named[c])
      BY <1>0, <2>1, JsonOne
    <2>3. JsonStep(Json("escape", tx), Named[c]) = Json("text", Append(tx, c))
      BY <1>2, JsonSteps
    <2>4. f[o + Len(w)] = Json("text", Append(tx, c))
      BY <1>s, <2>1, <2>2, <2>3
    <2> QED
      BY <2>4 DEF w
  <1>3. CASE c \in Controls \ DOMAIN Named
    <2>1. Len(w) = 3 /\ w[1] = Backslash /\ w[2] = LetterU /\ w[3] = Base + c
      <3>1. w = <<Backslash, LetterU, Base + c>>
        BY <1>3, JsonCharIs
      <3> HIDE DEF w
      <3> QED
        BY <3>1
    <2> HIDE DEF w
    <2>2. f[o + 3] = JsonStep(JsonStep(JsonStep(f[o], Backslash), LetterU), Base + c)
      BY <1>0, <2>1, JsonOne
    <2>3. /\ JsonStep(Json("escape", tx), LetterU) = Json("number", tx)
          /\ JsonStep(Json("number", tx), Base + c) = Json("text", Append(tx, c))
      BY JsonSteps
    <2>4. f[o + Len(w)] = Json("text", Append(tx, c))
      BY <1>s, <2>1, <2>2, <2>3
    <2> QED
      BY <2>4 DEF w
  <1>4. CASE c \notin Controls \cup {Quote, Backslash}
    <2>1. Len(w) = 1 /\ w[1] = c
      <3>1. w = <<c>>
        BY <1>4, JsonCharIs
      <3> HIDE DEF w
      <3> QED
        BY <3>1
    <2> HIDE DEF w
    <2>2. f[o + 1] = JsonStep(f[o], c)
      BY <1>0, <2>1, JsonOne
    <2>3. JsonStep(Json("text", tx), c) = Json("text", Append(tx, c))
      BY <1>4, JsonSteps
    <2>4. f[o + Len(w)] = Json("text", Append(tx, c))
      BY <2>1, <2>2, <2>3
    <2> QED
      BY <2>4 DEF w
  <1> QED
    BY <1>1, <1>2, <1>3, <1>4

\* From a text still empty, w is read as g.
JsonPasses(t, f, o, w, g) ==
    JsonRuns(f, t) /\ Holds(t, o, w) /\ f[o] = Json("text", <<>>)
        => f[o + Len(w)] = Json("text", g)

LEMMA JsonReadsText ==
    ASSUME NEW g \in Seq(Nat), NEW w, w = FlattenSeq([i \in DOMAIN g |-> JsonChar(g[i])])
    PROVE  w \in Seq(Nat) /\ \A t \in Seq(Nat) : \A f : \A o \in Nat : JsonPasses(t, f, o, w, g)
  <1> DEFINE ss == [i \in DOMAIN g |-> JsonChar(g[i])]
             n == Len(g)
  <1>0. n \in Nat /\ DOMAIN g = 1..n /\ \A i \in 1..n : g[i] \in Nat
    OBVIOUS
  <1> HIDE DEF n
  <1>1. ss \in Seq(Seq(Nat)) /\ Len(ss) = n /\ \A i \in 1..n : ss[i] = JsonChar(g[i])
    <2>1. \A i \in 1..n : JsonChar(g[i]) \in Seq(Nat)
      BY <1>0, JsonCharIs
    <2> QED
      BY <1>0, <2>1
  <1>2. PICK u : Joins(u, ss) /\ FlattenSeq(ss) = u[Len(ss)]
    <2> HIDE DEF ss
    <2> QED
      BY <1>1, Joined
  <1>3. w = u[n] /\ u[0] = <<>> /\ w \in Seq(Nat)
    <2>1. w = u[Len(ss)]
      BY <1>2
    <2> HIDE DEF ss
    <2> QED
      BY <1>0, <1>1, <1>2, <2>1 DEF Joins
  <1> HIDE DEF ss
  <1>4. ASSUME NEW t \in Seq(Nat), NEW f, NEW o \in Nat,
               JsonRuns(f, t), Holds(t, o, w), f[o] = Json("text", <<>>)
        PROVE  f[o + Len(w)] = Json("text", g)
    <2>1. \A k \in 1..n : /\ Holds(t, o + Len(u[k - 1]), JsonChar(g[k]))
                          /\ Len(u[k]) = Len(u[k - 1]) + Len(JsonChar(g[k]))
                          /\ u[k - 1] \in Seq(Nat)
      <3>1. Holds(t, o, u[Len(ss)])
        BY <1>1, <1>3, <1>4
      <3>2. \A k \in 1..Len(ss) :
               /\ Holds(t, o + Len(u[k - 1]), ss[k])
               /\ Len(u[k]) = Len(u[k - 1]) + Len(ss[k])
               /\ u[k - 1] \in Seq(Nat) /\ u[k] \in Seq(Nat)
        BY <1>1, <1>2, <3>1, HoldsJoined
      <3> QED
        BY <1>1, <3>2
    <2> DEFINE S == {k \in Nat : k <= n => f[o + Len(u[k])] = Json("text", First(g, k))}
    <2>2. 0 \in S
      <3>1. o + Len(u[0]) = o
        BY <1>3
      <3>2. f[o + Len(u[0])] = Json("text", First(g, 0))
        BY <1>4, <3>1, FirstNext
      <3> QED
        BY <3>2
    <2>3. ASSUME NEW k \in Nat, k \in S PROVE k + 1 \in S
      <3> SUFFICES ASSUME k + 1 <= n PROVE f[o + Len(u[k + 1])] = Json("text", First(g, k + 1))
        OBVIOUS
      <3>1. k + 1 \in 1..n /\ (k + 1) - 1 = k /\ k <= n
        BY <1>0
      <3>2. /\ Holds(t, o + Len(u[k]), JsonChar(g[k + 1]))
            /\ Len(u[k + 1]) = Len(u[k]) + Len(JsonChar(g[k + 1]))
            /\ u[k] \in Seq(Nat)
        BY <2>1, <3>1
      <3> DEFINE l == Len(u[k])
                 c == g[k + 1]
                 d == Len(JsonChar(c))
                 p == o + l
                 tx == First(g, k)
      <3>3. l \in Nat /\ d \in Nat /\ c \in Nat /\ Len(u[k + 1]) = l + d
        <4>1. c \in Nat
          BY <1>0, <3>1
        <4>2. JsonChar(c) \in Seq(Nat)
          BY <4>1, JsonCharIs
        <4> QED
          BY <3>2, <4>1, <4>2
      <3>4. Holds(t, p, JsonChar(c)) /\ f[p] = Json("text", tx)
        BY <2>3, <3>1, <3>2
      <3> HIDE DEF l, d, c, tx
      <3>5. p \in Nat /\ o + Len(u[k + 1]) = p + d
        BY <3>3
      <3> HIDE DEF p
      <3>6. f[p + d] = Json("text", Append(tx, c))
        BY <1>4, <3>3, <3>4, <3>5, JsonReadsChar DEF d
      <3>7. Append(tx, c) = First(g, k + 1)
        BY FirstNext DEF tx, c, n
      <3> QED
        BY <3>5, <3>6, <3>7
    <2> HIDE DEF S
    <2>4. Nat \subseteq S
      BY <2>2, <2>3, NumberInduction
    <2>5. f[o + Len(u[n])] = Json("text", First(g, n))
      BY <1>0, <2>4 DEF S
    <2>6. First(g, n) = g
      BY FirstNext DEF n
    <2> QED
      BY <1>3, <2>5, <2>6
  <1> QED
    BY <1>3, <1>4 DEF JsonPasses

\* A string reads back as it is, whatever characters it holds.
LEMMA JsonExport ==
    ASSUME NEW s \in Seq(Nat)
    PROVE  ReadJsonString(write_json_string(s)) = s
  <1> DEFINE q == <<Quote>>
             w == FlattenSeq([i \in DOMAIN s |-> JsonChar(s[i])])
             x == Cat(q, w)
             t == Cat(x, q)
             l == Len(w)
  <1>0. Quote \in Nat
    BY CsvAssumption
  <1>1. q \in Seq(Nat) /\ Len(q) = 1 /\ q[1] = Quote
    BY <1>0, OneType
  <1>2. write_json_string(s) = t
    BY DEF write_json_string, Cat
  <1>3. w \in Seq(Nat) /\ \A y \in Seq(Nat) : \A f : \A o \in Nat : JsonPasses(y, f, o, w, s)
    BY JsonReadsText
  <1> HIDE DEF q, w, x, t
  <1>4. x \in Seq(Nat) /\ Len(x) = 1 + l /\ l \in Nat /\ t \in Seq(Nat) /\ Len(t) = (1 + l) + 1
    <2>1. x \in Seq(Nat) /\ Len(x) = Len(q) + Len(w)
      BY <1>1, <1>3, CatType DEF x
    <2>2. t \in Seq(Nat) /\ Len(t) = Len(x) + Len(q)
      BY <1>1, <2>1, CatType DEF t
    <2>3. l \in Nat
      BY <1>3
    <2> QED
      BY <1>1, <2>1, <2>2, <2>3
  <1>5. Holds(t, 0, q) /\ Holds(t, 1, w) /\ Holds(t, 1 + l, q)
    <2>0. Len(t) \in Nat
      BY <1>4
    <2>1. Holds(t, 0, t)
      BY <2>0 DEF Holds
    <2>2. Holds(t, 0, Cat(x, q))
      BY <2>1 DEF t
    <2>3. Holds(t, 0, x) /\ Holds(t, 0 + Len(x), q)
      BY <1>1, <1>4, <2>2, HoldsCat
    <2>4. Holds(t, 0, Cat(q, w))
      BY <2>3 DEF x
    <2>5. Holds(t, 0, q) /\ Holds(t, 0 + Len(q), w)
      BY <1>1, <1>3, <1>4, <2>4, HoldsCat
    <2>6. 0 + Len(x) = 1 + l /\ 0 + Len(q) = 1
      <3> HIDE DEF l
      <3> QED
        BY <1>1, <1>4
    <2> QED
      BY <2>3, <2>5, <2>6
  <1>6. PICK f : /\ JsonRuns(f, t)
                 /\ ReadJsonString(t) = IF f[Len(t)].mode = "end" THEN f[Len(t)].text ELSE NotJson
    BY <1>4, JsonRun
  <1>7. f[1] = Json("text", <<>>)
    <2> DEFINE tx == <<>>
    <2>1. f[0] = Json("start", tx)
      BY <1>6 DEF JsonRuns
    <2> HIDE DEF tx
    <2>2. f[0 + 1] = JsonStep(f[0], Quote)
      BY <1>1, <1>4, <1>5, <1>6, JsonOne
    <2>3. JsonStep(Json("start", tx), Quote) = Json("text", tx)
      BY JsonSteps
    <2>4. f[1] = Json("text", tx)
      BY <2>1, <2>2, <2>3
    <2> QED
      BY <2>4 DEF tx
  <1>8. f[1 + l] = Json("text", s)
    <2>1. JsonRuns(f, t) /\ Holds(t, 1, w) /\ f[1] = Json("text", <<>>) /\ 1 \in Nat
      BY <1>5, <1>6, <1>7
    <2>2. JsonPasses(t, f, 1, w, s)
      BY <1>3, <1>4
    <2> QED
      BY <2>1, <2>2 DEF JsonPasses
  <1> HIDE DEF l
  <1>9. f[(1 + l) + 1] = JsonStep(f[1 + l], Quote)
    <2> DEFINE o == 1 + l
    <2>1. o \in Nat /\ Holds(t, o, q)
      BY <1>4, <1>5
    <2> HIDE DEF o
    <2>2. f[o + 1] = JsonStep(f[o], Quote)
      BY <1>1, <1>4, <1>6, <2>1, JsonOne
    <2> QED
      BY <2>2 DEF o
  <1>10. JsonStep(Json("text", s), Quote) = Json("end", s)
    BY JsonSteps
  <1>11. f[Len(t)] = Json("end", s)
    BY <1>4, <1>8, <1>9, <1>10
  <1>12. f[Len(t)].mode = "end" /\ f[Len(t)].text = s
    BY <1>11 DEF Json
  <1> QED
    BY <1>2, <1>6, <1>12

(***************************************************************************)
(* The exports keep rows and fields apart whatever characters the entries  *)
(* hold: src/export_command.cpp quotes and escapes enough.                 *)
(***************************************************************************)
THEOREM ExportsRead ==
    ASSUME NEW es \in Seq(VaultEntry)
    PROVE  ExportsReadBack(es)
  <1>1. ReadCsv(write_csv(es)) = [i \in DOMAIN es |-> [k \in 1..4 |-> Guarded(Fields4(es[i])[k])]]
    <2>1. ReadCsv(write_csv(es)) = [i \in DOMAIN es |-> CsvFields(es[i])]
      BY CsvExport
    <2> QED
      BY <2>1, Zenon DEF CsvFields
  <1>2. ASSUME NEW i \in DOMAIN es, NEW k \in 1..4
        PROVE  ReadJsonString(write_json_string(Fields4(es[i])[k])) = Fields4(es[i])[k]
    <2>1. es[i] \in VaultEntry
      OBVIOUS
    <2> DEFINE e == es[i]
    <2>2. e.service \in Seq(Nat) /\ e.username \in Seq(Nat) /\ e.password \in Seq(Nat) /\ e.totp \in Seq(Nat)
      BY <2>1 DEF VaultEntry
    <2> HIDE DEF e
    <2>3. Fields4(e)[k] \in Seq(Nat)
      BY <2>2 DEF Fields4
    <2>4. ReadJsonString(write_json_string(Fields4(e)[k])) = Fields4(e)[k]
      BY <2>3, JsonExport
    <2> QED
      BY <2>4 DEF e
  <1> QED
    BY <1>1, <1>2 DEF ExportsReadBack

-----------------------------------------------------------------------------
(* The entries of a session, as the vault lists them. *)

\* A vault never has more entries than can be listed.
EntriesFinite == IsFiniteSet(DOMAIN entries)

LEMMA FiniteStep == LineInv /\ SessionInv /\ EntriesFinite /\ [Next]_vars => EntriesFinite'
  <1> SUFFICES ASSUME LineInv, SessionInv, EntriesFinite, [Next]_vars PROVE EntriesFinite'
    OBVIOUS
  <1>1. CASE entries' = entries
    BY <1>1 DEF EntriesFinite
  <1>2. CASE entries' # entries
    <2>1. [ChangesOneEntry]_vars
      BY StepChangesOne
    <2>2. ChangesOneEntry
      BY <1>2, <2>1 DEF vars, session
    <2>3. PICK name : \A s \in (DOMAIN entries \cup DOMAIN entries') \ {name} : s \in DOMAIN entries
      BY <1>2, <2>2 DEF ChangesOneEntry
    <2>4. DOMAIN entries' \in SUBSET (DOMAIN entries \cup {name})
      BY <2>3
    <2>5. IsFiniteSet(DOMAIN entries \cup {name})
      BY FS_AddElement DEF EntriesFinite
    <2> QED
      BY <2>4, <2>5, FS_Subset DEF EntriesFinite
  <1> QED
    BY <1>1, <1>2

LEMMA StampType ==
    ASSUME NEW i \in Nat \ {0}, i < Weight[4]
    PROVE  Stamp(i) \in Nat /\ Stamp(i) < Weight[8]
  <1>1. /\ Weight[4] = Base * Weight[3] /\ Weight[3] = Base * Weight[2]
        /\ Weight[2] = Base * Weight[1] /\ Weight[1] = Base * Weight[0] /\ Weight[0] = 1
        /\ Weight[8] = Base * Weight[7] /\ Weight[7] = Base * Weight[6]
        /\ Weight[6] = Base * Weight[5] /\ Weight[5] = Base * Weight[4]
    BY WeightFacts
  <1>2. \A k \in 0..8 : Weight[k] \in Nat \ {0}
    BY WeightFacts
  <1> DEFINE w4 == Weight[4]
             w5 == Weight[5]
             w6 == Weight[6]
             w7 == Weight[7]
             w8 == Weight[8]
  <1>3. /\ w4 \in Nat \ {0} /\ w5 \in Nat /\ w6 \in Nat /\ w7 \in Nat /\ w8 \in Nat
        /\ w5 = Base * w4 /\ w6 = Base * w5 /\ w7 = Base * w6 /\ w8 = Base * w7 /\ i < w4
    BY <1>1, <1>2
  <1>4. Stamp(i) = IF i = 1 THEN 0 ELSE 7 * w4 + i
    BY DEF Stamp
  <1> HIDE DEF w4, w5, w6, w7, w8
  <1>5. \A x, y \in Nat : y = Base * x => y >= 2 * x
    BY BaseAssumption
  <1>6. w8 >= 16 * w4
    <2>1. w5 >= 2 * w4 /\ w6 >= 2 * w5 /\ w7 >= 2 * w6 /\ w8 >= 2 * w7
      BY <1>3, <1>5
    <2> QED
      BY <1>3, <2>1
  <1>7. Stamp(i) \in Nat /\ Stamp(i) < w8
    BY <1>3, <1>4, <1>6
  <1> QED
    BY <1>7 DEF w8

\* The 32-bit lengths of the vault file hold every text and the number of entries.
LengthsFit ==
    /\ Cardinality(DOMAIN entries) < Weight[4]
    /\ \A s \in DOMAIN entries :
        \A x \in {s, entries[s].username, entries[s].password, entries[s].totp} : Len(x) < Weight[4]

\* The list has every entry once.
LEMMA EntryListType ==
    ASSUME EntriesType, EntriesFinite
    PROVE  /\ EntryList \in Seq(VaultEntry)
           /\ LengthsFit => Savable(EntryList)
  <1> DEFINE D == DOMAIN entries
             n == Cardinality(D)
             Lists(m) == \A i, j \in DOMAIN m : i # j => m[i] # m[j]
             names == CHOOSE m \in [1..n -> D] : Lists(m)
             L == [i \in DOMAIN names |->
                    [service |-> names[i], username |-> entries[names[i]].username,
                     password |-> entries[names[i]].password, totp |-> entries[names[i]].totp,
                     updated |-> Stamp(i)]]
  <1>1. n \in Nat /\ ExistsBijection(1..n, D)
    BY FS_CardinalityType DEF EntriesFinite
  <1>2. PICK m \in [1..n -> D] : Lists(m)
    BY <1>1 DEF ExistsBijection, Bijection, Injection, IsInjective
  <1>3. names \in [1..n -> D] /\ Lists(names)
    BY <1>2
  <1>4. EntryList = L
    BY DEF EntryList
  <1> HIDE DEF names, n
  <1>5. \A i \in 1..n : names[i] \in Seq(Nat) /\ entries[names[i]] \in Fields /\ names[i] \in D
    BY <1>3 DEF EntriesType
  <1>6. \A i \in 1..n : Stamp(i) \in Nat
    <2>1. Weight[4] \in Nat
      BY WeightFacts
    <2> QED
      BY <1>1, <2>1 DEF Stamp
  <1>7. \A i \in 1..n : /\ L[i] \in VaultEntry /\ L[i].service = names[i]
                        /\ L[i].username = entries[names[i]].username
                        /\ L[i].password = entries[names[i]].password
                        /\ L[i].totp = entries[names[i]].totp /\ L[i].updated = Stamp(i)
    BY <1>3, <1>5, <1>6 DEF VaultEntry, Fields
  <1>8. L \in Seq(VaultEntry) /\ Len(L) = n
    <2>1. DOMAIN L = 1..n
      BY <1>3
    <2>2. L \in [1..n -> VaultEntry]
      <3> SUFFICES ASSUME NEW i \in 1..n PROVE L[i] \in VaultEntry
        BY <1>3
      <3> QED
        BY <1>7
    <2> HIDE DEF L
    <2> QED
      BY <1>1, <2>1, <2>2
  <1> HIDE DEF L
  <1>9. ASSUME LengthsFit PROVE Savable(L)
    <2>1. n < Weight[4]
      BY <1>9 DEF LengthsFit, n
    <2>2. ASSUME NEW i \in 1..n PROVE Storable(L[i])
      <3>1. Stamp(i) < Weight[8]
        <4>1. Weight[4] \in Nat
          BY WeightFacts
        <4>2. i \in Nat \ {0} /\ i < Weight[4]
          BY <1>1, <2>1, <4>1
        <4> QED
          BY <4>2, StampType
      <3>2. \A x \in {names[i], entries[names[i]].username, entries[names[i]].password,
                      entries[names[i]].totp} : Len(x) < Weight[4]
        BY <1>5, <1>9 DEF LengthsFit
      <3> QED
        BY <1>7, <3>1, <3>2 DEF Storable
    <2>3. \A i, j \in 1..n : L[i].service = L[j].service => i = j
      BY <1>3, <1>7
    <2> QED
      BY <1>8, <2>1, <2>2, <2>3 DEF Savable
  <1> QED
    BY <1>4, <1>8, <1>9

LEMMA SessionFacts == Spec => [](SessionInv /\ EntriesFinite)
  <1>1. Init => EntriesFinite
    BY StoredAssumption DEF Init, EntriesFinite
  <1> QED
    BY <1>1, FiniteStep, LineInit, LineStep, PTL DEF Spec

(***************************************************************************)
(* Whatever was typed at the prompts of the shell, the exports of the      *)
(* session's entries keep their rows and fields apart.                     *)
(***************************************************************************)
THEOREM SessionExports == Spec => []ExportReadsBack
  <1>1. SessionInv /\ EntriesFinite => ExportReadsBack
    BY EntryListType, ExportsRead DEF SessionInv, ExportReadsBack
  <1> QED
    BY <1>1, SessionFacts, PTL

(***************************************************************************)
(* Whatever was typed at the prompts of the shell, the vault that is saved *)
(* loads as it was, as long as the texts and their number fit in the 32    *)
(* bits that write_uint32 has for them (src/vault.cpp does not check it).  *)
(***************************************************************************)
THEOREM SessionLoads == Spec => [](LengthsFit => VaultReadsBack)
  <1>1. SessionInv /\ EntriesFinite => (LengthsFit => VaultReadsBack)
    <2>1. Now \in Nat
      BY DEF Now
    <2> QED
      BY <2>1, EntryListType, LoadingReadsSaved DEF SessionInv, VaultReadsBack
  <1> QED
    BY <1>1, SessionFacts, PTL

===============================================================================
