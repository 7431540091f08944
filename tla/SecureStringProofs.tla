--------------------------- MODULE SecureStringProofs ---------------------------
(***************************************************************************)
(* Proofs about SecureString: every operation leaves a string that ends    *)
(* with its NUL and holds nothing behind it, and has the text it should.   *)
(***************************************************************************)
EXTENDS SecureString, SequenceTheorems, WellFoundedInduction, TLAPS

-----------------------------------------------------------------------------
(* Numbers and sequences. *)

\* A set of numbers has a least one.
LEMMA LeastNumber ==
    ASSUME NEW T, T \subseteq Nat, T # {}
    PROVE  \E x \in T : \A y \in T : x <= y
  <1> DEFINE R == {ss \in Nat \X Nat : ss[1] < ss[2]}
  <1>1. IsWellFoundedOn(R, Nat)
    BY NatLessThanWellFounded DEF OpToRel
  <1>2. PICK x \in T : \A y \in T : ~(<<y, x>> \in R)
    <2> HIDE DEF R
    <2> QED
      BY <1>1, WFMin
  <1>3. ASSUME NEW y \in T PROVE x <= y
    <2>1. x \in Nat /\ y \in Nat
      OBVIOUS
    <2>2. y < x => <<y, x>> \in R
      BY <2>1
    <2> HIDE DEF R
    <2>3. ~(y < x)
      BY <1>2, <2>2
    <2> QED
      BY <2>1, <2>3
  <1> QED
    BY <1>2, <1>3

LEMMA AtFront ==
    ASSUME NEW s \in Seq(Nat), NEW k \in Nat, k <= Len(s)
    PROVE  /\ SubSeq(s, 1, k) \in Seq(Nat)
           /\ Len(SubSeq(s, 1, k)) = k
           /\ \A j \in 1..k : SubSeq(s, 1, k)[j] = s[j]
  <1>1. \A j \in 1..k : s[j] \in Nat
    OBVIOUS
  <1> QED
    BY <1>1, SubSeqProperties

LEMMA AtEnd ==
    ASSUME NEW s \in Seq(Nat), NEW p \in Nat \ {0}, NEW n \in Nat, n <= Len(s)
    PROVE  /\ SubSeq(s, p, n) \in Seq(Nat)
           /\ Len(SubSeq(s, p, n)) = IF p <= n THEN n - p + 1 ELSE 0
           /\ \A j \in 1..(n - p + 1) : SubSeq(s, p, n)[j] = s[p + j - 1]
  <1>1. \A j \in p..n : s[j] \in Nat
    OBVIOUS
  <1> QED
    BY <1>1, SubSeqProperties

\* Memory with t in it behind the first q cells.
IsWritten(w, mem, q, t) ==
    /\ w \in Seq(Nat) /\ Len(w) \in Nat
    /\ q + Len(t) <= Len(mem) => Len(w) = Len(mem)
    /\ q + Len(t) >= Len(mem) => Len(w) = q + Len(t)
    /\ \A k \in 1..q : w[k] = mem[k]
    /\ \A k \in 1..Len(t) : w[q + k] = t[k]
    /\ \A k \in (q + Len(t) + 1)..Len(mem) : w[k] = mem[k]

LEMMA WriteFacts ==
    ASSUME NEW mem \in Seq(Nat), NEW q \in Nat, q <= Len(mem), NEW t \in Seq(Nat)
    PROVE  IsWritten(Write(mem, q + 1, t), mem, q, t)
  <1> SUFFICES ASSUME NEW w, w = Write(mem, q + 1, t) PROVE IsWritten(w, mem, q, t)
    OBVIOUS
  <1> DEFINE front == SubSeq(mem, 1, q)
             r == q + 1 + Len(t)
             rest == SubSeq(mem, r, Len(mem))
             both == front \o t
  <1>0. Len(t) \in Nat /\ Len(mem) \in Nat /\ r \in Nat \ {0}
    OBVIOUS
  <1>1. /\ front \in Seq(Nat) /\ Len(front) = q
        /\ \A j \in 1..q : front[j] = mem[j]
    BY AtFront
  <1>2. /\ rest \in Seq(Nat)
        /\ Len(rest) = IF r <= Len(mem) THEN Len(mem) - r + 1 ELSE 0
        /\ \A j \in 1..(Len(mem) - r + 1) : rest[j] = mem[r + j - 1]
    BY <1>0, AtEnd
  <1>3. w = both \o rest
    <2>1. (q + 1) - 1 = q
      OBVIOUS
    <2> QED
      BY <2>1 DEF Write
  <1> HIDE DEF front, rest
  <1>4. /\ both \in Seq(Nat) /\ Len(both) = Len(front) + Len(t)
        /\ \A k \in 1..(Len(front) + Len(t)) :
              both[k] = IF k <= Len(front) THEN front[k] ELSE t[k - Len(front)]
    BY <1>1, ConcatProperties
  <1> HIDE DEF both
  <1>5. Len(both) = q + Len(t)
    BY <1>1, <1>4
  <1>6. /\ w \in Seq(Nat) /\ Len(w) = Len(both) + Len(rest)
        /\ \A k \in 1..(Len(both) + Len(rest)) :
              w[k] = IF k <= Len(both) THEN both[k] ELSE rest[k - Len(both)]
    <2>1. both \in Seq(Nat) /\ rest \in Seq(Nat)
      BY <1>2, <1>4
    <2>2. /\ both \o rest \in Seq(Nat) /\ Len(both \o rest) = Len(both) + Len(rest)
          /\ \A k \in 1..(Len(both) + Len(rest)) :
                (both \o rest)[k] = IF k <= Len(both) THEN both[k] ELSE rest[k - Len(both)]
      BY <2>1, ConcatProperties
    <2> QED
      BY <1>3, <2>2
  <1>7. Len(rest) \in Nat /\ Len(w) \in Nat
    <2>1. rest \in Seq(Nat) /\ w \in Seq(Nat)
      BY <1>2, <1>6
    <2> QED
      BY <2>1
  <1>8. /\ q + Len(t) <= Len(mem) => Len(rest) = Len(mem) - (q + Len(t))
        /\ q + Len(t) >= Len(mem) => Len(rest) = 0
    BY <1>0, <1>2
  <1>9. Len(w) = (q + Len(t)) + Len(rest)
    BY <1>5, <1>6
  <1>10. /\ q + Len(t) <= Len(mem) => Len(w) = Len(mem)
         /\ q + Len(t) >= Len(mem) => Len(w) = q + Len(t)
    BY <1>0, <1>7, <1>8, <1>9
  <1>11. ASSUME NEW k \in 1..q PROVE w[k] = mem[k]
    <2>1. k \in 1..(Len(both) + Len(rest)) /\ k <= Len(both)
      BY <1>0, <1>5, <1>7
    <2>2. k \in 1..(Len(front) + Len(t)) /\ k <= Len(front)
      BY <1>0, <1>1
    <2>3. w[k] = both[k]
      BY <1>6, <2>1
    <2>4. both[k] = front[k]
      BY <1>4, <2>2
    <2> QED
      BY <1>1, <2>3, <2>4
  <1>12. ASSUME NEW k \in 1..Len(t) PROVE w[q + k] = t[k]
    <2>1. q + k \in 1..(Len(both) + Len(rest)) /\ q + k <= Len(both)
      BY <1>0, <1>5, <1>7
    <2>2. q + k \in 1..(Len(front) + Len(t)) /\ ~(q + k <= Len(front))
      BY <1>0, <1>1
    <2>3. w[q + k] = both[q + k]
      BY <1>6, <2>1
    <2>4. both[q + k] = t[(q + k) - Len(front)]
      BY <1>4, <2>2
    <2>5. (q + k) - Len(front) = k
      BY <1>0, <1>1
    <2> QED
      BY <2>3, <2>4, <2>5
  <1>13. ASSUME NEW k \in (q + Len(t) + 1)..Len(mem) PROVE w[k] = mem[k]
    <2>0. k \in Nat /\ k >= q + Len(t) + 1 /\ k <= Len(mem)
      BY <1>0
    <2>1. k \in 1..(Len(both) + Len(rest)) /\ ~(k <= Len(both))
      BY <1>0, <1>5, <1>7, <1>8, <2>0
    <2>2. w[k] = rest[k - Len(both)]
      BY <1>6, <2>1
    <2>3. k - Len(both) \in 1..(Len(mem) - r + 1) /\ r + (k - Len(both)) - 1 = k
      BY <1>0, <1>5, <2>0
    <2>4. rest[k - Len(both)] = mem[r + (k - Len(both)) - 1]
      BY <1>2, <2>3
    <2> QED
      BY <2>2, <2>3, <2>4
  <1> QED
    BY <1>6, <1>7, <1>10, <1>11, <1>12, <1>13 DEF IsWritten

LEMMA TextFacts ==
    ASSUME NEW s \in Str, Clean(s)
    PROVE  /\ s.mem \in Seq(Nat) /\ s.size \in Nat /\ s.size < Len(s.mem)
           /\ Text(s) \in Seq(Nat) /\ Len(Text(s)) = s.size
           /\ \A j \in 1..s.size : Text(s)[j] = s.mem[j]
  <1>1. s.mem \in Seq(Nat) /\ s.size \in Nat /\ s.size < Len(s.mem)
    BY DEF Str, Clean
  <1> QED
    BY <1>1, AtFront DEF Text

\* A string is known by its memory and its size.
LEMMA StrIs ==
    ASSUME NEW m \in Seq(Nat), NEW n \in Nat, n < Len(m),
           \A j \in (n + 1)..Len(m) : m[j] = Nul
    PROVE  /\ [mem |-> m, size |-> n] \in Str
           /\ Clean([mem |-> m, size |-> n])
           /\ Text([mem |-> m, size |-> n]) = SubSeq(m, 1, n)
  BY DEF Str, Clean, Text

-----------------------------------------------------------------------------
(* The operations. *)

LEMMA AppendNul ==
    ASSUME NEW t \in Seq(Nat)
    PROVE  /\ Append(t, Nul) \in Seq(Nat) /\ Len(Append(t, Nul)) = Len(t) + 1
           /\ Append(t, Nul)[Len(t) + 1] = Nul /\ Len(t) \in Nat
           /\ \A j \in 1..Len(t) : Append(t, Nul)[j] = t[j]
  <1>1. Nul \in Nat
    BY DEF Nul
  <1> QED
    BY <1>1, AppendProperties

LEMMA FreshFacts ==
    ASSUME NEW t \in Seq(Nat)
    PROVE  Fresh(t) \in Str /\ Clean(Fresh(t)) /\ Text(Fresh(t)) = t
  <1> DEFINE u == Append(t, Nul)
  <1>1. /\ u \in Seq(Nat) /\ Len(u) = Len(t) + 1
        /\ u[Len(t) + 1] = Nul /\ Len(t) \in Nat
        /\ \A j \in 1..Len(t) : u[j] = t[j]
    BY AppendNul
  <1>0. Fresh(t) = [mem |-> u, size |-> Len(t)]
    BY DEF Fresh
  <1> HIDE DEF u
  <1>2. \A j \in (Len(t) + 1)..Len(u) : u[j] = Nul
    BY <1>1
  <1>3. /\ Fresh(t) \in Str /\ Clean(Fresh(t))
        /\ Text(Fresh(t)) = SubSeq(u, 1, Len(t))
    <2>1. Len(t) < Len(u)
      BY <1>1
    <2> QED
      BY <1>0, <1>1, <1>2, <2>1, StrIs
  <1>4. /\ SubSeq(u, 1, Len(t)) \in Seq(Nat)
        /\ Len(SubSeq(u, 1, Len(t))) = Len(t)
        /\ \A j \in 1..Len(t) : SubSeq(u, 1, Len(t))[j] = u[j]
    <2>1. Len(t) <= Len(u)
      BY <1>1
    <2> QED
      BY <1>1, <2>1, AtFront
  <1>5. SubSeq(u, 1, Len(t)) = t
    BY <1>1, <1>4, SeqEqual
  <1> QED
    BY <1>3, <1>5

\* Text written over the NUL, with a new one behind it.
IsAppended(m, mem, z, t) ==
    /\ m \in Seq(Nat) /\ z + Len(t) < Len(m)
    /\ \A j \in (z + Len(t) + 1)..Len(m) : m[j] = Nul
    /\ \A j \in 1..z : m[j] = mem[j]
    /\ \A j \in 1..Len(t) : m[z + j] = t[j]

LEMMA WriteAtNul ==
    ASSUME NEW mem \in Seq(Nat), NEW z \in Nat, z < Len(mem),
           \A j \in (z + 1)..Len(mem) : mem[j] = Nul,
           NEW t \in Seq(Nat)
    PROVE  IsAppended(Write(mem, z + 1, Append(t, Nul)), mem, z, t)
  <1> SUFFICES ASSUME NEW m, m = Write(mem, z + 1, Append(t, Nul))
               PROVE  IsAppended(m, mem, z, t)
    OBVIOUS
  <1> DEFINE u == Append(t, Nul)
  <1>0. Len(mem) \in Nat
    OBVIOUS
  <1>1. /\ u \in Seq(Nat) /\ Len(u) = Len(t) + 1 /\ Len(t) \in Nat
        /\ u[Len(t) + 1] = Nul
        /\ \A j \in 1..Len(t) : u[j] = t[j]
    BY AppendNul
  <1> HIDE DEF u
  <1>2. m = Write(mem, z + 1, u)
    BY DEF u
  <1>3. /\ m \in Seq(Nat) /\ Len(m) \in Nat
        /\ z + Len(u) <= Len(mem) => Len(m) = Len(mem)
        /\ z + Len(u) >= Len(mem) => Len(m) = z + Len(u)
        /\ \A k \in 1..z : m[k] = mem[k]
        /\ \A k \in 1..Len(u) : m[z + k] = u[k]
        /\ \A k \in (z + Len(u) + 1)..Len(mem) : m[k] = mem[k]
    <2>1. z <= Len(mem)
      BY <1>0
    <2>2. u \in Seq(Nat)
      BY <1>1
    <2>3. IsWritten(Write(mem, z + 1, u), mem, z, u)
      BY <2>1, <2>2, WriteFacts
    <2> QED
      BY <1>2, <2>3 DEF IsWritten
  <1>4. Len(m) \in Nat /\ Len(m) >= z + Len(t) + 1
        /\ (Len(m) > z + Len(t) + 1 => Len(m) = Len(mem))
    <2>1. /\ Len(m) \in Nat
          /\ z + Len(u) <= Len(mem) => Len(m) = Len(mem)
          /\ z + Len(u) >= Len(mem) => Len(m) = z + Len(u)
      BY <1>3
    <2> QED
      BY <1>0, <1>1, <2>1
  <1>5. \A j \in 1..z : m[j] = mem[j]
    BY <1>3
  <1>6. ASSUME NEW j \in 1..(Len(t) + 1) PROVE m[z + j] = u[j]
    <2>1. j \in 1..Len(u)
      BY <1>1
    <2> QED
      BY <1>3, <2>1
  <1>7. \A j \in 1..Len(t) : m[z + j] = t[j]
    <2> TAKE j \in 1..Len(t)
    <2>1. j \in 1..(Len(t) + 1)
      BY <1>1
    <2>2. m[z + j] = u[j]
      BY <1>6, <2>1
    <2> QED
      BY <1>1, <2>2
  <1>8. ASSUME NEW j \in (z + Len(t) + 1)..Len(m) PROVE m[j] = Nul
    <2>1. j \in Nat /\ j >= z + Len(t) + 1 /\ j <= Len(m)
      BY <1>1, <1>4
    <2>2. CASE j = z + Len(t) + 1
      <3>1. m[z + (Len(t) + 1)] = Nul
        BY <1>1, <1>6
      <3>2. j = z + (Len(t) + 1)
        BY <1>1, <2>2
      <3> QED
        BY <3>1, <3>2
    <2>3. CASE j # z + Len(t) + 1
      <3>1. j \in (z + Len(u) + 1)..Len(mem)
        <4>1. Len(t) \in Nat /\ Len(u) = Len(t) + 1 /\ Len(mem) \in Nat
          BY <1>0, <1>1
        <4>2. j > z + Len(t) + 1
          BY <2>1, <2>3, <4>1
        <4>3. Len(m) = Len(mem)
          BY <1>4, <2>1, <4>1, <4>2
        <4>4. j <= Len(mem) /\ j >= z + Len(u) + 1
          BY <2>1, <4>1, <4>2, <4>3
        <4> QED
          BY <2>1, <4>1, <4>4
      <3>2. m[j] = mem[j]
        <4>1. \A k \in (z + Len(u) + 1)..Len(mem) : m[k] = mem[k]
          BY <1>3
        <4> QED
          BY <3>1, <4>1
      <3>3. j \in (z + 1)..Len(mem)
        <4>1. j \in Nat /\ j >= z + Len(t) + 1 /\ j <= Len(mem) /\ Len(t) \in Nat
          BY <1>0, <1>1, <3>1
        <4> QED
          BY <1>0, <4>1
      <3> QED
        BY <3>2, <3>3
    <2> QED
      BY <2>2, <2>3
  <1>9. z + Len(t) < Len(m)
    BY <1>1, <1>4
  <1> QED
    BY <1>3, <1>5, <1>7, <1>8, <1>9 DEF IsAppended

LEMMA AppendFacts ==
    ASSUME NEW s \in Str, Clean(s), NEW t \in Seq(Nat)
    PROVE  /\ append(s, t) \in Str /\ Clean(append(s, t))
           /\ Text(append(s, t)) = Text(s) \o t
  <1> SUFFICES ASSUME NEW mem, mem = s.mem, NEW z, z = s.size,
                      NEW m, m = Write(mem, z + 1, Append(t, Nul))
               PROVE  /\ append(s, t) \in Str /\ Clean(append(s, t))
                      /\ Text(append(s, t)) = Text(s) \o t
    OBVIOUS
  <1>1. /\ mem \in Seq(Nat) /\ z \in Nat /\ z < Len(mem)
        /\ \A j \in (z + 1)..Len(mem) : mem[j] = Nul
    BY TextFacts DEF Clean
  <1>2. /\ m \in Seq(Nat) /\ z + Len(t) < Len(m)
        /\ \A j \in (z + Len(t) + 1)..Len(m) : m[j] = Nul
        /\ \A j \in 1..z : m[j] = mem[j]
        /\ \A j \in 1..Len(t) : m[z + j] = t[j]
    <2>1. IsAppended(m, mem, z, t)
      BY <1>1, WriteAtNul
    <2> QED
      BY <2>1 DEF IsAppended
  <1>3. Len(t) \in Nat /\ Len(m) \in Nat /\ Len(mem) \in Nat
    BY <1>1, <1>2
  <1>4. append(s, t) = [mem |-> m, size |-> z + Len(t)]
    BY DEF append
  <1>5. z + Len(t) \in Nat
    BY <1>1, <1>3
  <1>6. /\ append(s, t) \in Str /\ Clean(append(s, t))
        /\ Text(append(s, t)) = SubSeq(m, 1, z + Len(t))
    <2>1. m \in Seq(Nat) /\ z + Len(t) < Len(m) /\ \A j \in ((z + Len(t)) + 1)..Len(m) : m[j] = Nul
      BY <1>2
    <2> QED
      BY <1>4, <1>5, <2>1, StrIs
  <1>7. /\ Text(s) \in Seq(Nat) /\ Len(Text(s)) = z
        /\ \A j \in 1..z : Text(s)[j] = mem[j]
    BY TextFacts
  <1>8. SubSeq(m, 1, z + Len(t)) = Text(s) \o t
    <2> DEFINE x == Text(s)
               y == SubSeq(m, 1, z + Len(t))
    <2>1. /\ y \in Seq(Nat) /\ Len(y) = z + Len(t)
          /\ \A j \in 1..(z + Len(t)) : y[j] = m[j]
      <3>1. m \in Seq(Nat) /\ z + Len(t) <= Len(m)
        BY <1>2, <1>3, <1>5
      <3> QED
        BY <1>5, <3>1, AtFront
    <2>2. x \in Seq(Nat) /\ Len(x) = z /\ \A j \in 1..z : x[j] = mem[j]
      BY <1>7
    <2> HIDE DEF x, y
    <2>3. /\ x \o t \in Seq(Nat) /\ Len(x \o t) = Len(x) + Len(t)
          /\ \A j \in 1..(Len(x) + Len(t)) :
                (x \o t)[j] = IF j <= Len(x) THEN x[j] ELSE t[j - Len(x)]
      <3>1. x \in Seq(Nat)
        BY <2>2
      <3> QED
        BY <3>1, ConcatProperties
    <2>4. ASSUME NEW j \in 1..(z + Len(t)) PROVE y[j] = (x \o t)[j]
      <3>0. j \in Nat /\ j >= 1 /\ j <= z + Len(t)
        BY <1>1, <1>3
      <3>1. y[j] = m[j] /\ (x \o t)[j] = IF j <= z THEN x[j] ELSE t[j - z]
        BY <2>1, <2>2, <2>3
      <3>2. CASE j <= z
        <4>1. j \in 1..z
          BY <1>1, <3>0, <3>2
        <4> QED
          BY <1>2, <2>2, <3>1, <3>2, <4>1
      <3>3. CASE ~(j <= z)
        <4>1. j - z \in 1..Len(t) /\ z + (j - z) = j
          BY <1>1, <1>3, <3>0, <3>3
        <4>2. m[z + (j - z)] = t[j - z]
          BY <1>2, <4>1
        <4> QED
          BY <3>1, <3>3, <4>1, <4>2
      <3> QED
        BY <3>2, <3>3
    <2>5. Len(y) = Len(x \o t) /\ \A j \in 1..Len(y) : y[j] = (x \o t)[j]
      BY <2>1, <2>2, <2>3, <2>4
    <2>6. y \in Seq(Nat) /\ x \o t \in Seq(Nat)
      BY <2>1, <2>3
    <2>7. y = x \o t
      BY <2>5, <2>6, SeqEqual
    <2> QED
      BY <2>7 DEF x, y
  <1> QED
    BY <1>6, <1>8

LEMMA PopFacts ==
    ASSUME NEW s \in Str, Clean(s), s.size > 0
    PROVE  /\ pop_back(s) \in Str /\ Clean(pop_back(s))
           /\ Text(pop_back(s)) = SubSeq(Text(s), 1, Len(Text(s)) - 1)
  <1> SUFFICES ASSUME NEW mem, mem = s.mem, NEW z, z = s.size - 1,
                      NEW m, m = Write(mem, z + 1, <<Nul>>)
               PROVE  /\ pop_back(s) \in Str /\ Clean(pop_back(s))
                      /\ Text(pop_back(s)) = SubSeq(Text(s), 1, Len(Text(s)) - 1)
    OBVIOUS
  <1>0. s.size \in Nat
    BY TextFacts
  <1>1. /\ mem \in Seq(Nat) /\ z \in Nat /\ z + 1 < Len(mem) /\ z + 1 = s.size
        /\ \A j \in (z + 2)..Len(mem) : mem[j] = Nul
    <2>1. mem \in Seq(Nat) /\ s.size < Len(mem) /\ \A j \in (s.size + 1)..Len(mem) : mem[j] = Nul
      BY TextFacts DEF Clean
    <2>2. z \in Nat /\ z + 1 = s.size /\ z + 2 = s.size + 1
      BY <1>0
    <2> QED
      BY <2>1, <2>2
  <1>2. <<Nul>> \in Seq(Nat) /\ Len(<<Nul>>) = 1 /\ <<Nul>>[1] = Nul /\ Len(mem) \in Nat
    BY <1>1 DEF Nul
  <1>3. IsWritten(m, mem, z, <<Nul>>)
    <2>1. z <= Len(mem) /\ mem \in Seq(Nat) /\ z \in Nat
      BY <1>1, <1>2
    <2> QED
      BY <1>2, <2>1, WriteFacts
  <1>4. m \in Seq(Nat) /\ Len(m) = Len(mem) /\ z < Len(m)
    <2>1. z + Len(<<Nul>>) <= Len(mem)
      BY <1>1, <1>2
    <2>2. m \in Seq(Nat) /\ Len(m) = Len(mem)
      BY <1>3, <2>1 DEF IsWritten
    <2> QED
      BY <1>1, <1>2, <2>2
  <1>5. ASSUME NEW j \in (z + 1)..Len(m) PROVE m[j] = Nul
    <2>1. CASE j = z + 1
      <3>1. m[z + 1] = <<Nul>>[1]
        BY <1>2, <1>3 DEF IsWritten
      <3> QED
        BY <1>2, <2>1, <3>1
    <2>2. CASE j # z + 1
      <3>1. j \in (z + 2)..Len(mem) /\ z + Len(<<Nul>>) + 1 = z + 2
        <4>1. j \in (z + 1)..Len(mem) /\ z \in Nat /\ Len(mem) \in Nat
          BY <1>1, <1>2, <1>4
        <4>2. j \in (z + 2)..Len(mem)
          BY <2>2, <4>1
        <4> QED
          BY <1>2, <4>1, <4>2
      <3>2. m[j] = mem[j]
        BY <1>3, <3>1 DEF IsWritten
      <3> QED
        BY <1>1, <3>1, <3>2
    <2> QED
      BY <2>1, <2>2
  <1>6. pop_back(s) = [mem |-> m, size |-> z]
    BY <1>0, <1>1 DEF pop_back
  <1>7. /\ pop_back(s) \in Str /\ Clean(pop_back(s)) /\ Text(pop_back(s)) = SubSeq(m, 1, z)
    <2>1. z \in Nat
      BY <1>1
    <2> QED
      BY <1>4, <1>5, <1>6, <2>1, StrIs
  <1>8. SubSeq(m, 1, z) = SubSeq(Text(s), 1, z)
    <2> DEFINE x == Text(s)
               f == SubSeq(m, 1, z)
               g == SubSeq(x, 1, z)
    <2>1. x \in Seq(Nat) /\ Len(x) = z + 1 /\ \A j \in 1..(z + 1) : x[j] = mem[j]
      BY <1>1, TextFacts
    <2> HIDE DEF x
    <2>2. f \in Seq(Nat) /\ Len(f) = z /\ \A j \in 1..z : f[j] = m[j]
      <3>1. z \in Nat /\ z <= Len(m)
        BY <1>1, <1>2, <1>4
      <3> QED
        BY <1>4, <3>1, AtFront
    <2>3. g \in Seq(Nat) /\ Len(g) = z /\ \A j \in 1..z : g[j] = x[j]
      <3>1. z \in Nat /\ z <= Len(x) /\ x \in Seq(Nat)
        BY <1>1, <2>1
      <3> QED
        BY <3>1, AtFront
    <2>4. \A j \in 1..z : m[j] = mem[j]
      BY <1>3 DEF IsWritten
    <2> HIDE DEF f, g
    <2>5. ASSUME NEW j \in 1..z PROVE f[j] = g[j]
      <3>1. j \in 1..(z + 1)
        BY <1>1
      <3> QED
        BY <2>1, <2>2, <2>3, <2>4, <3>1
    <2>6. f = g
      <3>1. f \in Seq(Nat) /\ g \in Seq(Nat) /\ Len(f) = Len(g)
        BY <2>2, <2>3
      <3>2. \A j \in 1..Len(f) : f[j] = g[j]
        BY <2>2, <2>5
      <3> QED
        BY <3>1, <3>2, SeqEqual
    <2> QED
      BY <2>6 DEF f, g, x
  <1>9. Len(Text(s)) - 1 = z
    <2>1. Len(Text(s)) = s.size
      BY TextFacts
    <2> QED
      BY <1>0, <2>1
  <1> QED
    BY <1>7, <1>8, <1>9

LEMMA ZerosFacts ==
    ASSUME NEW k \in Nat
    PROVE  /\ Zeros(k) \in Seq(Nat) /\ Len(Zeros(k)) = k
           /\ \A j \in 1..k : Zeros(k)[j] = Nul
  <1>1. Zeros(k) \in [1..k -> Nat] /\ \A j \in 1..k : Zeros(k)[j] = Nul
    BY DEF Zeros, Nul
  <1> QED
    BY <1>1

\* The first k characters, which the string takes from itself.
LEMMA AssignOwnFacts ==
    ASSUME NEW s \in Str, Clean(s), NEW k \in Nat, k <= s.size
    PROVE  /\ assign_own(s, k) \in Str /\ Clean(assign_own(s, k))
           /\ Text(assign_own(s, k)) = SubSeq(Text(s), 1, k)
  <1> SUFFICES ASSUME NEW mem, mem = s.mem, NEW x, x = Text(s)
               PROVE  /\ assign_own(s, k) \in Str /\ Clean(assign_own(s, k))
                      /\ Text(assign_own(s, k)) = SubSeq(x, 1, k)
    OBVIOUS
  <1>1. /\ mem \in Seq(Nat) /\ s.size \in Nat /\ s.size < Len(mem)
        /\ x \in Seq(Nat) /\ Len(x) = s.size /\ \A j \in 1..s.size : x[j] = mem[j]
    BY TextFacts
  <1>2. Len(mem) \in Nat
    BY <1>1
  <1>3. CASE k = 0
    <2> DEFINE c == Zeros(Len(mem))
               m == Write(c, 0 + 1, Append(<<>>, Nul))
    <2>1. c \in Seq(Nat) /\ Len(c) = Len(mem) /\ \A j \in 1..Len(mem) : c[j] = Nul
      BY <1>2, ZerosFacts
    <2>2. assign_own(s, k) = [mem |-> m, size |-> 0]
      BY <1>3 DEF assign_own, assign, Cleansed
    <2> HIDE DEF c
    <2>3. 0 < Len(c) /\ \A j \in (0 + 1)..Len(c) : c[j] = Nul
      BY <1>1, <1>2, <2>1
    <2>4. IsAppended(m, c, 0, <<>>)
      <3>1. c \in Seq(Nat) /\ <<>> \in Seq(Nat) /\ 0 \in Nat
        BY <2>1
      <3> HIDE DEF m
      <3>2. IsAppended(Write(c, 0 + 1, Append(<<>>, Nul)), c, 0, <<>>)
        BY <2>3, <3>1, WriteAtNul
      <3> QED
        BY <3>2 DEF m
    <2> HIDE DEF m
    <2>5. m \in Seq(Nat) /\ 0 < Len(m) /\ \A j \in (0 + 1)..Len(m) : m[j] = Nul
      BY <2>4 DEF IsAppended
    <2>6. /\ assign_own(s, k) \in Str /\ Clean(assign_own(s, k))
          /\ Text(assign_own(s, k)) = SubSeq(m, 1, 0)
      BY <2>2, <2>5, StrIs
    <2>7. SubSeq(m, 1, 0) = <<>> /\ SubSeq(x, 1, 0) = <<>>
      BY SubSeqEmpty
    <2> QED
      BY <1>3, <2>6, <2>7
  <1>4. CASE k # 0
    <2> DEFINE f == SubSeq(mem, 1, k)
               g == SubSeq(x, 1, k)
    <2>0. k <= Len(mem) /\ k <= Len(x)
      BY <1>1, <1>2
    <2>1. f \in Seq(Nat) /\ Len(f) = k /\ \A j \in 1..k : f[j] = mem[j]
      BY <1>1, <2>0, AtFront
    <2>2. g \in Seq(Nat) /\ Len(g) = k /\ \A j \in 1..k : g[j] = x[j]
      BY <1>1, <2>0, AtFront
    <2>3. assign_own(s, k) = Fresh(f)
      BY <1>4 DEF assign_own
    <2> HIDE DEF f, g
    <2>4. \A j \in 1..k : x[j] = mem[j]
      <3> DEFINE n == s.size
      <3>1. n \in Nat /\ k <= n /\ \A j \in 1..n : x[j] = mem[j]
        BY <1>1
      <3> HIDE DEF n
      <3>2. \A j \in 1..k : j \in 1..n
        BY <3>1
      <3> QED
        BY <3>1, <3>2
    <2>5. f = g
      <3>1. \A j \in 1..Len(f) : f[j] = g[j]
        BY <2>1, <2>2, <2>4
      <3>2. f \in Seq(Nat) /\ g \in Seq(Nat) /\ Len(f) = Len(g)
        BY <2>1, <2>2
      <3> QED
        BY <3>1, <3>2, SeqEqual
    <2>6. assign_own(s, k) \in Str /\ Clean(assign_own(s, k)) /\ Text(assign_own(s, k)) = f
      BY <2>1, <2>3, FreshFacts
    <2> QED
      BY <2>5, <2>6 DEF f, g
  <1> QED
    BY <1>3, <1>4

LEMMA EraseFacts ==
    ASSUME NEW s \in Str, Clean(s), NEW a \in Nat \ {0}, NEW b \in Nat, b <= s.size
    PROVE  /\ erase(s, a, b) \in Str /\ Clean(erase(s, a, b))
           /\ a <= b => erase(s, a, b).size = (a - 1) + (s.size - b)
           /\ \A j \in 1..erase(s, a, b).size :
                Text(erase(s, a, b))[j] =
                    IF a > b \/ j < a THEN Text(s)[j] ELSE Text(s)[j + (b - a + 1)]
  <1>0. CASE a > b
    BY <1>0 DEF erase
  <1>1. CASE ~(a > b)
    <2> DEFINE mem == s.mem
               z == s.size
               front == SubSeq(mem, 1, a - 1)
               rest == SubSeq(mem, b + 1, z + 1)
               kept == front \o rest
               zeros == Zeros(Len(mem) - Len(kept))
               m == kept \o zeros
    <2>1. /\ mem \in Seq(Nat) /\ z \in Nat /\ z < Len(mem) /\ Len(mem) \in Nat
          /\ \A j \in (z + 1)..Len(mem) : mem[j] = Nul
      BY TextFacts DEF Clean
    <2>2. erase(s, a, b) = [mem |-> m, size |-> Len(kept) - 1]
      BY <1>1 DEF erase
    <2>3. b <= z /\ a <= b
      BY <1>1
    <2> HIDE DEF mem, z
    <2>4. front \in Seq(Nat) /\ Len(front) = a - 1 /\ \A j \in 1..(a - 1) : front[j] = mem[j]
      <3>1. a - 1 \in Nat /\ a - 1 <= Len(mem)
        BY <2>1, <2>3
      <3> QED
        BY <2>1, <3>1, AtFront
    <2>5. /\ rest \in Seq(Nat) /\ Len(rest) = z + 1 - b
          /\ \A j \in 1..(z + 1 - b) : rest[j] = mem[b + j]
      <3>1. b + 1 \in Nat \ {0} /\ z + 1 \in Nat /\ z + 1 <= Len(mem)
        BY <2>1
      <3>2. /\ rest \in Seq(Nat)
            /\ Len(rest) = IF b + 1 <= z + 1 THEN (z + 1) - (b + 1) + 1 ELSE 0
            /\ \A j \in 1..((z + 1) - (b + 1) + 1) : rest[j] = mem[(b + 1) + j - 1]
        BY <2>1, <3>1, AtEnd
      <3> HIDE DEF rest
      <3>3. (z + 1) - (b + 1) + 1 = z + 1 - b /\ b + 1 <= z + 1
        BY <2>1, <2>3
      <3>4. ASSUME NEW j \in 1..(z + 1 - b) PROVE rest[j] = mem[b + j]
        <4>1. (b + 1) + j - 1 = b + j
          BY <2>1
        <4> QED
          BY <3>2, <3>3, <4>1
      <3> QED
        BY <3>2, <3>3, <3>4
    <2> HIDE DEF front, rest
    <2>6. /\ kept \in Seq(Nat) /\ Len(kept) = Len(front) + Len(rest)
          /\ \A j \in 1..(Len(front) + Len(rest)) :
                kept[j] = IF j <= Len(front) THEN front[j] ELSE rest[j - Len(front)]
      <3>1. front \in Seq(Nat) /\ rest \in Seq(Nat)
        BY <2>4, <2>5
      <3> QED
        BY <3>1, ConcatProperties
    <2> HIDE DEF kept
    <2>7. Len(kept) \in Nat \ {0} /\ Len(kept) <= Len(mem)
      <3>1. Len(kept) = (a - 1) + (z + 1 - b)
        BY <2>4, <2>5, <2>6
      <3> QED
        BY <2>1, <2>3, <3>1
    <2>8. kept[Len(kept)] = Nul
      <3>1. /\ Len(kept) \in 1..(Len(front) + Len(rest)) /\ ~(Len(kept) <= Len(front))
            /\ Len(kept) - Len(front) = z + 1 - b /\ z + 1 - b \in 1..(z + 1 - b)
            /\ b + (z + 1 - b) = z + 1
        <4>1. Len(front) = a - 1 /\ Len(rest) = z + 1 - b /\ Len(kept) = Len(front) + Len(rest)
          BY <2>4, <2>5, <2>6
        <4> QED
          BY <2>1, <2>3, <4>1
      <3>2. kept[Len(kept)] = rest[Len(kept) - Len(front)]
        BY <2>6, <3>1
      <3>3. rest[z + 1 - b] = mem[b + (z + 1 - b)]
        BY <2>5, <3>1
      <3>4. mem[z + 1] = Nul
        BY <2>1
      <3> QED
        BY <3>1, <3>2, <3>3, <3>4
    <2>9. /\ zeros \in Seq(Nat) /\ Len(zeros) = Len(mem) - Len(kept)
          /\ \A j \in 1..(Len(mem) - Len(kept)) : zeros[j] = Nul
      <3>1. Len(mem) - Len(kept) \in Nat
        BY <2>1, <2>7
      <3> QED
        BY <3>1, ZerosFacts
    <2> HIDE DEF zeros
    <2>10. /\ m \in Seq(Nat) /\ Len(m) = Len(kept) + Len(zeros)
           /\ \A j \in 1..(Len(kept) + Len(zeros)) :
                 m[j] = IF j <= Len(kept) THEN kept[j] ELSE zeros[j - Len(kept)]
      <3>1. kept \in Seq(Nat) /\ zeros \in Seq(Nat)
        BY <2>6, <2>9
      <3> QED
        BY <3>1, ConcatProperties
    <2> HIDE DEF m
    <2>11. Len(m) = Len(mem)
      <3>1. Len(m) = Len(kept) + (Len(mem) - Len(kept))
        BY <2>9, <2>10
      <3> QED
        BY <2>1, <2>7, <3>1
    <2> DEFINE n == Len(kept) - 1
    <2>12. n \in Nat /\ n < Len(m) /\ n + 1 = Len(kept)
      BY <2>1, <2>7, <2>11
    <2>13. ASSUME NEW j \in (n + 1)..Len(m) PROVE m[j] = Nul
      <3>1. j \in Nat /\ j >= Len(kept) /\ j <= Len(mem) /\ Len(kept) \in Nat /\ Len(kept) > 0
        BY <2>1, <2>7, <2>11, <2>12
      <3>2. j \in 1..(Len(kept) + Len(zeros))
        BY <2>10, <2>11, <3>1
      <3>3. m[j] = IF j <= Len(kept) THEN kept[j] ELSE zeros[j - Len(kept)]
        BY <2>10, <3>2
      <3>4. CASE j = Len(kept)
        BY <2>8, <3>1, <3>3, <3>4
      <3>5. CASE j # Len(kept)
        <4>1. ~(j <= Len(kept)) /\ j - Len(kept) \in 1..(Len(mem) - Len(kept))
          BY <2>1, <3>1, <3>5
        <4> QED
          BY <2>9, <3>3, <4>1
      <3> QED
        BY <3>4, <3>5
    <2>14. m \in Seq(Nat)
      BY <2>10
    <2>15. erase(s, a, b) = [mem |-> m, size |-> n]
      BY <2>2
    <2>16. n = (a - 1) + (z - b)
      <3>1. Len(front) = a - 1 /\ Len(rest) = z + 1 - b /\ Len(kept) = Len(front) + Len(rest)
        BY <2>4, <2>5, <2>6
      <3> QED
        BY <2>1, <2>3, <3>1
    <2> HIDE DEF n
    <2>17. erase(s, a, b).size = (a - 1) + (s.size - b)
      BY <2>15, <2>16 DEF z
    <2>18. /\ [mem |-> m, size |-> n] \in Str /\ Clean([mem |-> m, size |-> n])
           /\ Text([mem |-> m, size |-> n]) = SubSeq(m, 1, n)
      BY <2>12, <2>13, <2>14, StrIs
    <2>19. ASSUME NEW j \in 1..n
           PROVE  Text(erase(s, a, b))[j] = IF j < a THEN Text(s)[j] ELSE Text(s)[j + (b - a + 1)]
      <3>1. SubSeq(m, 1, n)[j] = m[j]
        <4>1. n <= Len(m)
          BY <2>12, <2>14
        <4> QED
          BY <2>12, <2>14, <4>1, AtFront
      <3>2. Text(erase(s, a, b))[j] = m[j]
        BY <2>15, <2>18, <3>1
      <3>3. Len(kept) \in Nat /\ Len(zeros) \in Nat /\ Len(front) \in Nat /\ Len(rest) \in Nat
        BY <2>4, <2>5, <2>6, <2>9
      <3>4. j \in Nat /\ j >= 1 /\ j <= n /\ j <= Len(kept)
        BY <2>12, <3>3
      <3>5. m[j] = kept[j]
        BY <2>10, <3>3, <3>4
      <3>6. kept[j] = IF j <= Len(front) THEN front[j] ELSE rest[j - Len(front)]
        BY <2>6, <3>3, <3>4
      <3>7. \A k \in 1..z : Text(s)[k] = mem[k]
        BY TextFacts DEF z, mem
      <3>8. CASE j < a
        <4>1. j \in 1..(a - 1) /\ j \in 1..z /\ j <= Len(front)
          BY <2>1, <2>3, <2>4, <3>4, <3>8
        <4> QED
          BY <2>4, <3>2, <3>5, <3>6, <3>7, <3>8, <4>1
      <3>9. CASE ~(j < a)
        <4>1. /\ ~(j <= a - 1) /\ j - (a - 1) \in 1..(z + 1 - b)
              /\ b + (j - (a - 1)) = j + (b - a + 1) /\ j + (b - a + 1) \in 1..z
          BY <2>1, <2>3, <2>16, <3>4, <3>9
        <4>2. kept[j] = rest[j - (a - 1)]
          BY <2>4, <3>6, <4>1
        <4>3. rest[j - (a - 1)] = mem[j + (b - a + 1)]
          BY <2>5, <4>1
        <4> QED
          BY <3>2, <3>5, <3>7, <3>9, <4>1, <4>2, <4>3
      <3> QED
        BY <3>8, <3>9
    <2>20. erase(s, a, b).size = n
      BY <2>15
    <2> QED
      BY <1>1, <2>15, <2>17, <2>18, <2>19, <2>20
  <1> QED
    BY <1>0, <1>1

===============================================================================
