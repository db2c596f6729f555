---------------------------- MODULE Codec_proofs ----------------------------
(***************************************************************************)
(* Proofs about Codec, for every packet table, every value but -0.0 and    *)
(* all sizes of the arrays.  What a packet allocates is freed on every way *)
(* out of building or reading it.  Nothing is written past the array, and  *)
(* what is read from a packet that arrives whole is what was sent; in one  *)
(* that was cut only the last field can differ.                            *)
(*                                                                         *)
(* The argument goes from bits to packets: a byte is the number of its     *)
(* binary digits; every value is written as pieces, of some length and     *)
(* within it; pieces that are written stand in the array one after the     *)
(* other; what each type's reader makes of its pieces is the value.  So a  *)
(* packet that was serialized has positions E[0] < .. < E[n] in the array, *)
(* its id before E[0] and field k between E[k - 1] and E[k].  The          *)
(* invariant is that such positions exist, and that a receiver is at E[k]  *)
(* after k fields, or past the end of what it received.  It is past the    *)
(* end once a length was cut: the lengths are read from the bits, and a    *)
(* length whose bits are missing still leads past them.                    *)
(***************************************************************************)
EXTENDS Codec, FoldTheorems, SequenceTheorems, TLAPS

-----------------------------------------------------------------------------
(* Sequences that are concatenated.                                        *)

(* One step of the concatenation of the first i sequences; g stands for the*)
(* concatenations of fewer.                                                *)
FlatRec(seqs, g, i) == IF i = 1 THEN seqs[i] ELSE g[i - 1] \o seqs[i]

(* g is the table of the concatenations of the first 1 to n of them.       *)
IsFlat(g, seqs, n) == g = [i \in 1 .. n |-> FlatRec(seqs, g, i)]

(* There is such a table: from that of n sequences the next one is made.   *)
LEMMA FlatExists ==
    ASSUME NEW seqs
    PROVE  \A n \in Nat : \E g : IsFlat(g, seqs, n)
<1> DEFINE T == {n \in Nat : \E g : IsFlat(g, seqs, n)}
<1>1. 0 \in T
  <2> DEFINE g == [i \in 1 .. 0 |-> 0]
  <2>1. IsFlat(g, seqs, 0)
      BY DEF IsFlat
  <2> QED  BY <2>1
<1>2. ASSUME NEW n \in T
      PROVE  n + 1 \in T
  <2>1. n \in Nat
      OBVIOUS
  <2>2. PICK g : IsFlat(g, seqs, n)
      OBVIOUS
  <2> DEFINE h == [i \in 1 .. n + 1 |-> FlatRec(seqs, g, i)]
  <2>3. ASSUME NEW i \in 1 .. n + 1
        PROVE  h[i] = FlatRec(seqs, h, i)
    <3>1. CASE i = 1
        BY <2>1, <3>1 DEF FlatRec
    <3>2. CASE i # 1
      <4>1. i - 1 \in 1 .. n /\ i - 1 \in 1 .. n + 1
          BY <2>1, <3>2
      <4>2. g[i - 1] = FlatRec(seqs, g, i - 1)
          BY <2>2, <4>1 DEF IsFlat
      <4>3. h[i - 1] = FlatRec(seqs, g, i - 1)
          BY <4>1
      <4> QED  BY <3>2, <4>2, <4>3 DEF FlatRec
    <3> QED  BY <3>1, <3>2
  <2>4. IsFlat(h, seqs, n + 1)
      BY <2>3 DEF IsFlat
  <2> HIDE DEF h
  <2>5. \E k : IsFlat(k, seqs, n + 1)
      BY <2>4
  <2>6. n + 1 \in Nat
      BY <2>1
  <2> QED  BY <2>5, <2>6
<1>3. T = Nat
  <2> HIDE DEF T
  <2>1. T \subseteq Nat
      BY DEF T
  <2> QED  BY <1>1, <1>2, <2>1, Induction
<1> QED  BY <1>3

(* The table that the library chooses.                                     *)
Flat(seqs) == CHOOSE g : g = [i \in 1 .. Len(seqs) |-> FlatRec(seqs, g, i)]

(* The table chosen satisfies its recursive equation.                      *)
LEMMA FlatIs ==
    ASSUME NEW seqs, Len(seqs) \in Nat
    PROVE  Flat(seqs) = [i \in 1 .. Len(seqs) |-> FlatRec(seqs, Flat(seqs), i)]
<1>1. \E g : IsFlat(g, seqs, Len(seqs))
    BY FlatExists
<1>2. IsFlat(CHOOSE g : IsFlat(g, seqs, Len(seqs)), seqs, Len(seqs))
    BY <1>1, Zenon
<1> QED  BY <1>2, Zenon DEF Flat, IsFlat

(* The same for one of its entries.                                        *)
LEMMA FlatOf ==
    ASSUME NEW seqs, Len(seqs) \in Nat, NEW i \in 1 .. Len(seqs)
    PROVE  Flat(seqs)[i] = FlatRec(seqs, Flat(seqs), i)
<1> DEFINE g == Flat(seqs)
<1>1. g = [j \in 1 .. Len(seqs) |-> FlatRec(seqs, g, j)]
    BY FlatIs
<1> HIDE DEF g
<1>2. [j \in 1 .. Len(seqs) |-> FlatRec(seqs, g, j)][i] = FlatRec(seqs, g, i)
    OBVIOUS
<1>3. g[i] = [j \in 1 .. Len(seqs) |-> FlatRec(seqs, g, j)][i]
    BY <1>1, Zenon
<1> QED  BY <1>2, <1>3, Zenon DEF g

(* The concatenation of all of them is the last entry of the table.        *)
LEMMA FlattenIsFlat ==
    ASSUME NEW seqs
    PROVE  FlattenSeq(seqs)
               = IF Len(seqs) = 0 THEN seqs ELSE Flat(seqs)[Len(seqs)]
BY Zenon DEF FlattenSeq, Flat, FlatRec

(* Flattening appends the sequences one by one.                            *)
LEMMA Flattening ==
    ASSUME NEW S, NEW seqs \in Seq(Seq(S))
    PROVE  \E p \in [0 .. Len(seqs) -> Seq(S)] :
             /\ p[0] = <<>>
             /\ \A i \in 1 .. Len(seqs) : p[i] = p[i - 1] \o seqs[i]
             /\ FlattenSeq(seqs) = p[Len(seqs)]
<1> DEFINE n == Len(seqs)
           g == Flat(seqs)
           F == [i \in Nat |-> IF i = 0 THEN <<>> ELSE g[i]]
           p == [i \in 0 .. n |-> F[i]]
           T == {i \in Nat : i <= n => F[i] \in Seq(S)}
<1>1. n \in Nat /\ \A i \in 1 .. n : seqs[i] \in Seq(S)
    OBVIOUS
<1>2. \A i \in 1 .. n : g[i] = FlatRec(seqs, g, i)
    BY <1>1, FlatOf
<1>3. FlattenSeq(seqs) = IF n = 0 THEN seqs ELSE g[n]
    BY FlattenIsFlat
<1> HIDE DEF g, n
<1>4. ASSUME NEW i \in 1 .. n
      PROVE  F[i] = IF i = 1 THEN seqs[i] ELSE F[i - 1] \o seqs[i]
  <2>1. i # 0 /\ F[i] = FlatRec(seqs, g, i)
      BY <1>1, <1>2
  <2>2. i # 1 => i - 1 # 0 /\ i - 1 \in Nat /\ F[i - 1] = g[i - 1]
      BY <1>1
  <2> HIDE DEF F
  <2> QED  BY <2>1, <2>2, Zenon DEF FlatRec
<1>5. /\ F[0] = <<>> /\ <<>> \in Seq(S)
      /\ \A s \in Seq(S) : <<>> \o s = s
      /\ \A s, t \in Seq(S) : s \o t \in Seq(S)
    BY ConcatEmptySeq, EmptySeq, ConcatProperties
<1>6. FlattenSeq(seqs) = F[n]
    BY <1>1, <1>3 DEF n
<1> HIDE DEF F
<1>7. ASSUME NEW i \in 1 .. n
      PROVE  F[i] = F[i - 1] \o seqs[i]
  <2>1. CASE i = 1
    <3>1. i - 1 = 0
        BY <2>1
    <3>2. F[i - 1] = <<>> /\ F[i] = seqs[i]
        BY <1>4, <1>5, <2>1, <3>1
    <3> QED  BY <1>1, <1>5, <3>2, Zenon
  <2> QED  BY <1>4, <2>1, Zenon
<1>8. 0 \in T
    BY <1>5
<1>9. ASSUME NEW i \in T
      PROVE  i + 1 \in T
  <2>1. i \in Nat /\ (i + 1 <= n => i + 1 \in 1 .. n /\ (i + 1) - 1 = i)
      BY <1>1
  <2>2. i + 1 <= n => F[i + 1] = F[i] \o seqs[i + 1]
      BY <1>7, <2>1
  <2>3. ASSUME i + 1 <= n
        PROVE  F[i + 1] \in Seq(S)
    <3>1. F[i] \in Seq(S) /\ seqs[i + 1] \in Seq(S)
        BY <1>1, <2>1, <2>3
    <3> QED  BY <1>5, <2>2, <2>3, <3>1, Zenon
  <2> QED  BY <2>1, <2>3
<1>10. T = Nat
  <2> HIDE DEF T
  <2>1. T \subseteq Nat
      BY DEF T
  <2> QED  BY <1>8, <1>9, <2>1, Induction
<1>11. p \in [0 .. n -> Seq(S)] /\ p[0] = <<>> /\ FlattenSeq(seqs) = p[n]
    BY <1>1, <1>5, <1>6, <1>10
<1>12. ASSUME NEW i \in 1 .. n
       PROVE  p[i] = p[i - 1] \o seqs[i]
  <2>1. i \in 0 .. n /\ i - 1 \in 0 .. n
      BY <1>1
  <2>2. p[i] = F[i] /\ p[i - 1] = F[i - 1]
      BY <2>1
  <2> HIDE DEF p
  <2> QED  BY <1>7, <2>2
<1> QED  BY <1>11, <1>12 DEF n

(* The length and the elements of a concatenation.                         *)
LEMMA Concatenated ==
    ASSUME NEW S, NEW s \in Seq(S), NEW t \in Seq(S)
    PROVE  /\ Len(s) \in Nat /\ Len(t) \in Nat
           /\ s \o t \in Seq(S) /\ Len(s \o t) = Len(s) + Len(t)
           /\ \A k \in 1 .. Len(s) : (s \o t)[k] = s[k]
           /\ \A k \in 1 .. Len(t) : (s \o t)[Len(s) + k] = t[k]
<1>1. s \o t \in Seq(S) /\ Len(s \o t) = Len(s) + Len(t)
    BY ConcatProperties
<1>2. Len(s) \in Nat /\ Len(t) \in Nat
    OBVIOUS
<1>3. \A k \in 1 .. Len(s) + Len(t) :
          (s \o t)[k] = IF k <= Len(s) THEN s[k] ELSE t[k - Len(s)]
    BY ConcatProperties
<1>4. ASSUME NEW k \in 1 .. Len(s)
      PROVE  (s \o t)[k] = s[k]
  <2>1. k \in 1 .. Len(s) + Len(t) /\ k <= Len(s)
      BY <1>2
  <2> QED  BY <1>3, <2>1
<1>5. ASSUME NEW k \in 1 .. Len(t)
      PROVE  (s \o t)[Len(s) + k] = t[k]
  <2>1. /\ Len(s) + k \in 1 .. Len(s) + Len(t) /\ ~(Len(s) + k <= Len(s))
        /\ (Len(s) + k) - Len(s) = k
      BY <1>2
  <2> QED  BY <1>3, <2>1
<1> QED  BY <1>1, <1>2, <1>4, <1>5

(* The concatenations of more and more sequences begin with each other.    *)
LEMMA FlattenPrefixes ==
    ASSUME NEW S, NEW seqs \in Seq(Seq(S))
    PROVE  \E p \in [0 .. Len(seqs) -> Seq(S)] :
             /\ p[0] = <<>>
             /\ \A i \in 1 .. Len(seqs) : p[i] = p[i - 1] \o seqs[i]
             /\ FlattenSeq(seqs) = p[Len(seqs)]
             /\ \A i \in 0 .. Len(seqs) :
                   /\ Len(p[i]) <= Len(p[Len(seqs)])
                   /\ \A k \in 1 .. Len(p[i]) : p[Len(seqs)][k] = p[i][k]
<1> DEFINE n == Len(seqs)
<1>1. PICK p \in [0 .. n -> Seq(S)] :
          /\ p[0] = <<>>
          /\ \A i \in 1 .. n : p[i] = p[i - 1] \o seqs[i]
          /\ FlattenSeq(seqs) = p[n]
    BY Flattening
<1> DEFINE Begins(m) == \A i \in 0 .. m :
                          /\ Len(p[i]) <= Len(p[m])
                          /\ \A k \in 1 .. Len(p[i]) : p[m][k] = p[i][k]
           T == {m \in Nat : m <= n => Begins(m)}
<1>2. n \in Nat /\ \A i \in 1 .. n : seqs[i] \in Seq(S)
    OBVIOUS
<1> HIDE DEF n
<1>3. \A i \in 0 .. n : p[i] \in Seq(S) /\ Len(p[i]) \in Nat
    BY <1>1
<1>4. 0 \in T
  <2>1. \A i \in 0 .. 0 : i = 0
      OBVIOUS
  <2>2. 0 \in 0 .. n
      BY <1>2
  <2> QED  BY <1>3, <2>1, <2>2
<1>5. ASSUME NEW m \in T
      PROVE  m + 1 \in T
  <2>1. m \in Nat /\ m + 1 \in Nat
      OBVIOUS
  <2> SUFFICES ASSUME m + 1 <= n
               PROVE  Begins(m + 1)
      BY <2>1
  <2>2. /\ m <= n /\ m \in 0 .. n /\ m + 1 \in 1 .. n
        /\ m + 1 \in 0 .. n /\ (m + 1) - 1 = m
      BY <1>2, <2>1
  <2>3. Begins(m)
      BY <2>2
  <2> HIDE DEF T
  <2>4. /\ p[m + 1] = p[m] \o seqs[m + 1]
        /\ p[m] \in Seq(S) /\ seqs[m + 1] \in Seq(S)
    <3>1. p[m + 1] = p[m] \o seqs[m + 1]
        BY <1>1, <2>2
    <3> QED  BY <1>2, <1>3, <2>2, <3>1
  <2>5. /\ Len(p[m]) <= Len(p[m + 1])
        /\ \A k \in 1 .. Len(p[m]) : p[m + 1][k] = p[m][k]
    <3> DEFINE a == p[m]
               b == seqs[m + 1]
               c == p[m + 1]
    <3>1. c = a \o b /\ a \in Seq(S) /\ b \in Seq(S)
        BY <2>4
    <3> HIDE DEF a, b, c
    <3>2. /\ Len(a) \in Nat /\ Len(b) \in Nat
          /\ Len(a \o b) = Len(a) + Len(b)
          /\ \A k \in 1 .. Len(a) : (a \o b)[k] = a[k]
        BY <3>1, Concatenated
    <3>3. Len(a) <= Len(c) /\ \A k \in 1 .. Len(a) : c[k] = a[k]
        BY <3>1, <3>2
    <3> QED  BY <3>3 DEF a, c
  <2>6. ASSUME NEW i \in 0 .. m
        PROVE  /\ Len(p[i]) <= Len(p[m + 1])
               /\ \A k \in 1 .. Len(p[i]) : p[m + 1][k] = p[i][k]
    <3>1. i \in 0 .. n
        BY <1>2, <2>1
    <3>2. /\ Len(p[i]) \in Nat /\ Len(p[m]) \in Nat /\ Len(p[m + 1]) \in Nat
        BY <1>3, <2>2, <3>1
    <3>3. /\ Len(p[i]) <= Len(p[m])
          /\ \A k \in 1 .. Len(p[i]) : p[m][k] = p[i][k]
        BY <2>3
    <3>4. \A k \in 1 .. Len(p[i]) : k \in 1 .. Len(p[m])
        BY <3>2, <3>3
    <3> QED  BY <2>5, <3>2, <3>3, <3>4
  <2>7. /\ Len(p[m + 1]) <= Len(p[m + 1])
        /\ \A k \in 1 .. Len(p[m + 1]) : p[m + 1][k] = p[m + 1][k]
      BY <1>3, <2>2
  <2>8. \A i \in 0 .. m + 1 : i \in 0 .. m \/ i = m + 1
      BY <2>1
  <2> QED  BY <2>6, <2>7, <2>8
<1>6. T = Nat
  <2> HIDE DEF T
  <2>1. T \subseteq Nat
      BY DEF T
  <2> QED  BY <1>4, <1>5, <2>1, Induction
<1>7. Begins(n)
  <2>1. n \in T
      BY <1>2, <1>6
  <2>2. n <= n
      BY <1>2
  <2> QED  BY <2>1, <2>2
<1>8. \A i \in 0 .. n : /\ Len(p[i]) <= Len(p[n])
                        /\ \A k \in 1 .. Len(p[i]) : p[n][k] = p[i][k]
    BY <1>7
<1> HIDE DEF Begins, T
<1> QED  BY <1>1, <1>8, Zenon DEF n

-----------------------------------------------------------------------------
(* Bytes as numbers.                                                       *)

(* The powers of two.                                                      *)
Power == [i \in Nat |-> 2 ^ i]

(* The powers of two that a byte is made of.                               *)
LEMMA PowerIs ==
    /\ Power[0] = 1 /\ Power[1] = 2 /\ Power[2] = 4 /\ Power[3] = 8
    /\ Power[4] = 16 /\ Power[5] = 32 /\ Power[6] = 64 /\ Power[7] = 128
BY DEF Power

(* The binary digits of a number by these powers.                          *)
LEMMA BinaryIs ==
    \A n, width :
        Binary(n, width) = {i \in 0 .. width - 1 : (n \div Power[i]) % 2 = 1}
BY DEF Binary, Power

(* One step of Number; g stands for the numbers with fewer bits.           *)
PowerRec(g, s) == IF s = {} THEN 0 ELSE 2 ^ Pick(s) + g[s \ {Pick(s)}]

(* g is the table of the numbers whose bits are the sets in D.             *)
IsPowers(g, D) == g = [s \in D |-> PowerRec(g, s)]

(* The table that the library chooses.                                     *)
Powers(v) == CHOOSE g : g = [s \in SUBSET v |-> PowerRec(g, s)]

(* A number is the entry for all of its bits.                              *)
LEMMA NumberIsPowers ==
    ASSUME NEW v
    PROVE  Number(v) = Powers(v)[v]
BY Zenon DEF Number, MapThenSumSet, MapThenFoldSet, Powers, PowerRec, Pick

(* The step is that of a sum of powers of two.                             *)
LEMMA PowerRecIs ==
    ASSUME NEW v, v \subseteq Nat, NEW g, NEW s \in SUBSET v
    PROVE  PowerRec(g, s) = Rec(Power, g, s)
<1>1. s # {} => Pick(s) \in Nat
    BY PickIsIn
<1>2. s # {} => Power[Pick(s)] = 2 ^ Pick(s)
    BY <1>1, Zenon DEF Power
<1> QED  BY <1>2, Zenon DEF PowerRec, Rec

(* So the table is one of sums of powers of two.                           *)
LEMMA PowersIs ==
    ASSUME NEW v, v \subseteq Nat, IsFiniteSet(v)
    PROVE  IsIter(Powers(v), Power, SUBSET v)
<1>1. \A g : IsIter(g, Power, SUBSET v) <=> IsPowers(g, SUBSET v)
  <2> TAKE g
  <2>1. [s \in SUBSET v |-> Rec(Power, g, s)]
            = [s \in SUBSET v |-> PowerRec(g, s)]
      BY PowerRecIs
  <2> QED  BY <2>1, Zenon DEF IsIter, IsPowers
<1>2. \E g : IsPowers(g, SUBSET v)
    BY <1>1, SumsExist
<1>3. IsPowers(CHOOSE g : IsPowers(g, SUBSET v), SUBSET v)
    BY <1>2, Zenon
<1>4. IsPowers(Powers(v), SUBSET v)
    BY <1>3, Zenon DEF Powers, IsPowers
<1> QED  BY <1>1, <1>4

(* A number is the sum of the powers of two that its bits stand for.       *)
LEMMA NumberIsSum ==
    ASSUME NEW v, v \subseteq Nat, IsFiniteSet(v)
    PROVE  Number(v) = SumFunctionOnSet(Power, v)
<1>1. IsIter(Iter(Power, v), Power, SUBSET v)
    BY IterIs, Zenon DEF IsIter
<1>2. Powers(v)[v] = Iter(Power, v)[v]
    BY <1>1, PowersIs, IterUnique
<1> QED  BY <1>2, NumberIsPowers, SumIsIter

(* What bit i adds to the number whose bits are v.                         *)
Worth(v, i) == IF i \in v THEN Power[i] ELSE 0

(* The bits of a byte, one by one.                                         *)
LEMMA UpToSeven ==
    /\ \A k \in 0 .. 7 : \/ k = 0 \/ k = 1 \/ k = 2 \/ k = 3
                         \/ k = 4 \/ k = 5 \/ k = 6 \/ k = 7
    /\ \A k \in 0 .. 7 : Power[k] \in Nat
<1>1. \A k \in 0 .. 7 : \/ k = 0 \/ k = 1 \/ k = 2 \/ k = 3
                        \/ k = 4 \/ k = 5 \/ k = 6 \/ k = 7
    OBVIOUS
<1>2. ASSUME NEW k \in 0 .. 7 PROVE Power[k] \in Nat
  <2>1. \/ k = 0 \/ k = 1 \/ k = 2 \/ k = 3
        \/ k = 4 \/ k = 5 \/ k = 6 \/ k = 7
      OBVIOUS
  <2> QED  BY <2>1, PowerIs
<1> QED  BY <1>1, <1>2

(* Sets of bits of a byte are finite sets of numbers.                      *)
LEMMA BitSets == \A u \in SUBSET (0 .. 7) : IsFiniteSet(u) /\ u \subseteq Nat
<1>1. IsFiniteSet(0 .. 7)
  <2>1. 0 \in Int /\ 7 \in Int
      OBVIOUS
  <2> QED  BY <2>1, FS_Interval, Zenon
<1>2. 0 .. 7 \subseteq Nat
    OBVIOUS
<1> QED  BY <1>1, <1>2, FS_Subset

(* A number is what one bit is worth and the number of the others.         *)
LEMMA NumberOfRest ==
    ASSUME NEW v \in SUBSET (0 .. 7)
    PROVE  /\ Number(v) \in Int
           /\ v = {} => Number(v) = 0
           /\ \A i \in 0 .. 7 : Number(v) = Worth(v, i) + Number(v \ {i})
<1>1. IsFiniteSet(v) /\ v \subseteq Nat
    BY BitSets
<1>2. /\ Number(v) = SumFunctionOnSet(Power, v)
      /\ \A k \in v : Number(v \ {k}) = SumFunctionOnSet(Power, v \ {k})
  <2>1. \A k \in v : v \ {k} \in SUBSET (0 .. 7)
      OBVIOUS
  <2>2. \A k \in v : IsFiniteSet(v \ {k}) /\ v \ {k} \subseteq Nat
      BY <2>1, BitSets
  <2> QED  BY <1>1, <2>2, NumberIsSum
<1>3. \A k \in v : Power[k] \in Int
  <2> TAKE k \in v
  <2>1. k \in 0 .. 7
      OBVIOUS
  <2> QED  BY <2>1, UpToSeven
<1>4. /\ Number(v) \in Int
      /\ v = {} => Number(v) = 0
      /\ \A k \in v : Number(v) = Power[k] + Number(v \ {k})
  <2>1. /\ SumFunctionOnSet(Power, v) \in Int
        /\ v = {} => SumFunctionOnSet(Power, v) = 0
        /\ \A k \in v : SumFunctionOnSet(Power, v)
                            = Power[k] + SumFunctionOnSet(Power, v \ {k})
      BY <1>1, <1>3, SumOfRest, Zenon
  <2> QED  BY <1>2, <2>1
<1>5. ASSUME NEW i \in 0 .. 7
      PROVE  Number(v) = Worth(v, i) + Number(v \ {i})
  <2>1. CASE i \in v
      BY <1>4, <2>1 DEF Worth
  <2>2. CASE i \notin v
    <3>1. v \ {i} = v
        BY <2>2
    <3> QED  BY <1>4, <2>2, <3>1 DEF Worth
  <2> QED  BY <2>1, <2>2
<1> QED  BY <1>4, <1>5

(* A byte is the sum of what its eight bits are worth.                     *)
LEMMA NumberIs ==
    ASSUME NEW v \in SUBSET (0 .. 7)
    PROVE  Number(v) =
               Worth(v, 0) + Worth(v, 1) + Worth(v, 2) + Worth(v, 3)
                   + Worth(v, 4) + Worth(v, 5) + Worth(v, 6) + Worth(v, 7)
<1> DEFINE r == [j \in 0 .. 8 |-> {i \in v : i >= j}]
<1>1. \A i \in v : i \in Int /\ i >= 0 /\ i <= 7
    OBVIOUS
<1>2. ASSUME NEW j \in 0 .. 7
       PROVE  r[j] \ {j} = r[j + 1]
  <2>1. j + 1 \in 0 .. 8 /\ j \in 0 .. 8 /\ j \in Int
      OBVIOUS
  <2>2. r[j] = {i \in v : i >= j} /\ r[j + 1] = {i \in v : i >= j + 1}
      BY <2>1
  <2>3. \A i \in v : (i >= j /\ i # j) <=> i >= j + 1
      BY <1>1, <2>1
  <2> HIDE DEF r
  <2> QED  BY <2>2, <2>3
<1>3. \A j \in 0 .. 8 : r[j] \in SUBSET (0 .. 7)
    OBVIOUS
<1>4. ASSUME NEW j \in 0 .. 7
      PROVE  Number(r[j]) = Worth(v, j) + Number(r[j + 1])
  <2>1. /\ j + 1 \in 0 .. 8 /\ j \in 0 .. 8
        /\ r[j] \ {j} = r[j + 1]
      BY <1>2
  <2>2. /\ j \in Int /\ (j \in r[j] <=> j \in v)
      BY <1>1
  <2>3. r[j] \in SUBSET (0 .. 7)
      BY <1>3, <2>1
  <2>4. Worth(r[j], j) = Worth(v, j)
      BY <2>2 DEF Worth
  <2> HIDE DEF r
  <2> QED  BY <2>1, <2>4, <2>3, NumberOfRest, Zenon
<1>5. r[0] = v /\ r[8] = {}
  <2>1. r[0] = {i \in v : i >= 0} /\ r[8] = {i \in v : i >= 8}
      OBVIOUS
  <2>2. \A i \in v : i >= 0 /\ ~(i >= 8)
      BY <1>1
  <2> HIDE DEF r
  <2> QED  BY <2>1, <2>2
<1> HIDE DEF r
<1>6. Number(r[8]) = 0
    BY <1>3, <1>5, NumberOfRest
<1>7. /\ Number(r[0]) = Worth(v, 0) + Number(r[1])
      /\ Number(r[1]) = Worth(v, 1) + Number(r[2])
      /\ Number(r[2]) = Worth(v, 2) + Number(r[3])
      /\ Number(r[3]) = Worth(v, 3) + Number(r[4])
      /\ Number(r[4]) = Worth(v, 4) + Number(r[5])
      /\ Number(r[5]) = Worth(v, 5) + Number(r[6])
      /\ Number(r[6]) = Worth(v, 6) + Number(r[7])
      /\ Number(r[7]) = Worth(v, 7) + Number(r[8])
    BY <1>4
<1>8. \A i \in 0 .. 7 : Worth(v, i) \in Int
    BY UpToSeven DEF Worth
<1> QED  BY <1>5, <1>6, <1>7, <1>8

(* What each of them is worth.                                             *)
LEMMA WorthIs ==
    \A v : /\ Worth(v, 0) = IF 0 \in v THEN 1 ELSE 0
           /\ Worth(v, 1) = IF 1 \in v THEN 2 ELSE 0
           /\ Worth(v, 2) = IF 2 \in v THEN 4 ELSE 0
           /\ Worth(v, 3) = IF 3 \in v THEN 8 ELSE 0
           /\ Worth(v, 4) = IF 4 \in v THEN 16 ELSE 0
           /\ Worth(v, 5) = IF 5 \in v THEN 32 ELSE 0
           /\ Worth(v, 6) = IF 6 \in v THEN 64 ELSE 0
           /\ Worth(v, 7) = IF 7 \in v THEN 128 ELSE 0
BY PowerIs DEF Worth

(* The greatest number of 3, 4, 5, 6 and 8 bits.                           *)
LEMMA NumberFits ==
    ASSUME NEW v \in SUBSET (0 .. 7)
    PROVE  /\ Number(v) \in 0 .. 255
           /\ v \subseteq 0 .. 5 => Number(v) <= 63
           /\ v \subseteq 0 .. 4 => Number(v) <= 31
           /\ v \subseteq 0 .. 3 => Number(v) <= 15
           /\ v \subseteq 0 .. 2 => Number(v) <= 7
<1>1. Number(v) = Worth(v, 0) + Worth(v, 1) + Worth(v, 2) + Worth(v, 3)
                    + Worth(v, 4) + Worth(v, 5) + Worth(v, 6) + Worth(v, 7)
    BY NumberIs
<1>2. /\ v \subseteq 0 .. 5 => 6 \notin v /\ 7 \notin v
      /\ v \subseteq 0 .. 4 => 5 \notin v /\ 6 \notin v /\ 7 \notin v
      /\ v \subseteq 0 .. 3 =>
             4 \notin v /\ 5 \notin v /\ 6 \notin v /\ 7 \notin v
      /\ v \subseteq 0 .. 2 =>
             3 \notin v /\ 4 \notin v /\ 5 \notin v /\ 6 \notin v /\ 7 \notin v
    OBVIOUS
<1> QED  BY <1>1, <1>2, WorthIs

(* A number that fits is the number of its binary digits.                  *)
LEMMA NumberOfBinary ==
    /\ \A n \in 0 .. 255 : Number(Binary(n, 8)) = n
    /\ \A n \in 0 .. 63 : Number(Binary(n, 6)) = n
    /\ \A n \in 0 .. 31 : Number(Binary(n, 5)) = n
    /\ \A n \in 0 .. 15 : Number(Binary(n, 4)) = n
    /\ \A n \in 0 .. 7 : Number(Binary(n, 3)) = n
<1> DEFINE B(n, i) == (n \div Power[i]) % 2 = 1
<1>1. \A n \in Nat :
          /\ B(n, 0) <=> n % 2 = 1
          /\ B(n, 1) <=> (n \div 2) % 2 = 1
          /\ B(n, 2) <=> (n \div 4) % 2 = 1
          /\ B(n, 3) <=> (n \div 8) % 2 = 1
          /\ B(n, 4) <=> (n \div 16) % 2 = 1
          /\ B(n, 5) <=> (n \div 32) % 2 = 1
          /\ B(n, 6) <=> (n \div 64) % 2 = 1
          /\ B(n, 7) <=> (n \div 128) % 2 = 1
    BY PowerIs
<1>2. \A n, w : \A i : i \in Binary(n, w) <=> i \in 0 .. w - 1 /\ B(n, i)
    BY BinaryIs
<1> HIDE DEF B
<1>3. ASSUME NEW n \in 0 .. 255
      PROVE  Number(Binary(n, 8)) = n
  <2>1. Binary(n, 8) \in SUBSET (0 .. 7)
      BY <1>2
  <2>2. \A i \in 0 .. 7 : i \in Binary(n, 8) <=> B(n, i)
      BY <1>2
  <2> DEFINE v == Binary(n, 8)
  <2> HIDE DEF v
  <2>3. Number(v) = Worth(v, 0) + Worth(v, 1) + Worth(v, 2) + Worth(v, 3)
                      + Worth(v, 4) + Worth(v, 5) + Worth(v, 6) + Worth(v, 7)
      BY <2>1, NumberIs DEF v
  <2>4. /\ 0 \in v <=> n % 2 = 1
        /\ 1 \in v <=> (n \div 2) % 2 = 1
        /\ 2 \in v <=> (n \div 4) % 2 = 1
        /\ 3 \in v <=> (n \div 8) % 2 = 1
        /\ 4 \in v <=> (n \div 16) % 2 = 1
        /\ 5 \in v <=> (n \div 32) % 2 = 1
        /\ 6 \in v <=> (n \div 64) % 2 = 1
        /\ 7 \in v <=> (n \div 128) % 2 = 1
      BY <1>1, <2>2 DEF v
  <2>5. Number(v) = n
      BY <2>3, <2>4, WorthIs
  <2> QED  BY <2>5 DEF v
<1>4. ASSUME NEW n \in 0 .. 63
      PROVE  Binary(n, 6) = Binary(n, 8)
  <2>1. \A i \in 0 .. 7 : \/ i = 0 \/ i = 1 \/ i = 2 \/ i = 3
                         \/ i = 4 \/ i = 5 \/ i = 6 \/ i = 7
      BY UpToSeven
  <2>2. ~B(n, 6) /\ ~B(n, 7)
      BY <1>1
  <2>3. \A i \in 0 .. 7 : B(n, i) => i \in 0 .. 5
      BY <2>1, <2>2
  <2>4. \A i : i \in Binary(n, 6) <=> i \in 0 .. 5 /\ B(n, i)
      BY <1>2
  <2>5. \A i : i \in Binary(n, 8) <=> i \in 0 .. 7 /\ B(n, i)
      BY <1>2
  <2>6. \A i \in 0 .. 5 : i \in 0 .. 7
      OBVIOUS
  <2> QED  BY <2>3, <2>4, <2>5, <2>6, Zenon
<1>5. ASSUME NEW n \in 0 .. 31
      PROVE  Binary(n, 5) = Binary(n, 8)
  <2>1. \A i \in 0 .. 7 : \/ i = 0 \/ i = 1 \/ i = 2 \/ i = 3
                         \/ i = 4 \/ i = 5 \/ i = 6 \/ i = 7
      BY UpToSeven
  <2>2. ~B(n, 5) /\ ~B(n, 6) /\ ~B(n, 7)
      BY <1>1
  <2>3. \A i \in 0 .. 7 : B(n, i) => i \in 0 .. 4
      BY <2>1, <2>2
  <2>4. \A i : i \in Binary(n, 5) <=> i \in 0 .. 4 /\ B(n, i)
      BY <1>2
  <2>5. \A i : i \in Binary(n, 8) <=> i \in 0 .. 7 /\ B(n, i)
      BY <1>2
  <2>6. \A i \in 0 .. 4 : i \in 0 .. 7
      OBVIOUS
  <2> QED  BY <2>3, <2>4, <2>5, <2>6, Zenon
<1>6. ASSUME NEW n \in 0 .. 15
      PROVE  Binary(n, 4) = Binary(n, 8)
  <2>1. \A i \in 0 .. 7 : \/ i = 0 \/ i = 1 \/ i = 2 \/ i = 3
                         \/ i = 4 \/ i = 5 \/ i = 6 \/ i = 7
      BY UpToSeven
  <2>2. ~B(n, 4) /\ ~B(n, 5) /\ ~B(n, 6) /\ ~B(n, 7)
      BY <1>1
  <2>3. \A i \in 0 .. 7 : B(n, i) => i \in 0 .. 3
      BY <2>1, <2>2
  <2>4. \A i : i \in Binary(n, 4) <=> i \in 0 .. 3 /\ B(n, i)
      BY <1>2
  <2>5. \A i : i \in Binary(n, 8) <=> i \in 0 .. 7 /\ B(n, i)
      BY <1>2
  <2>6. \A i \in 0 .. 3 : i \in 0 .. 7
      OBVIOUS
  <2> QED  BY <2>3, <2>4, <2>5, <2>6, Zenon
<1>7. ASSUME NEW n \in 0 .. 7
      PROVE  Binary(n, 3) = Binary(n, 8)
  <2>1. \A i \in 0 .. 7 : \/ i = 0 \/ i = 1 \/ i = 2 \/ i = 3
                         \/ i = 4 \/ i = 5 \/ i = 6 \/ i = 7
      BY UpToSeven
  <2>2. ~B(n, 3) /\ ~B(n, 4) /\ ~B(n, 5) /\ ~B(n, 6) /\ ~B(n, 7)
      BY <1>1
  <2>3. \A i \in 0 .. 7 : B(n, i) => i \in 0 .. 2
      BY <2>1, <2>2
  <2>4. \A i : i \in Binary(n, 3) <=> i \in 0 .. 2 /\ B(n, i)
      BY <1>2
  <2>5. \A i : i \in Binary(n, 8) <=> i \in 0 .. 7 /\ B(n, i)
      BY <1>2
  <2>6. \A i \in 0 .. 2 : i \in 0 .. 7
      OBVIOUS
  <2> QED  BY <2>3, <2>4, <2>5, <2>6, Zenon
<1>8. \A n \in 0 .. 63 : n \in 0 .. 255
    OBVIOUS
<1> QED  BY <1>3, <1>4, <1>5, <1>6, <1>7, <1>8

-----------------------------------------------------------------------------
(* What each type is written as.                                           *)

(* The widths of the integer types.                                        *)
Widths == {8, 16, 32, 64}

(* The width of the headers, which is enough for every size (HeaderBits).  *)
LEMMA HeaderBitsIs ==
    /\ HeaderBits[8] = 3 /\ HeaderBits[16] = 4
    /\ HeaderBits[32] = 5 /\ HeaderBits[64] = 6
    /\ \A width \in Widths : HeaderBits[width] \in 3 .. 6 /\ width \in 8 .. 64
BY DEF HeaderBits, Widths

(* Every integer type has one of these widths.                             *)
LEMMA WidthIs ==
    /\ \A t \in Unsigned \cup Signed : Width[t] \in Widths
    /\ Width["UINT8"] = 8
    /\ 8 \in Widths /\ 16 \in Widths /\ 64 \in Widths
BY DEF Width, Unsigned, Signed, Widths

(* A value takes at least one bit and as many as it needs (GetUIntBitsize).*)
LEMMA BitsizeIs ==
    ASSUME NEW b \in Nat, NEW v \in SUBSET (0 .. b)
    PROVE  /\ Bitsize(v) \in 1 .. b + 1
           /\ v \subseteq 0 .. Bitsize(v) - 1
<1>1. CASE v = {}
    BY <1>1 DEF Bitsize
<1>2. CASE v # {}
  <2>1. Max(v) \in v /\ \A x \in v : x <= Max(v)
      BY <1>2, MaxOf
  <2>2. Bitsize(v) = Max(v) + 1
      BY <1>2 DEF Bitsize
  <2>3. Max(v) \in 0 .. b /\ \A x \in v : x \in 0 .. b
      BY <2>1
  <2> QED  BY <2>1, <2>2, <2>3
<1> QED  BY <1>1, <1>2

(* What can be written: at least one bit, and no bit past its length.      *)
Piece ==
    {c \in [bits : SUBSET Nat, len : Nat \ {0}] :
        c.bits \subseteq 0 .. c.len - 1}

(* A chunk whose bits are within its length is a piece.                    *)
LEMMA ChunkIsPiece ==
    ASSUME NEW n \in Nat \ {0}, NEW b \in SUBSET (0 .. n - 1)
    PROVE  /\ Chunk(b, n) \in Piece
           /\ Chunk(b, n).bits = b /\ Chunk(b, n).len = n
<1>1. b \in SUBSET Nat
    OBVIOUS
<1> QED  BY <1>1 DEF Chunk, Piece

(* Binary digits are within the width.                                     *)
LEMMA BinaryType == \A n, width : Binary(n, width) \subseteq 0 .. width - 1
BY DEF Binary

(* A header is a piece of the header's width.                              *)
LEMMA HeaderIs ==
    ASSUME NEW size, NEW width \in Widths
    PROVE  /\ Header(size, width) \in Piece
           /\ Header(size, width).bits = Binary(size - 1, HeaderBits[width])
           /\ Header(size, width).len = HeaderBits[width]
<1>1. HeaderBits[width] \in Nat \ {0}
    BY HeaderBitsIs
<1> QED  BY <1>1, BinaryType, ChunkIsPiece DEF Header

(* The sign and the magnitude are a piece.                                 *)
LEMMA SignAndIs ==
    ASSUME NEW b \in Nat, NEW m \in SUBSET (0 .. b), NEW neg
    PROVE  /\ SignAnd(neg, m) \in Piece
           /\ SignAnd(neg, m).len = 1 + Bitsize(m)
           /\ SignAnd(neg, m).bits
                  = {i + 1 : i \in m} \cup (IF neg THEN {0} ELSE {})
<1>1. Bitsize(m) \in Nat /\ m \subseteq 0 .. Bitsize(m) - 1
    BY BitsizeIs
<1>2. {i + 1 : i \in m} \cup (IF neg THEN {0} ELSE {})
          \in SUBSET (0 .. (1 + Bitsize(m)) - 1)
  <2> SUFFICES ASSUME NEW i \in {j + 1 : j \in m}
                                     \cup (IF neg THEN {0} ELSE {})
               PROVE  i \in 0 .. (1 + Bitsize(m)) - 1
      OBVIOUS
  <2>1. i = 0 \/ \E j \in m : i = j + 1
      OBVIOUS
  <2> QED  BY <1>1, <2>1
<1>3. 1 + Bitsize(m) \in Nat \ {0}
    BY <1>1
<1> HIDE DEF Chunk
<1> QED  BY <1>2, <1>3, ChunkIsPiece DEF SignAnd

(* A magnitude fits the type (llabs).                                      *)
LEMMA MagnitudeType ==
    ASSUME NEW width \in Nat \ {0}, NEW v \in SUBSET (0 .. width - 1)
    PROVE  Magnitude(v, width) \in SUBSET (0 .. width - 1)
BY DEF Magnitude, Negate

(* What is written of an unsigned integer: two pieces.                     *)
LEMMA UIntChunksType ==
    ASSUME NEW width \in Widths, NEW v \in SUBSET (0 .. width - 1)
    PROVE  UIntChunks(v, width) \in Seq(Piece) /\ Len(UIntChunks(v, width)) = 2
<1>1. Bitsize(v) \in Nat \ {0} /\ v \in SUBSET (0 .. Bitsize(v) - 1)
  <2>1. width - 1 \in Nat
      BY HeaderBitsIs
  <2>2. /\ Bitsize(v) \in 1 .. (width - 1) + 1
        /\ v \subseteq 0 .. Bitsize(v) - 1
      BY <2>1, BitsizeIs
  <2> QED  BY <2>1, <2>2
<1>2. Header(Bitsize(v), width) \in Piece /\ Chunk(v, Bitsize(v)) \in Piece
    BY <1>1, HeaderIs, ChunkIsPiece
<1> QED  BY <1>2 DEF UIntChunks

(* What is written of a signed integer: two pieces.                        *)
LEMMA IntChunksType ==
    ASSUME NEW width \in Widths, NEW v \in SUBSET (0 .. width - 1)
    PROVE  IntChunks(v, width) \in Seq(Piece) /\ Len(IntChunks(v, width)) = 2
<1> DEFINE m == Magnitude(v, width)
<1>1. width - 1 \in Nat /\ m \in SUBSET (0 .. width - 1)
  <2>1. width \in Nat \ {0} /\ width - 1 \in Nat
      BY HeaderBitsIs
  <2> QED  BY <2>1, MagnitudeType
<1>2. Header(Bitsize(m), width) \in Piece
    BY HeaderIs
<1>3. SignAnd(width - 1 \in v, m) \in Piece
    BY <1>1, SignAndIs
<1> QED  BY <1>2, <1>3 DEF IntChunks

(* The values of each type.                                                *)
LEMMA ValueIs ==
    /\ \A t \in Unsigned \cup Signed : Value(t) = SUBSET (0 .. Width[t] - 1)
    /\ Value("DOUBLE") = [neg : BOOLEAN, frac : SUBSET (0 .. 52),
                          exp : SUBSET (0 .. 15)]
    /\ Value("BOOLEAN") = BOOLEAN
    /\ Value("UTF8_STRING") = Seq(Byte)
<1>1. \A t \in Unsigned \cup Signed :
          t \notin {"DOUBLE", "BOOLEAN", "UTF8_STRING"}
    BY DEF Unsigned, Signed
<1>2. \A t \in Unsigned \cup Signed : Value(t) = SUBSET (0 .. Width[t] - 1)
    BY <1>1, SMT DEF Value
<1>3. "DOUBLE" \notin Unsigned \cup Signed
    BY DEF Unsigned, Signed
<1>4. "BOOLEAN" \notin Unsigned \cup Signed
    BY DEF Unsigned, Signed
<1>5. "UTF8_STRING" \notin Unsigned \cup Signed
    BY DEF Unsigned, Signed
<1>6. Value("DOUBLE") = [neg : BOOLEAN, frac : SUBSET (0 .. 52),
                          exp : SUBSET (0 .. 15)]
    BY <1>3, Zenon DEF Value
<1>7. Value("BOOLEAN") = BOOLEAN
    BY <1>4, Zenon DEF Value
<1>8. Value("UTF8_STRING") = Seq(Byte)
    BY <1>5, SMT DEF Value
<1> QED  BY <1>2, <1>6, <1>7, <1>8

(* What is written of a double.                                            *)
LEMMA DoubleChunksType ==
    ASSUME NEW v \in Value("DOUBLE")
    PROVE  DoubleChunks(v) \in Seq(Piece)
<1>1. v.frac \in SUBSET (0 .. 52) /\ v.exp \in SUBSET (0 .. 15)
  <2>1. v \in [neg : BOOLEAN, frac : SUBSET (0 .. 52), exp : SUBSET (0 .. 15)]
      BY ValueIs, Zenon
  <2> QED  BY <2>1
<1>2. Header(Bitsize(v.frac), 64) \in Piece
    BY HeaderIs, WidthIs
<1>3. SignAnd(v.neg /\ v.frac # {}, v.frac) \in Piece
    BY <1>1, SignAndIs
<1>4. IntChunks(v.exp, 16) \in Seq(Piece)
  <2>1. v.exp \in SUBSET (0 .. 16 - 1)
      BY <1>1
  <2> QED  BY <2>1, IntChunksType, WidthIs
<1> QED  BY <1>2, <1>3, <1>4 DEF DoubleChunks

(* What is written of a boolean.                                           *)
LEMMA BooleanChunksType ==
    ASSUME NEW v
    PROVE  BooleanChunks(v) \in Seq(Piece)
<1>1. Chunk(IF v THEN {0} ELSE {}, 1) \in Piece
  <2>1. (IF v THEN {0} ELSE {}) \in SUBSET (0 .. 1 - 1)
      OBVIOUS
  <2> QED  BY <2>1, ChunkIsPiece
<1> QED  BY <1>1 DEF BooleanChunks

(* The bits of a string's bytes.                                           *)
BytesOf(v) == UNION {{8 * (k - 1) + i : i \in v[k]} : k \in DOMAIN v}

(* They are within the string's length.                                    *)
LEMMA BytesWithin ==
    ASSUME NEW v \in Seq(Byte)
    PROVE  BytesOf(v) \subseteq 0 .. 8 * Len(v) - 1
<1>1. Len(v) \in Nat /\ DOMAIN v = 1 .. Len(v)
    OBVIOUS
<1> SUFFICES ASSUME NEW j \in BytesOf(v)
             PROVE  j \in 0 .. 8 * Len(v) - 1
    OBVIOUS
<1>2. PICK k \in DOMAIN v : j \in {8 * (k - 1) + i : i \in v[k]}
    BY DEF BytesOf
<1>3. PICK i \in v[k] : j = 8 * (k - 1) + i
    BY <1>2
<1>4. k \in 1 .. Len(v)
    BY <1>1
<1>5. v[k] \in SUBSET (0 .. 7)
    BY DEF Byte
<1>6. i \in 0 .. 7
    BY <1>5
<1> HIDE DEF Byte
<1>7. ASSUME NEW n \in Nat, NEW m \in 1 .. n
      PROVE  8 * (m - 1) + i \in 0 .. 8 * n - 1
    BY <1>6
<1> QED  BY <1>1, <1>4, <1>3, <1>7

(* What is written of a string.                                            *)
LEMMA StringChunksType ==
    ASSUME NEW v \in Seq(Byte)
    PROVE  StringChunks(v) \in Seq(Piece)
<1> DEFINE len == Binary(Len(v), 8)
           b == Bitsize(len)
           bits == len \cup {b + i : i \in BytesOf(v)}
<1>1. len \in SUBSET (0 .. 7) /\ Len(v) \in Nat
    BY BinaryType
<1>2. b \in 1 .. 7 + 1 /\ len \subseteq 0 .. b - 1
    BY <1>1, BitsizeIs
<1>3. Header(b, 8) \in Piece
    BY HeaderIs, WidthIs
<1>4. \A i \in BytesOf(v) : i \in 0 .. 8 * Len(v) - 1
    BY BytesWithin
<1>5. StringChunks(v) = <<Header(b, 8), Chunk(bits, b + 8 * Len(v))>>
    BY Zenon DEF StringChunks, BytesOf
<1> HIDE DEF len, b
<1>6. \A i \in bits : i \in 0 .. (b + 8 * Len(v)) - 1
  <2>1. \A i \in len : i \in 0 .. (b + 8 * Len(v)) - 1
      BY <1>1, <1>2
  <2>2. \A i \in BytesOf(v) : b + i \in 0 .. (b + 8 * Len(v)) - 1
      BY <1>1, <1>2, <1>4
  <2> QED  BY <2>1, <2>2
<1>7. /\ b + 8 * Len(v) \in Nat \ {0}
      /\ bits \in SUBSET (0 .. (b + 8 * Len(v)) - 1)
  <2> HIDE DEF bits
  <2> QED  BY <1>1, <1>2, <1>6
<1> HIDE DEF bits
<1>8. Chunk(bits, b + 8 * Len(v)) \in Piece
    BY <1>7, ChunkIsPiece
<1> QED  BY <1>3, <1>5, <1>8

(* What is written of a value depends on its type.                         *)
LEMMA ChunksIs ==
    ASSUME NEW t, NEW v
    PROVE  /\ t \in Unsigned => Chunks(t, v) = UIntChunks(v, Width[t])
           /\ t \in Signed => Chunks(t, v) = IntChunks(v, Width[t])
           /\ t = "DOUBLE" => Chunks(t, v) = DoubleChunks(v)
           /\ t = "BOOLEAN" => Chunks(t, v) = BooleanChunks(v)
           /\ t = "UTF8_STRING" => Chunks(t, v) = StringChunks(v)
<1>1. t \in Unsigned =>
          t \notin Signed \cup {"DOUBLE", "BOOLEAN", "UTF8_STRING"}
    BY DEF Unsigned, Signed
<1>2. t \in Signed =>
          t \notin Unsigned \cup {"DOUBLE", "BOOLEAN", "UTF8_STRING"}
    BY DEF Unsigned, Signed
<1>3. t \in {"DOUBLE", "BOOLEAN", "UTF8_STRING"} =>
          t \notin Unsigned /\ t \notin Signed
    BY DEF Unsigned, Signed
<1>4. t \in Unsigned => Chunks(t, v) = UIntChunks(v, Width[t])
    BY <1>1, SMT DEF Chunks
<1>5. t \in Signed => Chunks(t, v) = IntChunks(v, Width[t])
    BY <1>2, SMT DEF Chunks
<1>6. t = "DOUBLE" => Chunks(t, v) = DoubleChunks(v)
    BY <1>3, SMT DEF Chunks
<1>7. t = "BOOLEAN" => Chunks(t, v) = BooleanChunks(v)
    BY <1>3, SMT DEF Chunks
<1>8. t = "UTF8_STRING" => Chunks(t, v) = StringChunks(v)
    BY <1>3, SMT DEF Chunks
<1> QED  BY <1>4, <1>5, <1>6, <1>7, <1>8

(* What is written of a value is a sequence of pieces.                     *)
LEMMA ChunksType ==
    ASSUME NEW t \in Type, NEW v \in Value(t)
    PROVE  Chunks(t, v) \in Seq(Piece)
<1>1. CASE t \in Unsigned
  <2>1. Width[t] \in Widths /\ v \in SUBSET (0 .. Width[t] - 1)
      BY <1>1, WidthIs, ValueIs
  <2> QED  BY <1>1, <2>1, UIntChunksType, ChunksIs
<1>2. CASE t \in Signed
  <2>1. Width[t] \in Widths /\ v \in SUBSET (0 .. Width[t] - 1)
      BY <1>2, WidthIs, ValueIs
  <2> QED  BY <1>2, <2>1, IntChunksType, ChunksIs
<1>3. CASE t = "DOUBLE"
    BY <1>3, DoubleChunksType, ChunksIs
<1>4. CASE t = "BOOLEAN"
    BY <1>4, BooleanChunksType, ChunksIs
<1>5. CASE t = "UTF8_STRING"
    BY <1>5, StringChunksType, ChunksIs, ValueIs
<1> QED  BY <1>1, <1>2, <1>3, <1>4, <1>5 DEF Type

(* What is in an array in which len bits have been written.                *)
Output == {o \in [bits : SUBSET Nat, len : Nat, ok : BOOLEAN] :
              o.bits \subseteq 0 .. o.len - 1}

(* Writing a piece leaves an array of this form (Write).                   *)
LEMMA WriteType ==
    /\ Cleared \in Output
    /\ \A o \in Output, c \in Piece : Write(o, c) \in Output
<1>1. Cleared \in Output
    BY DEF Cleared, Output
<1>2. ASSUME NEW o \in Output, NEW c \in Piece
      PROVE  Write(o, c) \in Output
  <2>1. /\ o.len \in Nat /\ o.ok \in BOOLEAN
        /\ o.bits \in SUBSET Nat /\ o.bits \subseteq 0 .. o.len - 1
        /\ o \in [bits : SUBSET Nat, len : Nat, ok : BOOLEAN]
      BY DEF Output
  <2>2. c.len \in Nat \ {0} /\ c.bits \subseteq 0 .. c.len - 1
      BY DEF Piece
  <2>3. [o EXCEPT !.ok = FALSE] \in Output
      BY <2>1 DEF Output
  <2> DEFINE bits == o.bits \cup {o.len + i : i \in c.bits}
  <2>4. \A i \in bits : i \in 0 .. (o.len + c.len) - 1
    <3>1. \A i \in o.bits : i \in 0 .. (o.len + c.len) - 1
        BY <2>1, <2>2
    <3>2. \A i \in c.bits : o.len + i \in 0 .. (o.len + c.len) - 1
        BY <2>1, <2>2
    <3> QED  BY <3>1, <3>2
  <2>5. o.len + c.len \in Nat
      BY <2>1, <2>2
  <2>6. bits \subseteq 0 .. (o.len + c.len) - 1 /\ bits \in SUBSET Nat
    <3> HIDE DEF bits
    <3> QED  BY <2>4, <2>5
  <2>7. [bits |-> bits, len |-> o.len + c.len, ok |-> TRUE] \in Output
    <3> HIDE DEF bits
    <3> QED  BY <2>5, <2>6 DEF Output
  <2> QED  BY <2>3, <2>7 DEF Write
<1> QED  BY <1>1, <1>2

-----------------------------------------------------------------------------
(* Writing: the pieces that are not refused stand one after the other.     *)

(* The output after the chunks of s whose indices are in t; g stands for   *)
(* the outputs after fewer.                                                *)
WRec(s, g, t) ==
    IF t = {} THEN Cleared ELSE Write(g[t \ {Max(t)}], s[Max(t)])

(* g is the table of the outputs for the sets of indices in D.             *)
IsWritten(s, g, D) == g = [t \in D |-> WRec(s, g, t)]

(* A set of indices without its greatest one.                              *)
LEMMA OneLess ==
    ASSUME NEW n \in Nat, NEW t \in SUBSET (1 .. n), t # {}
    PROVE  /\ Max(t) \in t
           /\ Cardinality(t) \in Nat
           /\ Cardinality(t \ {Max(t)}) = Cardinality(t) - 1
           /\ t \ {Max(t)} \in SUBSET (1 .. n)
<1>1. t \subseteq 0 .. n /\ t \subseteq 1 .. n
    OBVIOUS
<1>2. Max(t) \in t
    BY <1>1, MaxOf
<1>3. IsFiniteSet(t)
  <2>1. IsFiniteSet(1 .. n)
      BY FS_Interval
  <2> QED  BY <1>1, <2>1, FS_Subset
<1> QED  BY <1>2, <1>3, FS_RemoveElement, FS_CardinalityType

(* There is such a table for all the sets of indices up to n.              *)
LEMMA WritesExist ==
    ASSUME NEW n \in Nat, NEW s
    PROVE  \E g : IsWritten(s, g, SUBSET (1 .. n))
<1> DEFINE I == 1 .. n
           T == {m \in Nat : \E g : IsWritten(s, g, UpTo(I, m))}
<1>1. IsFiniteSet(I) /\ \A t \in SUBSET I : IsFiniteSet(t)
  <2>1. IsFiniteSet(I)
      BY FS_Interval
  <2> QED  BY <2>1, FS_Subset
<1>2. 0 \in T
  <2> DEFINE g == [t \in UpTo(I, 0) |-> Cleared]
  <2>1. \A t \in UpTo(I, 0) : t = {}
    <3> SUFFICES ASSUME NEW t \in UpTo(I, 0) PROVE t = {}
        OBVIOUS
    <3>1. IsFiniteSet(t) /\ Cardinality(t) \in Nat /\ Cardinality(t) <= 0
        BY <1>1, FS_CardinalityType DEF UpTo
    <3> QED  BY <3>1, FS_EmptySet
  <2>2. \A t \in UpTo(I, 0) : g[t] = WRec(s, g, t)
      BY <2>1 DEF WRec
  <2>3. IsWritten(s, g, UpTo(I, 0))
      BY <2>2 DEF IsWritten
  <2> QED  BY <2>3
<1>3. ASSUME NEW m \in T
      PROVE  m + 1 \in T
  <2>1. m \in Nat
      OBVIOUS
  <2>2. PICK g : IsWritten(s, g, UpTo(I, m))
      OBVIOUS
  <2> DEFINE h == [t \in UpTo(I, m + 1) |-> WRec(s, g, t)]
  <2>3. ASSUME NEW t \in UpTo(I, m + 1)
        PROVE  h[t] = WRec(s, h, t)
    <3>1. CASE t = {}
        BY <3>1 DEF WRec
    <3>2. CASE t # {}
      <4> DEFINE r == t \ {Max(t)}
      <4>1. /\ Cardinality(t) \in Nat /\ Cardinality(r) = Cardinality(t) - 1
            /\ r \in SUBSET I
        <5>1. t \in SUBSET (1 .. n)
            BY DEF UpTo
        <5> QED  BY <3>2, <5>1, OneLess
      <4>2. r \in UpTo(I, m) /\ r \in UpTo(I, m + 1)
          BY <2>1, <4>1 DEF UpTo
      <4>3. h[r] = g[r]
        <5>1. g[r] = WRec(s, g, r)
            BY <2>2, <4>2, Zenon DEF IsWritten
        <5>2. h[r] = WRec(s, g, r)
            BY <4>2
        <5> QED  BY <5>1, <5>2
      <4>4. h[t] = WRec(s, g, t)
          OBVIOUS
      <4> HIDE DEF h
      <4> QED  BY <3>2, <4>3, <4>4, Zenon DEF WRec
    <3> QED  BY <3>1, <3>2
  <2>4. IsWritten(s, h, UpTo(I, m + 1))
      BY <2>3 DEF IsWritten
  <2> HIDE DEF h
  <2>5. \E k : IsWritten(s, k, UpTo(I, m + 1))
      BY <2>4
  <2>6. m + 1 \in Nat
      BY <2>1
  <2> QED  BY <2>5, <2>6
<1>4. T = Nat
  <2> HIDE DEF T
  <2>1. T \subseteq Nat
      BY DEF T
  <2> QED  BY <1>2, <1>3, <2>1, Induction
<1>5. Cardinality(I) \in T
    BY <1>1, <1>4, FS_CardinalityType
<1>6. UpTo(I, Cardinality(I)) = SUBSET I
    BY <1>1, FS_Subset DEF UpTo
<1> QED  BY <1>5, <1>6

(* The table that the library chooses.                                     *)
Written(s) == CHOOSE g : g = [t \in SUBSET DOMAIN s |-> WRec(s, g, t)]

(* An entry of that table.                                                 *)
LEMMA WrittenOf ==
    ASSUME NEW n \in Nat, NEW s, DOMAIN s = 1 .. n, NEW t \in SUBSET (1 .. n)
    PROVE  Written(s)[t] = WRec(s, Written(s), t)
<1> DEFINE g == Written(s)
<1>1. \E f : IsWritten(s, f, SUBSET (1 .. n))
    BY WritesExist
<1>2. IsWritten(s, CHOOSE f : IsWritten(s, f, SUBSET (1 .. n)),
                SUBSET (1 .. n))
    BY <1>1, Zenon
<1>3. g = [r \in SUBSET (1 .. n) |-> WRec(s, g, r)]
    BY <1>2, Zenon DEF Written, IsWritten
<1> HIDE DEF g
<1>4. [r \in SUBSET (1 .. n) |-> WRec(s, g, r)][t] = WRec(s, g, t)
    OBVIOUS
<1>5. g[t] = [r \in SUBSET (1 .. n) |-> WRec(s, g, r)][t]
    BY <1>3, Zenon
<1> QED  BY <1>4, <1>5, Zenon DEF g

(* What SerializePacket writes is the entry for all the indices.           *)
LEMMA FoldIsWritten ==
    ASSUME NEW s
    PROVE  FoldLeft(Write, Cleared, s) = Written(s)[DOMAIN s]
BY Zenon DEF FoldLeft, MapThenFoldSet, Written, WRec

(* Serializing chunks writes them one by one.                              *)
LEMMA Writing ==
    ASSUME NEW O, NEW P, NEW s \in Seq(P), Cleared \in O,
           \A o \in O, c \in P : Write(o, c) \in O
    PROVE  \E w \in [0 .. Len(s) -> O] :
             /\ w[0] = Cleared
             /\ \A i \in 1 .. Len(s) : w[i] = Write(w[i - 1], s[i])
             /\ FoldLeft(Write, Cleared, s) = w[Len(s)]
<1> DEFINE n == Len(s)
           g == Written(s)
           F == [i \in Nat |-> g[1 .. i]]
           w == [i \in 0 .. n |-> F[i]]
           T == {i \in Nat : i <= n => F[i] \in O}
<1>1. n \in Nat /\ DOMAIN s = 1 .. n /\ \A i \in 1 .. n : s[i] \in P
    OBVIOUS
<1> HIDE DEF n
<1>2. \A t \in SUBSET (1 .. n) : g[t] = WRec(s, g, t)
    BY <1>1, WrittenOf
<1>3. FoldLeft(Write, Cleared, s) = g[1 .. n]
    BY <1>1, FoldIsWritten
<1> HIDE DEF g
<1>4. F[0] = Cleared
  <2>1. 1 .. 0 = {} /\ {} \in SUBSET (1 .. n) /\ F[0] = g[1 .. 0]
      OBVIOUS
  <2> QED  BY <1>2, <2>1, Zenon DEF WRec
<1>5. ASSUME NEW i \in 1 .. n
      PROVE  F[i] = Write(F[i - 1], s[i])
  <2>1. i \in Nat /\ i - 1 \in Nat /\ i \in 1 .. i /\ i <= n
      BY <1>1
  <2>2. (1 .. i) \ {i} = 1 .. i - 1
      BY <2>1
  <2>3. /\ i \in Nat /\ i - 1 \in Nat
        /\ 1 .. i \in SUBSET (1 .. n) /\ 1 .. i # {} /\ 1 .. i \subseteq 0 .. i
        /\ (1 .. i) \ {i} = 1 .. i - 1
    <3>1. \A x \in 1 .. i : x \in 1 .. n /\ x \in 0 .. i
        BY <1>1, <2>1
    <3> HIDE DEF F
    <3>2. 1 .. i \in SUBSET (1 .. n) /\ 1 .. i \subseteq 0 .. i
        BY <3>1
    <3>3. 1 .. i # {}
        BY <2>1
    <3> QED  BY <2>1, <2>2, <3>2, <3>3
  <2>4. Max(1 .. i) \in 1 .. i /\ \A x \in 1 .. i : x <= Max(1 .. i)
      BY <2>3, MaxOf
  <2>5. Max(1 .. i) = i
      BY <2>3, <2>4
  <2>6. F[i] = g[1 .. i] /\ F[i - 1] = g[1 .. i - 1]
      BY <2>3
  <2> HIDE DEF F
  <2>7. g[1 .. i] = WRec(s, g, 1 .. i)
      BY <1>2, <2>3
  <2> QED  BY <2>3, <2>5, <2>6, <2>7, Zenon DEF WRec
<1>6. FoldLeft(Write, Cleared, s) = F[n]
    BY <1>1, <1>3
<1> HIDE DEF F
<1>7. 0 \in T
    BY <1>4
<1>8. ASSUME NEW i \in T
      PROVE  i + 1 \in T
  <2>1. i \in Nat /\ (i + 1 <= n => i + 1 \in 1 .. n /\ (i + 1) - 1 = i)
      BY <1>1
  <2>2. i + 1 <= n => F[i + 1] = Write(F[i], s[i + 1])
      BY <1>5, <2>1
  <2>3. ASSUME i + 1 <= n
        PROVE  F[i + 1] \in O
    <3>1. F[i] \in O /\ s[i + 1] \in P
        BY <1>1, <2>1, <2>3
    <3> QED  BY <2>2, <2>3, <3>1
  <2> QED  BY <2>1, <2>3
<1>9. T = Nat
  <2> HIDE DEF T
  <2>1. T \subseteq Nat
      BY DEF T
  <2> QED  BY <1>7, <1>8, <2>1, Induction
<1>10. /\ w \in [0 .. n -> O] /\ w[0] = Cleared
       /\ FoldLeft(Write, Cleared, s) = w[n]
    BY <1>1, <1>4, <1>6, <1>9
<1>11. ASSUME NEW i \in 1 .. n
       PROVE  w[i] = Write(w[i - 1], s[i])
  <2>1. i \in 0 .. n /\ i - 1 \in 0 .. n
      BY <1>1
  <2>2. w[i] = F[i] /\ w[i - 1] = F[i - 1]
      BY <2>1
  <2> HIDE DEF w
  <2> QED  BY <1>5, <2>2
<1> QED  BY <1>10, <1>11 DEF n

(* A piece's length and bits.                                              *)
LEMMA PieceIs ==
    \A c \in Piece : /\ c.len \in Nat \ {0}
                     /\ c.bits \subseteq 0 .. c.len - 1
BY DEF Piece

(* What is in the array and how much.                                      *)
LEMMA OutputIs ==
    \A o \in Output : /\ o.len \in Nat /\ o.ok \in BOOLEAN
                      /\ o.bits \subseteq 0 .. o.len - 1
                      /\ o \in [bits : SUBSET Nat, len : Nat, ok : BOOLEAN]
BY DEF Output

(* The bits from p on are those of the piece c.                            *)
Holds(bits, p, c) == \A i \in 0 .. c.len - 1 : p + i \in bits <=> i \in c.bits

(* A piece that is written stands after the others, which stay as they are.*)
LEMMA WriteOk ==
    ASSUME NEW o \in Output, NEW c \in Piece, Write(o, c).ok
    PROVE  /\ o.ok
           /\ Write(o, c).len = o.len + c.len
           /\ Holds(Write(o, c).bits, o.len, c)
           /\ \A p \in Nat, d \in Piece :
                 p + d.len <= o.len /\ Holds(o.bits, p, d)
                     => Holds(Write(o, c).bits, p, d)
<1> DEFINE bits == o.bits \cup {o.len + i : i \in c.bits}
<1>1. /\ o.len \in Nat /\ o.bits \subseteq 0 .. o.len - 1
      /\ o \in [bits : SUBSET Nat, len : Nat, ok : BOOLEAN]
      /\ c.len \in Nat \ {0} /\ c.bits \subseteq 0 .. c.len - 1
    BY OutputIs, PieceIs
<1>2. [o EXCEPT !.ok = FALSE].ok = FALSE
    BY <1>1
<1>3. /\ o.ok
      /\ Write(o, c) = [bits |-> bits, len |-> o.len + c.len, ok |-> TRUE]
    BY <1>2, Zenon DEF Write
<1>4. Write(o, c).len = o.len + c.len /\ Write(o, c).bits = bits
    BY <1>3
<1>5. \A k \in 0 .. c.len - 1 : o.len + k \in bits <=> k \in c.bits
  <2> SUFFICES ASSUME NEW k \in 0 .. c.len - 1
               PROVE  o.len + k \in bits <=> k \in c.bits
      OBVIOUS
  <2>1. o.len + k \notin o.bits
      BY <1>1
  <2>2. \A j \in c.bits : o.len + j = o.len + k => j = k
      BY <1>1
  <2> QED  BY <2>1, <2>2
<1>6. \A k \in Nat : k < o.len => (k \in bits <=> k \in o.bits)
  <2> SUFFICES ASSUME NEW k \in Nat, k < o.len, k \in bits
               PROVE  k \in o.bits
      OBVIOUS
  <2>1. \A j \in c.bits : o.len + j # k
      BY <1>1
  <2> QED  BY <2>1
<1> HIDE DEF bits
<1>7. ASSUME NEW p \in Nat, NEW d \in Piece,
             p + d.len <= o.len, Holds(o.bits, p, d)
      PROVE  Holds(bits, p, d)
  <2>1. d.len \in Nat
      BY PieceIs
  <2>2. \A k \in 0 .. d.len - 1 : p + k \in Nat /\ p + k < o.len
      BY <1>1, <1>7, <2>1
  <2> QED  BY <1>6, <1>7, <2>2 DEF Holds
<1> QED  BY <1>3, <1>4, <1>5, <1>7 DEF Holds

(* Where the pieces are that were written.                                 *)
LEMMA WrittenAt ==
    ASSUME NEW s \in Seq(Piece), FoldLeft(Write, Cleared, s).ok
    PROVE  \E e \in [0 .. Len(s) -> Nat] :
             /\ e[0] = 0 /\ e[Len(s)] = FoldLeft(Write, Cleared, s).len
             /\ \A k \in 1 .. Len(s) :
                   /\ e[k] = e[k - 1] + s[k].len
                   /\ Holds(FoldLeft(Write, Cleared, s).bits, e[k - 1], s[k])
<1> DEFINE n == Len(s)
           out1 == FoldLeft(Write, Cleared, s)
<1>1. n \in Nat /\ \A k \in 1 .. n : s[k] \in Piece
    OBVIOUS
<1>2. PICK w \in [0 .. n -> Output] :
          /\ w[0] = Cleared
          /\ \A k \in 1 .. n : w[k] = Write(w[k - 1], s[k])
          /\ out1 = w[n]
    BY WriteType, Writing
<1> HIDE DEF n, out1
<1>3. \A m \in Nat : m + 1 <= n =>
           \A k \in 1 .. m : k \in 0 .. n /\ k - 1 \in 0 .. n /\ k \in 1 .. n
    BY <1>1
<1> DEFINE e == [k \in 0 .. n |-> w[k].len]
           Good(m) == \A k \in 1 .. m :
                        /\ e[k] = e[k - 1] + s[k].len
                        /\ e[k] <= e[m]
                        /\ Holds(w[m].bits, e[k - 1], s[k])
           T == {m \in Nat : m <= n /\ w[m].ok => Good(m)}
<1>4. e \in [0 .. n -> Nat] /\ \A k \in 0 .. n : e[k] = w[k].len
    BY OutputIs
<1> HIDE DEF e
<1>5. 0 \in T
    OBVIOUS
<1>6. ASSUME NEW m \in T
      PROVE  m + 1 \in T
  <2>1. m \in Nat /\ m + 1 \in Nat
      OBVIOUS
  <2> SUFFICES ASSUME m + 1 <= n, w[m + 1].ok
               PROVE  Good(m + 1)
      BY <2>1
  <2>2. /\ m + 1 \in 1 .. n /\ m \in 0 .. n /\ m + 1 \in 0 .. n
        /\ (m + 1) - 1 = m /\ m <= n
      BY <1>1, <2>1
  <2>3. /\ w[m + 1] = Write(w[m], s[m + 1])
        /\ w[m] \in Output /\ s[m + 1] \in Piece
      BY <1>1, <1>2, <2>2
  <2>4. /\ w[m].ok
        /\ w[m + 1].len = w[m].len + s[m + 1].len
        /\ Holds(w[m + 1].bits, w[m].len, s[m + 1])
        /\ \A p \in Nat, d \in Piece :
              p + d.len <= w[m].len /\ Holds(w[m].bits, p, d)
                  => Holds(w[m + 1].bits, p, d)
      BY <2>3, WriteOk
  <2>5. Good(m)
      BY <2>2, <2>4
  <2>6. /\ e[m] = w[m].len /\ e[m + 1] = w[m + 1].len
        /\ e[m + 1] = e[m] + s[m + 1].len
      BY <1>4, <2>2, <2>4
  <2>7. e[m] \in Nat /\ s[m + 1].len \in Nat /\ e[m] <= e[m + 1]
      BY <1>4, <2>2, <2>3, <2>6, PieceIs
  <2> HIDE DEF T
  <2>8. ASSUME NEW k \in 1 .. m
        PROVE  /\ e[k] = e[k - 1] + s[k].len
               /\ e[k] <= e[m + 1]
               /\ Holds(w[m + 1].bits, e[k - 1], s[k])
    <3>1. /\ k \in 0 .. n /\ k - 1 \in 0 .. n /\ k \in 1 .. n
        BY <1>3, <2>1
    <3>2. /\ e[k] \in Nat /\ e[k - 1] \in Nat /\ s[k] \in Piece
        BY <1>1, <1>4, <3>1
    <3>3. /\ e[k] = e[k - 1] + s[k].len /\ e[k] <= e[m]
          /\ Holds(w[m].bits, e[k - 1], s[k])
        BY <2>5
    <3>4. e[k - 1] + s[k].len <= w[m].len
        BY <2>6, <3>3
    <3>5. Holds(w[m + 1].bits, e[k - 1], s[k])
        BY <2>4, <3>2, <3>3, <3>4
    <3>6. e[k] <= e[m + 1]
      <4>1. e[m + 1] \in Nat
          BY <1>4, <2>2
      <4> QED  BY <2>7, <3>2, <3>3, <4>1
    <3> QED  BY <3>3, <3>5, <3>6
  <2>9. /\ e[m + 1] = e[(m + 1) - 1] + s[m + 1].len
        /\ e[m + 1] <= e[m + 1]
        /\ Holds(w[m + 1].bits, e[(m + 1) - 1], s[m + 1])
    <3>1. e[m + 1] \in Nat
        BY <1>4, <2>2
    <3> QED  BY <2>2, <2>4, <2>6, <3>1
  <2>10. \A k \in 1 .. m + 1 : k \in 1 .. m \/ k = m + 1
      BY <2>1
  <2> QED  BY <2>8, <2>9, <2>10
<1>7. T = Nat
  <2> HIDE DEF T
  <2>1. T \subseteq Nat
      BY DEF T
  <2> QED  BY <1>5, <1>6, <2>1, Induction
<1>8. Good(n)
    BY <1>1, <1>2, <1>7 DEF out1
<1>9. /\ e[0] = 0 /\ e[n] = out1.len
  <2>1. 0 \in 0 .. n /\ n \in 0 .. n
      BY <1>1
  <2> QED  BY <1>2, <1>4, <2>1 DEF Cleared
<1>10. \A k \in 1 .. n : /\ e[k] = e[k - 1] + s[k].len
                        /\ Holds(out1.bits, e[k - 1], s[k])
    BY <1>2, <1>8
<1> QED  BY <1>4, <1>9, <1>10 DEF n, out1

-----------------------------------------------------------------------------
(* Where the pieces of a sequence, and of a sequence of sequences, stand.  *)

(* The pieces cs stand in bits from p to e, one after the other.           *)
Laid(bits, p, cs, e) ==
    \E q \in [0 .. Len(cs) -> Nat] :
        /\ q[0] = p /\ q[Len(cs)] = e
        /\ \A k \in 1 .. Len(cs) : /\ q[k] = q[k - 1] + cs[k].len
                                   /\ Holds(bits, q[k - 1], cs[k])

(* All that SerializePacket writes stands one after the other, if none of  *)
(* it was refused.                                                         *)
LEMMA WrittenIsLaid ==
    ASSUME NEW s \in Seq(Piece), FoldLeft(Write, Cleared, s).ok
    PROVE  Laid(FoldLeft(Write, Cleared, s).bits, 0, s,
                FoldLeft(Write, Cleared, s).len)
BY WrittenAt DEF Laid

(* Of many sequences of pieces each stands where the one before it ends.   *)
(* The sequences of pieces fs stand one after the other.                   *)
LaidAll(bits, b, fs, e) ==
    \E E \in [0 .. Len(fs) -> Nat] :
        /\ E[0] = b /\ E[Len(fs)] = e
        /\ \A k \in 1 .. Len(fs) : Laid(bits, E[k - 1], fs[k], E[k])

(* Concatenated pieces that stand in the array stand there field by field. *)
LEMMA LaidFields ==
    ASSUME NEW bits, NEW b \in Nat, NEW e \in Nat,
           NEW fs \in Seq(Seq(Piece)),
           Laid(bits, b, FlattenSeq(fs), e)
    PROVE  LaidAll(bits, b, fs, e)
<1> DEFINE n == Len(fs)
<1>1. n \in Nat /\ \A k \in 1 .. n : fs[k] \in Seq(Piece) /\ Len(fs[k]) \in Nat
    OBVIOUS
<1>2. PICK p \in [0 .. n -> Seq(Piece)] :
          /\ p[0] = <<>>
          /\ \A k \in 1 .. n : p[k] = p[k - 1] \o fs[k]
          /\ FlattenSeq(fs) = p[n]
          /\ \A i \in 0 .. n :
                /\ Len(p[i]) <= Len(p[n])
                /\ \A k \in 1 .. Len(p[i]) : p[n][k] = p[i][k]
    BY FlattenPrefixes
<1> HIDE DEF n
<1>3. PICK q \in [0 .. Len(p[n]) -> Nat] :
          /\ q[0] = b /\ q[Len(p[n])] = e
          /\ \A k \in 1 .. Len(p[n]) : /\ q[k] = q[k - 1] + p[n][k].len
                                       /\ Holds(bits, q[k - 1], p[n][k])
    BY <1>2 DEF Laid
<1>4. \A k \in 0 .. n : /\ p[k] \in Seq(Piece) /\ Len(p[k]) \in Nat
                        /\ Len(p[k]) <= Len(p[n])
                        /\ \A j \in 1 .. Len(p[k]) : p[n][j] = p[k][j]
  <2> SUFFICES ASSUME NEW k \in 0 .. n
               PROVE  p[k] \in Seq(Piece) /\ Len(p[k]) \in Nat
      BY <1>2
  <2>1. p[k] \in Seq(Piece)
      OBVIOUS
  <2> QED  BY <2>1
<1> DEFINE E == [k \in 0 .. n |-> q[Len(p[k])]]
<1>5. E \in [0 .. n -> Nat] /\ \A k \in 0 .. n : E[k] = q[Len(p[k])]
  <2>1. n \in 0 .. n
      BY <1>1
  <2>2. \A k \in 0 .. n : Len(p[k]) \in 0 .. Len(p[n])
      BY <1>4, <2>1
  <2> QED  BY <1>3, <2>2
<1> HIDE DEF E
<1>6. E[0] = b /\ E[n] = e
  <2>1. 0 \in 0 .. n /\ n \in 0 .. n /\ Len(p[0]) = 0
      BY <1>1, <1>2
  <2> QED  BY <1>3, <1>5, <2>1
<1>7. ASSUME NEW k \in 1 .. n
      PROVE  Laid(bits, E[k - 1], fs[k], E[k])
  <2>1. k \in 0 .. n /\ k - 1 \in 0 .. n
      BY <1>1
  <2> DEFINE a == Len(p[k - 1])
             l == Len(fs[k])
             r == [j \in 0 .. l |-> q[a + j]]
  <2>2. /\ p[k - 1] \in Seq(Piece) /\ fs[k] \in Seq(Piece)
        /\ p[k] = p[k - 1] \o fs[k]
    <3>1. p[k - 1] \in Seq(Piece)
        BY <2>1
    <3>2. p[k] = p[k - 1] \o fs[k]
        BY <1>2
    <3> QED  BY <1>1, <3>1, <3>2
  <2>3. /\ a \in Nat /\ l \in Nat /\ Len(p[k]) = a + l
        /\ \A j \in 1 .. l : p[k][a + j] = fs[k][j]
    <3> DEFINE x == p[k - 1]
               y == fs[k]
               z == p[k]
    <3>1. x \in Seq(Piece) /\ y \in Seq(Piece) /\ z = x \o y
        BY <2>2
    <3> HIDE DEF x, y, z
    <3>2. /\ Len(x) \in Nat /\ Len(y) \in Nat /\ Len(z) = Len(x) + Len(y)
          /\ \A j \in 1 .. Len(y) : z[Len(x) + j] = y[j]
        BY <3>1, Concatenated
    <3> QED  BY <3>2 DEF x, y, z
  <2>4. /\ Len(p[n]) \in Nat /\ a + l <= Len(p[n])
        /\ \A j \in 1 .. a + l : p[n][j] = p[k][j]
    <3>1. n \in 0 .. n
        BY <1>1
    <3> QED  BY <1>4, <2>1, <2>3, <3>1
  <2>5. E[k - 1] = q[a] /\ E[k] = q[a + l]
      BY <1>5, <2>1, <2>3
  <2> HIDE DEF a, l
  <2>6. \A j \in 0 .. l : a + j \in 0 .. Len(p[n])
      BY <2>3, <2>4
  <2>7. r \in [0 .. l -> Nat]
      BY <1>3, <2>6
  <2>8. r[0] = E[k - 1] /\ r[l] = E[k]
    <3>1. 0 \in 0 .. l /\ l \in 0 .. l /\ a + 0 = a
        BY <2>3
    <3> QED  BY <2>5, <3>1
  <2>9. ASSUME NEW j \in 1 .. l
        PROVE  /\ r[j] = r[j - 1] + fs[k][j].len
               /\ Holds(bits, r[j - 1], fs[k][j])
    <3>1. /\ j \in 0 .. l /\ j - 1 \in 0 .. l /\ a + j \in 1 .. Len(p[n])
          /\ a + j \in 1 .. a + l /\ a + (j - 1) = (a + j) - 1
        BY <2>3, <2>4
    <3>2. p[n][a + j] = fs[k][j]
        BY <2>3, <2>4, <3>1
    <3>3. r[j] = q[a + j] /\ r[j - 1] = q[(a + j) - 1]
        BY <3>1
    <3> HIDE DEF r
    <3> QED  BY <1>3, <3>1, <3>2, <3>3
  <2> HIDE DEF r
  <2>10. /\ r \in [0 .. Len(fs[k]) -> Nat]
         /\ r[0] = E[k - 1] /\ r[Len(fs[k])] = E[k]
         /\ \A j \in 1 .. Len(fs[k]) : /\ r[j] = r[j - 1] + fs[k][j].len
                                       /\ Holds(bits, r[j - 1], fs[k][j])
      BY <2>7, <2>8, <2>9 DEF l
  <2> QED  BY <2>10 DEF Laid
<1> QED  BY <1>5, <1>6, <1>7 DEF n, LaidAll

(* Pieces end where they begin, or later.                                  *)
LEMMA LaidForward ==
    ASSUME NEW bits, NEW p, NEW e, NEW cs \in Seq(Piece),
           Laid(bits, p, cs, e)
    PROVE  p \in Nat /\ e \in Nat /\ p <= e
<1> DEFINE n == Len(cs)
<1>1. n \in Nat /\ \A k \in 1 .. n : cs[k] \in Piece
    OBVIOUS
<1> HIDE DEF n
<1>2. PICK q \in [0 .. n -> Nat] :
         /\ q[0] = p /\ q[n] = e
         /\ \A k \in 1 .. n : q[k] = q[k - 1] + cs[k].len
    BY DEF Laid, n
<1>3. ASSUME NEW k \in 1 .. n
      PROVE  q[k - 1] <= q[k]
  <2>1. k \in 0 .. n /\ k - 1 \in 0 .. n
      BY <1>1
  <2>2. q[k] \in Nat /\ q[k - 1] \in Nat /\ cs[k].len \in Nat
      BY <1>1, <2>1, PieceIs
  <2> QED  BY <1>2, <2>2
<1>4. q[0] <= q[n]
  <2>1. \A k \in 1 .. n : q[k - 1] <= q[k]
      BY <1>3
  <2>2. 0 \in 0 .. n
      BY <1>1
  <2> QED  BY <1>1, <2>1, <2>2, Monotone
<1>5. q[0] \in Nat /\ q[n] \in Nat
  <2>1. 0 \in 0 .. n /\ n \in 0 .. n
      BY <1>1
  <2> QED  BY <2>1
<1> QED  BY <1>2, <1>4, <1>5

(* Where one piece stands.                                                 *)
LEMMA LaidOne ==
    ASSUME NEW bits, NEW p, NEW e, NEW c \in Piece,
           Laid(bits, p, <<c>>, e)
    PROVE  p \in Nat /\ Holds(bits, p, c) /\ e = p + c.len
<1>1. PICK q \in [0 .. 1 -> Nat] :
         /\ q[0] = p /\ q[1] = e
         /\ \A k \in 1 .. 1 : /\ q[k] = q[k - 1] + <<c>>[k].len
                              /\ Holds(bits, q[k - 1], <<c>>[k])
    BY DEF Laid
<1>2. 0 \in 0 .. 1 /\ 1 \in 1 .. 1 /\ 1 - 1 = 0 /\ <<c>>[1] = c
    OBVIOUS
<1> QED  BY <1>1, <1>2

(* Where two pieces stand.                                                 *)
LEMMA LaidTwo ==
    ASSUME NEW bits, NEW p, NEW e, NEW c \in Piece, NEW d \in Piece,
           Laid(bits, p, <<c, d>>, e)
    PROVE  /\ p \in Nat /\ e = p + c.len + d.len
           /\ Holds(bits, p, c) /\ Holds(bits, p + c.len, d)
<1> DEFINE cs == <<c, d>>
<1>1. Len(cs) = 2 /\ cs[1] = c /\ cs[2] = d
    OBVIOUS
<1>2. Laid(bits, p, cs, e)
    OBVIOUS
<1> HIDE DEF cs
<1>3. PICK q \in [0 .. 2 -> Nat] :
         /\ q[0] = p /\ q[2] = e
         /\ \A k \in 1 .. 2 : /\ q[k] = q[k - 1] + cs[k].len
                              /\ Holds(bits, q[k - 1], cs[k])
    BY <1>1, <1>2 DEF Laid
<1>4. /\ 0 \in 0 .. 2 /\ 1 \in 0 .. 2 /\ 1 \in 1 .. 2 /\ 2 \in 1 .. 2
      /\ 1 - 1 = 0 /\ 2 - 1 = 1
    OBVIOUS
<1>5. q[1] = p + c.len /\ Holds(bits, p, c)
    BY <1>1, <1>3, <1>4
<1>6. e = q[1] + d.len /\ Holds(bits, q[1], d)
    BY <1>1, <1>3, <1>4
<1>7. p \in Nat
    BY <1>3, <1>4
<1> QED  BY <1>5, <1>6, <1>7

(* Two pieces that stand one after the other.                              *)
LEMMA LaidPair ==
    ASSUME NEW bits, NEW p, NEW e, NEW c \in Piece, NEW d \in Piece,
           p \in Nat, e = p + c.len + d.len,
           Holds(bits, p, c), Holds(bits, p + c.len, d)
    PROVE  Laid(bits, p, <<c, d>>, e)
<1> DEFINE cs == <<c, d>>
           q == [k \in 0 .. 2 |-> IF k = 0 THEN p
                                  ELSE IF k = 1 THEN p + c.len ELSE e]
<1>1. Len(cs) = 2 /\ cs[1] = c /\ cs[2] = d
    OBVIOUS
<1> HIDE DEF cs
<1>2. c.len \in Nat /\ d.len \in Nat
    BY PieceIs
<1>3. q \in [0 .. 2 -> Nat] /\ q[0] = p /\ q[1] = p + c.len /\ q[2] = e
    BY <1>2
<1>4. \A k \in 1 .. 2 : (k = 1 /\ k - 1 = 0) \/ (k = 2 /\ k - 1 = 1)
    OBVIOUS
<1> HIDE DEF q
<1>5. \A k \in 1 .. 2 : /\ q[k] = q[k - 1] + cs[k].len
                        /\ Holds(bits, q[k - 1], cs[k])
    BY <1>1, <1>3, <1>4
<1>6. Laid(bits, p, cs, e)
    BY <1>1, <1>3, <1>5 DEF Laid
<1> QED  BY <1>6 DEF cs

(* The first of two sequences of pieces ends where the second begins.      *)
LEMMA LaidSplit ==
    ASSUME NEW bits, NEW p, NEW e,
           NEW s \in Seq(Piece), NEW t \in Seq(Piece), Laid(bits, p, s \o t, e)
    PROVE  \E m : Laid(bits, p, s, m) /\ Laid(bits, m, t, e)
<1> DEFINE st == s \o t
           a == Len(s)
           b == Len(t)
<1>1. /\ a \in Nat /\ b \in Nat /\ Len(st) = a + b
      /\ \A k \in 1 .. a : st[k] = s[k]
      /\ \A k \in 1 .. b : st[a + k] = t[k]
    BY Concatenated
<1>2. Laid(bits, p, st, e)
    OBVIOUS
<1> HIDE DEF st
<1>3. PICK q \in [0 .. a + b -> Nat] :
          /\ q[0] = p /\ q[a + b] = e
          /\ \A k \in 1 .. a + b : /\ q[k] = q[k - 1] + st[k].len
                                   /\ Holds(bits, q[k - 1], st[k])
    BY <1>1, <1>2 DEF Laid
<1> HIDE DEF a, b
<1> DEFINE q1 == [k \in 0 .. a |-> q[k]]
           q2 == [k \in 0 .. b |-> q[a + k]]
<1>4. /\ q1 \in [0 .. a -> Nat] /\ q1[0] = p /\ q1[a] = q[a]
      /\ \A k \in 0 .. a : q1[k] = q[k]
    BY <1>1, <1>3
<1>5. /\ q2 \in [0 .. b -> Nat] /\ q2[0] = q[a] /\ q2[b] = e
      /\ \A k \in 0 .. b : q2[k] = q[a + k]
    BY <1>1, <1>3
<1> HIDE DEF q1, q2
<1>6. \A k \in 1 .. a : /\ q1[k] = q1[k - 1] + s[k].len
                        /\ Holds(bits, q1[k - 1], s[k])
  <2> SUFFICES ASSUME NEW k \in 1 .. a
               PROVE  /\ q1[k] = q1[k - 1] + s[k].len
                      /\ Holds(bits, q1[k - 1], s[k])
      OBVIOUS
  <2>1. k \in 1 .. a + b /\ k \in 0 .. a /\ k - 1 \in 0 .. a
      BY <1>1
  <2>2. q1[k] = q[k] /\ q1[k - 1] = q[k - 1] /\ st[k] = s[k]
      BY <1>1, <1>4, <2>1
  <2>3. q[k] = q[k - 1] + st[k].len /\ Holds(bits, q[k - 1], st[k])
      BY <1>3, <2>1
  <2> QED  BY <2>2, <2>3
<1>7. \A k \in 1 .. b : /\ q2[k] = q2[k - 1] + t[k].len
                        /\ Holds(bits, q2[k - 1], t[k])
  <2> SUFFICES ASSUME NEW k \in 1 .. b
               PROVE  /\ q2[k] = q2[k - 1] + t[k].len
                      /\ Holds(bits, q2[k - 1], t[k])
      OBVIOUS
  <2>1. /\ a + k \in 1 .. a + b /\ k \in 0 .. b /\ k - 1 \in 0 .. b
        /\ a + (k - 1) = (a + k) - 1
      BY <1>1
  <2>2. /\ q2[k] = q[a + k] /\ q2[k - 1] = q[(a + k) - 1]
        /\ st[a + k] = t[k]
      BY <1>1, <1>5, <2>1
  <2>3. /\ q[a + k] = q[(a + k) - 1] + st[a + k].len
        /\ Holds(bits, q[(a + k) - 1], st[a + k])
      BY <1>3, <2>1
  <2> QED  BY <2>2, <2>3
<1>8. Laid(bits, p, s, q[a])
    BY <1>4, <1>6 DEF Laid, a
<1>9. Laid(bits, q[a], t, e)
    BY <1>5, <1>7 DEF Laid, b
<1> QED  BY <1>8, <1>9

-----------------------------------------------------------------------------
(* Reading numbers, booleans and doubles.                                  *)

(* n bits of the piece c, from bit k on.                                   *)
Slice(c, k, n) == {i \in 0 .. n - 1 : k + i \in c.bits}

(* What is read where the piece c stands.                                  *)
LEMMA ReadPiece ==
    ASSUME wire.size \in Nat, NEW p \in Nat, NEW c \in Piece,
           Holds(wire.bits, p, c),
           NEW k \in Nat, NEW n \in Nat, k + n <= c.len,
           BytesLeft(p + k + n)
    PROVE  ReadBits(p + k, n) = Slice(c, k, n)
<1>1. c.len \in Nat
    BY PieceIs
<1>2. ASSUME NEW i \in 0 .. n - 1
      PROVE  /\ (p + k) + i < 8 * wire.size
             /\ (p + k) + i \in wire.bits <=> k + i \in c.bits
  <2>1. k + i \in 0 .. c.len - 1
      BY <1>1
  <2>2. (p + k) + i = p + (k + i) /\ (p + k) + i < 8 * wire.size
      BY DEF BytesLeft
  <2> QED  BY <2>1, <2>2 DEF Holds
<1> QED  BY <1>2 DEF ReadBits, Slice

(* The same for its first bits.                                            *)
LEMMA ReadFirst ==
    ASSUME wire.size \in Nat, NEW p \in Nat, NEW c \in Piece,
           Holds(wire.bits, p, c),
           NEW n \in Nat, n <= c.len, BytesLeft(p + n)
    PROVE  ReadBits(p, n) = {i \in 0 .. n - 1 : i \in c.bits}
<1>1. c.len \in Nat
    BY PieceIs
<1>2. ASSUME NEW i \in 0 .. n - 1
      PROVE  p + i < 8 * wire.size /\ (p + i \in wire.bits <=> i \in c.bits)
  <2>1. i \in 0 .. c.len - 1
      BY <1>1
  <2>2. p + i < 8 * wire.size
      BY DEF BytesLeft
  <2> QED  BY <2>1, <2>2 DEF Holds
<1> QED  BY <1>2 DEF ReadBits

(* As many bits are read as are asked for.                                 *)
LEMMA ReadBitsType ==
    \A p, n : ReadBits(p, n) \in SUBSET (0 .. n - 1)
BY DEF ReadBits

(* A header's number is a size of the type, whatever the bits are.         *)
LEMMA SizeType ==
    ASSUME NEW p, NEW width \in Widths
    PROVE  SizeFrom(p, HeaderBits[width]) \in 1 .. width
<1> DEFINE v == ReadBits(p, HeaderBits[width])
<1>1. v \in SUBSET (0 .. HeaderBits[width] - 1)
    BY ReadBitsType
<1>2. SizeFrom(p, HeaderBits[width]) = 1 + Number(v)
    BY DEF SizeFrom
<1> HIDE DEF v
<1>3. v \in SUBSET (0 .. 7)
  <2>1. HeaderBits[width] \in 3 .. 6
      BY HeaderBitsIs
  <2>2. \A i \in 0 .. HeaderBits[width] - 1 : i \in 0 .. 7
      BY <2>1
  <2> QED  BY <1>1, <2>2
<1>4. /\ width = 8 => v \subseteq 0 .. 2
      /\ width = 16 => v \subseteq 0 .. 3
      /\ width = 32 => v \subseteq 0 .. 4
      /\ width = 64 => v \subseteq 0 .. 5
    BY <1>1, HeaderBitsIs
<1>5. /\ Number(v) \in Nat
      /\ v \subseteq 0 .. 5 => Number(v) <= 63
      /\ v \subseteq 0 .. 4 => Number(v) <= 31
      /\ v \subseteq 0 .. 3 => Number(v) <= 15
      /\ v \subseteq 0 .. 2 => Number(v) <= 7
    BY <1>3, NumberFits
<1>6. Number(v) \in Nat /\ Number(v) <= width - 1
    BY <1>4, <1>5 DEF Widths
<1> QED  BY <1>2, <1>6, HeaderBitsIs

(* A header that was received whole gives the size that was written.       *)
LEMMA HeaderRead ==
    ASSUME wire.size \in Nat, NEW width \in Widths,
           NEW size \in 1 .. width, NEW p \in Nat,
           Holds(wire.bits, p, Header(size, width)),
           BytesLeft(p + HeaderBits[width])
    PROVE  SizeFrom(p, HeaderBits[width]) = size
<1> DEFINE h == Header(size, width)
           n == HeaderBits[width]
           b == Binary(size - 1, n)
<1>1. h \in Piece /\ h.bits = b /\ h.len = n /\ n \in Nat
    BY HeaderIs, HeaderBitsIs
<1>2. b \in SUBSET (0 .. n - 1)
    BY BinaryType
<1>3. Holds(wire.bits, p, h) /\ BytesLeft(p + n)
    OBVIOUS
<1>4. /\ width = 8 => Number(Binary(size - 1, 3)) = size - 1
      /\ width = 16 => Number(Binary(size - 1, 4)) = size - 1
      /\ width = 32 => Number(Binary(size - 1, 5)) = size - 1
      /\ width = 64 => Number(Binary(size - 1, 6)) = size - 1
  <2>1. /\ width = 8 => size - 1 \in 0 .. 7
        /\ width = 16 => size - 1 \in 0 .. 15
        /\ width = 32 => size - 1 \in 0 .. 31
        /\ width = 64 => size - 1 \in 0 .. 63
      OBVIOUS
  <2> QED  BY <2>1, NumberOfBinary
<1>5. Number(b) = size - 1
    BY <1>4, HeaderBitsIs DEF Widths
<1> HIDE DEF h, n, b
<1>6. n <= h.len
    BY <1>1
<1>7. ReadBits(p, n) = {i \in 0 .. n - 1 : i \in h.bits}
    BY <1>1, <1>3, <1>6, ReadFirst
<1>8. ReadBits(p, n) = b
  <2>1. h.bits = b
      BY <1>1
  <2>2. ReadBits(p, n) = {i \in 0 .. n - 1 : i \in b}
      BY <1>7, <2>1, Zenon
  <2>3. {i \in 0 .. n - 1 : i \in b} = b
      BY <1>2
  <2> QED  BY <2>2, <2>3, Zenon
<1>9. SizeFrom(p, n) = 1 + (size - 1)
    BY <1>5, <1>8 DEF SizeFrom
<1> QED  BY <1>9 DEF n

(* Two's complement: the lowest bit stays, and those above are inverted.   *)
LEMMA NegateIs ==
    ASSUME NEW width \in Nat, NEW v \in SUBSET (0 .. width - 1),
           NEW l \in v, \A j \in v : l <= j
    PROVE  /\ Negate(v, width) \in SUBSET (0 .. width - 1)
           /\ \A i \in 0 .. width - 1 :
                i \in Negate(v, width) <=> i = l \/ (i \notin v /\ l < i)
<1>1. l \in Nat /\ \A j \in v : j \in Nat
    OBVIOUS
<1>2. ASSUME NEW i \in 0 .. width - 1
      PROVE  /\ (i \in v /\ \A j \in v : i <= j) <=> i = l
             /\ (\E j \in v : j < i) <=> l < i
    BY <1>1
<1> QED  BY <1>2, Zenon DEF Negate

(* Twice the negation of a number that is not 0 is the number.             *)
LEMMA NegateTwice ==
    ASSUME NEW width \in Nat, NEW v \in SUBSET (0 .. width - 1), v # {}
    PROVE  Negate(Negate(v, width), width) = v
<1> DEFINE m == Negate(v, width)
<1>1. v \subseteq Nat
    OBVIOUS
<1>2. PICK l \in v : \A j \in v : l <= j
    BY <1>1, LeastNumber
<1>3. /\ m \in SUBSET (0 .. width - 1)
      /\ \A i \in 0 .. width - 1 :
            i \in m <=> i = l \/ (i \notin v /\ l < i)
    BY <1>2, NegateIs
<1> HIDE DEF m
<1>4. l \in m /\ \A j \in m : l <= j
    BY <1>1, <1>3
<1>5. /\ Negate(m, width) \in SUBSET (0 .. width - 1)
      /\ \A i \in 0 .. width - 1 :
            i \in Negate(m, width) <=> i = l \/ (i \notin m /\ l < i)
    BY <1>3, <1>4, NegateIs
<1>6. ASSUME NEW i \in 0 .. width - 1
      PROVE  i \in Negate(m, width) <=> i \in v
  <2>1. i \in v => l <= i
      BY <1>2
  <2>2. l \in Nat
      BY <1>1
  <2> QED  BY <1>3, <1>5, <2>1, <2>2
<1>7. Negate(m, width) = v
    BY <1>5, <1>6
<1> QED  BY <1>7 DEF m

(* The parts of what a read returns.                                       *)
LEMMA ReadIs ==
    \A ok, value, p : /\ Read(ok, value, p).ok = ok
                      /\ Read(ok, value, p).value = value
                      /\ Read(ok, value, p).pos = p
BY DEF Read

(* An unsigned integer is read back if it was received whole, and the      *)
(* position after it is right whenever it is accepted (DeserializeUInt).   *)
LEMMA UIntRead ==
    ASSUME wire.size \in Nat,
           NEW width \in Widths, NEW v \in SUBSET (0 .. width - 1),
           NEW p, NEW e, Laid(wire.bits, p, UIntChunks(v, width), e)
    PROVE  /\ p \in Nat /\ e \in Nat /\ p < e
           /\ ReadUInt(p, width).value \in SUBSET (0 .. width - 1)
           /\ ReadUInt(p, width).ok =>
                 BytesLeft(p) /\ ReadUInt(p, width).pos = e
           /\ BytesLeft(e) =>
                 ReadUInt(p, width).ok /\ ReadUInt(p, width).value = v
<1> DEFINE hb == HeaderBits[width]
           body == p + hb
           n == SizeFrom(p, hb)
           size == Bitsize(v)
           h == Header(size, width)
           c == Chunk(v, size)
           r == ReadUInt(p, width)
<1>1. hb \in Nat \ {0}
    BY HeaderBitsIs
<1>2. size \in 1 .. width /\ v \in SUBSET (0 .. size - 1)
  <2>1. width - 1 \in Nat /\ (width - 1) + 1 = width
      BY HeaderBitsIs
  <2>2. /\ Bitsize(v) \in 1 .. (width - 1) + 1
        /\ v \subseteq 0 .. Bitsize(v) - 1
      BY <2>1, BitsizeIs
  <2> QED  BY <2>1, <2>2
<1>3. h \in Piece /\ h.len = hb
    BY HeaderIs
<1>4. c \in Piece /\ c.bits = v /\ c.len = size
  <2>1. size \in Nat \ {0}
      BY <1>2
  <2> QED  BY <1>2, <2>1, ChunkIsPiece
<1>5. Laid(wire.bits, p, <<h, c>>, e)
    BY DEF UIntChunks
<1>6. /\ r.ok <=> BytesLeft(p) /\ BytesLeft(body)
      /\ r.value = ReadBits(body, n) /\ r.pos = body + n
    BY DEF ReadUInt, Read
<1>7. n \in 1 .. width
    BY SizeType
<1>8. r.value \in SUBSET (0 .. width - 1)
  <2>1. r.value \in SUBSET (0 .. n - 1)
      BY <1>6, ReadBitsType
  <2> HIDE DEF r, n
  <2>2. \A i \in 0 .. n - 1 : i \in 0 .. width - 1
      BY <1>7, HeaderBitsIs
  <2> QED  BY <2>1, <2>2
<1> HIDE DEF r, n, hb, size, h, c
<1>9. /\ p \in Nat /\ e = p + h.len + c.len
      /\ Holds(wire.bits, p, h) /\ Holds(wire.bits, p + h.len, c)
    BY <1>3, <1>4, <1>5, LaidTwo
<1>10. body \in Nat /\ e = body + size /\ Holds(wire.bits, body, c)
    BY <1>1, <1>2, <1>3, <1>4, <1>9
<1>11. ASSUME BytesLeft(body)
       PROVE  n = size
  <2>1. /\ p \in Nat /\ size \in 1 .. width
        /\ Holds(wire.bits, p, Header(size, width))
        /\ BytesLeft(p + HeaderBits[width])
      BY <1>2, <1>9, <1>11 DEF h, hb
  <2> QED  BY <2>1, HeaderRead DEF n, hb
<1>12. r.ok => BytesLeft(p) /\ r.pos = e
    BY <1>6, <1>10, <1>11
<1>13. ASSUME BytesLeft(e)
       PROVE  r.ok /\ r.value = v
  <2>1. BytesLeft(p) /\ BytesLeft(body)
      BY <1>1, <1>2, <1>9, <1>10, <1>13 DEF BytesLeft
  <2>2. n = size
      BY <1>11, <2>1
  <2>3. size \in Nat /\ size <= c.len /\ BytesLeft(body + size)
      BY <1>2, <1>4, <1>10, <1>13
  <2>4. ReadBits(body, size) = {i \in 0 .. size - 1 : i \in c.bits}
      BY <1>4, <1>10, <2>3, ReadFirst
  <2>5. ReadBits(body, size) = {i \in 0 .. size - 1 : i \in v}
      BY <1>4, <2>4, Zenon
  <2>6. {i \in 0 .. size - 1 : i \in v} = v
      BY <1>2
  <2>7. r.value = v
      BY <1>6, <2>2, <2>5, <2>6, Zenon
  <2> QED  BY <1>6, <2>1, <2>7
<1>14. p < e /\ e \in Nat
    BY <1>1, <1>2, <1>9, <1>10
<1> QED  BY <1>8, <1>9, <1>12, <1>13, <1>14 DEF r

(* The sign and the magnitude are read back.                               *)
LEMMA SignRead ==
    ASSUME wire.size \in Nat, NEW b \in Nat, NEW m \in SUBSET (0 .. b),
           NEW neg, NEW p \in Nat,
           Holds(wire.bits, p, SignAnd(neg, m)),
           BytesLeft(p + 1 + Bitsize(m))
    PROVE  /\ 0 \in ReadBits(p, 1) <=> neg
           /\ ReadBits(p + 1, Bitsize(m)) = m
<1> DEFINE c == SignAnd(neg, m)
           n == Bitsize(m)
<1>1. n \in Nat \ {0} /\ m \in SUBSET (0 .. n - 1)
    BY BitsizeIs
<1>2. /\ c \in Piece /\ c.len = 1 + n
      /\ c.bits = {i + 1 : i \in m} \cup (IF neg THEN {0} ELSE {})
    BY SignAndIs
<1>3. Holds(wire.bits, p, c) /\ BytesLeft(p + 1 + n)
    OBVIOUS
<1> HIDE DEF c, n
<1>4. 0 \in c.bits <=> neg
    BY <1>1, <1>2
<1>5. ASSUME NEW i \in 0 .. n - 1
      PROVE  1 + i \in c.bits <=> i \in m
  <2>1. 1 + i # 0 /\ i + 1 = 1 + i
      OBVIOUS
  <2>2. \A j \in m : j + 1 = 1 + i => j = i
      BY <1>1
  <2> QED  BY <1>2, <2>1, <2>2
<1>6. /\ BytesLeft(p + 1)
      /\ 1 <= c.len /\ 1 \in Nat /\ n \in Nat /\ 1 + n <= c.len
    BY <1>1, <1>2, <1>3 DEF BytesLeft
<1>7. ReadBits(p, 1) = {i \in 0 .. 1 - 1 : i \in c.bits}
    BY <1>2, <1>3, <1>6, ReadFirst
<1>8. 0 \in ReadBits(p, 1) <=> neg
    BY <1>4, <1>7
<1>9. ReadBits(p + 1, n) = Slice(c, 1, n)
    BY <1>2, <1>3, <1>6, ReadPiece
<1>10. {j \in 0 .. n - 1 : 1 + j \in c.bits} = m
  <2>1. \A i \in m : i \in 0 .. n - 1 /\ 1 + i \in c.bits
      BY <1>1, <1>5
  <2>2. \A i \in 0 .. n - 1 : 1 + i \in c.bits => i \in m
      BY <1>5
  <2> DEFINE P(j) == 1 + j \in c.bits
             R == 0 .. n - 1
  <2>3. /\ \A i \in m : i \in R /\ P(i)
        /\ \A i \in R : P(i) => i \in m
      BY <2>1, <2>2
  <2> HIDE DEF P, R
  <2>4. {j \in R : P(j)} = m
      BY <2>3, Zenon
  <2> QED  BY <2>4 DEF P, R
<1>11. ReadBits(p + 1, n) = m
    BY <1>9, <1>10 DEF Slice
<1> QED  BY <1>8, <1>11 DEF n

(* A value is its magnitude, negated if its sign bit is set; so is the     *)
(* least value of the type, whose magnitude is itself.                     *)
LEMMA MagnitudeTwice ==
    ASSUME NEW width \in Nat \ {0}, NEW v \in SUBSET (0 .. width - 1)
    PROVE  v = IF width - 1 \in v THEN Negate(Magnitude(v, width), width)
               ELSE Magnitude(v, width)
<1>1. CASE width - 1 \in v
    BY <1>1, NegateTwice DEF Magnitude
<1>2. CASE width - 1 \notin v
    BY <1>2 DEF Magnitude
<1> QED  BY <1>1, <1>2

(* The same for a signed integer.                                          *)
LEMMA IntRead ==
    ASSUME wire.size \in Nat,
           NEW width \in Widths, NEW v \in SUBSET (0 .. width - 1),
           NEW p, NEW e, Laid(wire.bits, p, IntChunks(v, width), e)
    PROVE  /\ p \in Nat /\ e \in Nat /\ p < e
           /\ ReadInt(p, width).value \in SUBSET (0 .. width - 1)
           /\ ReadInt(p, width).ok =>
                 BytesLeft(p) /\ ReadInt(p, width).pos = e
           /\ BytesLeft(e) =>
                 ReadInt(p, width).ok /\ ReadInt(p, width).value = v
<1> DEFINE hb == HeaderBits[width]
           body == p + hb
           n == SizeFrom(p, hb)
           k == ReadBits(body + 1, n)
           m == Magnitude(v, width)
           neg == width - 1 \in v
           size == Bitsize(m)
           h == Header(size, width)
           c == SignAnd(neg, m)
           r == ReadInt(p, width)
<1>1. hb \in Nat \ {0} /\ width \in Nat \ {0} /\ width - 1 \in Nat
    BY HeaderBitsIs
<1>2. m \in SUBSET (0 .. width - 1)
    BY <1>1, MagnitudeType
<1>3. v = IF neg THEN Negate(m, width) ELSE m
    BY <1>1, MagnitudeTwice
<1>4. Laid(wire.bits, p, <<h, c>>, e)
    BY DEF IntChunks
<1>5. /\ r.ok <=> BytesLeft(p) /\ BytesLeft(body)
      /\ r.value = IF 0 \in ReadBits(body, 1) THEN Negate(k, width) ELSE k
      /\ r.pos = body + 1 + n
    BY DEF ReadInt, Read
<1>6. n \in 1 .. width
    BY SizeType
<1>7. k \in SUBSET (0 .. n - 1)
    BY ReadBitsType
<1> HIDE DEF m, neg
<1>8. h \in Piece /\ h.len = hb
    BY HeaderIs
<1>9. size \in 1 .. width /\ c \in Piece /\ c.len = 1 + size
  <2>1. size \in 1 .. (width - 1) + 1
      BY <1>1, <1>2, BitsizeIs
  <2> HIDE DEF size, c
  <2>2. c \in Piece /\ c.len = 1 + size
      BY <1>1, <1>2, SignAndIs DEF size, c
  <2> QED  BY <1>1, <2>1, <2>2
<1> HIDE DEF r, n, hb, size, h, c, k
<1>10. r.value \in SUBSET (0 .. width - 1)
  <2>1. \A i \in 0 .. n - 1 : i \in 0 .. width - 1
      BY <1>1, <1>6
  <2>2. k \in SUBSET (0 .. width - 1)
      BY <1>7, <2>1
  <2>3. Negate(k, width) \in SUBSET (0 .. width - 1)
      BY DEF Negate
  <2> QED  BY <1>5, <2>2, <2>3
<1>11. /\ p \in Nat /\ e = p + h.len + c.len
       /\ Holds(wire.bits, p, h) /\ Holds(wire.bits, p + h.len, c)
    BY <1>4, <1>8, <1>9, LaidTwo
<1>12. body \in Nat /\ e = body + 1 + size /\ Holds(wire.bits, body, c)
    BY <1>1, <1>8, <1>9, <1>11
<1>13. ASSUME BytesLeft(body)
       PROVE  n = size
  <2>1. /\ p \in Nat /\ size \in 1 .. width
        /\ Holds(wire.bits, p, Header(size, width))
        /\ BytesLeft(p + HeaderBits[width])
      BY <1>9, <1>11, <1>13 DEF h, hb
  <2> QED  BY <2>1, HeaderRead DEF n, hb
<1>14. r.ok => BytesLeft(p) /\ r.pos = e
    BY <1>5, <1>12, <1>13
<1>15. ASSUME BytesLeft(e)
       PROVE  r.ok /\ r.value = v
  <2>1. BytesLeft(p) /\ BytesLeft(body)
      BY <1>1, <1>9, <1>11, <1>12, <1>15 DEF BytesLeft
  <2>2. n = size
      BY <1>13, <2>1
  <2>3. /\ Holds(wire.bits, body, SignAnd(neg, m))
        /\ BytesLeft(body + 1 + Bitsize(m))
      BY <1>12, <1>15 DEF c, size
  <2> HIDE DEF body
  <2>4. /\ 0 \in ReadBits(body, 1) <=> neg
        /\ ReadBits(body + 1, Bitsize(m)) = m
      BY <1>1, <1>2, <1>12, <2>3, SignRead
  <2>5. k = m
      BY <2>2, <2>4 DEF k, size
  <2>6. r.value = v
      BY <1>3, <1>5, <2>4, <2>5
  <2> QED  BY <1>5, <2>1, <2>6
<1>16. p < e /\ e \in Nat
    BY <1>1, <1>9, <1>11, <1>12
<1> QED  BY <1>10, <1>11, <1>14, <1>15, <1>16 DEF r

(* The same for a boolean.                                                 *)
LEMMA BooleanRead ==
    ASSUME wire.size \in Nat, NEW v \in BOOLEAN,
           NEW p, NEW e, Laid(wire.bits, p, BooleanChunks(v), e)
    PROVE  /\ p \in Nat /\ e \in Nat /\ p < e
           /\ ReadBoolean(p).value \in BOOLEAN
           /\ ReadBoolean(p).ok => BytesLeft(p) /\ ReadBoolean(p).pos = e
           /\ BytesLeft(e) => ReadBoolean(p).ok /\ ReadBoolean(p).value = v
<1> DEFINE b == IF v THEN {0} ELSE {}
           c == Chunk(b, 1)
<1>1. c \in Piece /\ c.bits = b /\ c.len = 1
  <2>1. b \in SUBSET (0 .. 1 - 1) /\ 1 \in Nat \ {0}
      OBVIOUS
  <2> QED  BY <2>1, ChunkIsPiece
<1>2. Laid(wire.bits, p, <<c>>, e)
    BY DEF BooleanChunks
<1>3. 0 \in b <=> v
    OBVIOUS
<1> HIDE DEF b, c
<1>4. p \in Nat /\ Holds(wire.bits, p, c) /\ e = p + 1
    BY <1>1, <1>2, LaidOne
<1>5. /\ ReadBoolean(p).ok <=> BytesLeft(p)
      /\ ReadBoolean(p).pos = p + 1
    BY DEF ReadBoolean, Read
<1>6. ReadBoolean(p).value = (0 \in ReadBits(p, 1))
    BY SMT DEF ReadBoolean, Read
<1>7. (0 \in ReadBits(p, 1)) \in BOOLEAN
    BY SMT
<1>8. ASSUME BytesLeft(e)
      PROVE  ReadBoolean(p).ok /\ ReadBoolean(p).value = v
  <2>1. BytesLeft(p) /\ BytesLeft(p + 1) /\ 1 \in Nat /\ 1 <= c.len
      BY <1>1, <1>4, <1>8 DEF BytesLeft
  <2>2. ReadBits(p, 1) = {i \in 0 .. 1 - 1 : i \in c.bits}
      BY <1>1, <1>4, <2>1, ReadFirst
  <2>3. 0 \in ReadBits(p, 1) <=> v
      BY <1>1, <1>3, <2>2
  <2>4. ReadBoolean(p).value = v
      BY <1>6, <2>3, Zenon
  <2> QED  BY <1>5, <2>1, <2>4
<1>9. p < e /\ e \in Nat
    BY <1>4
<1>10. ReadBoolean(p).value \in BOOLEAN
    BY <1>6, <1>7, Zenon
<1> QED  BY <1>4, <1>5, <1>8, <1>9, <1>10

(* The values of a double.                                                 *)
LEMMA DoubleValueIs ==
    ASSUME NEW v
    PROVE  v \in Value("DOUBLE") <=>
             v \in [neg : BOOLEAN, frac : SUBSET (0 .. 52),
                    exp : SUBSET (0 .. 15)]
BY ValueIs, Zenon

(* The same for a double; what stands between its header and its exponent  *)
(* is not checked, and need not be.                                        *)
LEMMA DoubleRead ==
    ASSUME wire.size \in Nat, NEW v \in Value("DOUBLE"), ~MinusZero(v),
           NEW p, NEW e, Laid(wire.bits, p, DoubleChunks(v), e)
    PROVE  /\ p \in Nat /\ e \in Nat /\ p < e
           /\ ReadDouble(p).ok =>
                 /\ BytesLeft(p) /\ ReadDouble(p).pos = e
                 /\ ReadDouble(p).value \in Value("DOUBLE")
           /\ BytesLeft(e) =>
                 ReadDouble(p).ok /\ ReadDouble(p).value = v
<1> DEFINE hb == HeaderBits[64]
           body == p + hb
           n == SizeFrom(p, hb)
           q == body + 1 + n
           x == ReadInt(q, 16)
           size == Bitsize(v.frac)
           h == Header(size, 64)
           c == SignAnd(v.neg, v.frac)
           t == IntChunks(v.exp, 16)
           hc == <<h, c>>
           k == ReadBits(body + 1, n)
           neg == 0 \in ReadBits(body, 1)
           r == ReadDouble(p)
<1>1. v \in [neg : BOOLEAN, frac : SUBSET (0 .. 52), exp : SUBSET (0 .. 15)]
    BY DoubleValueIs
<1>2. /\ v.neg \in BOOLEAN /\ v.frac \in SUBSET (0 .. 52)
      /\ v.exp \in SUBSET (0 .. 16 - 1)
      /\ v = [neg |-> v.neg, frac |-> v.frac, exp |-> v.exp]
    BY <1>1
<1>3. hb = 6 /\ 64 \in Widths /\ 16 \in Widths
    BY HeaderBitsIs, WidthIs
<1>4. size \in 1 .. 53 /\ size \in 1 .. 64
  <2>1. size \in 1 .. 52 + 1
      BY <1>2, BitsizeIs
  <2> QED  BY <2>1
<1>5. h \in Piece /\ h.len = hb
    BY <1>3, HeaderIs
<1>6. c \in Piece /\ c.len = 1 + size
    BY <1>2, SignAndIs
<1>7. n \in 1 .. 64
    BY <1>3, SizeType
<1>8. /\ r.ok <=> BytesLeftAhead(p) /\ x.ok
      /\ r.value = [neg |-> neg, frac |-> k, exp |-> x.value]
      /\ r.pos = x.pos
    BY DEF ReadDouble, Read
<1>9. k \in SUBSET (0 .. n - 1)
    BY ReadBitsType
<1>10. t \in Seq(Piece)
    BY <1>2, <1>3, IntChunksType
<1>11. Laid(wire.bits, p, hc \o t, e)
  <2>1. (v.neg /\ v.frac # {}) = v.neg
      BY <1>2, Zenon DEF MinusZero
  <2> QED  BY <2>1, Zenon DEF DoubleChunks
<1>12. hc \in Seq(Piece)
    BY <1>5, <1>6
<1>13. neg \in BOOLEAN
    BY SMT
<1> HIDE DEF t, hc
<1>14. PICK m : Laid(wire.bits, p, hc, m) /\ Laid(wire.bits, m, t, e)
    BY <1>10, <1>11, <1>12, LaidSplit
<1>15. /\ p \in Nat /\ m = p + h.len + c.len
       /\ Holds(wire.bits, p, h) /\ Holds(wire.bits, p + h.len, c)
    BY <1>5, <1>6, <1>14, LaidTwo DEF hc
<1> HIDE DEF r, n, hb, size, h, c, k, neg
<1>16. /\ body \in Nat /\ m = body + 1 + size
       /\ Holds(wire.bits, body, c) /\ p < m /\ m \in Nat
    BY <1>3, <1>4, <1>5, <1>6, <1>15
<1>17. ASSUME BytesLeft(body)
       PROVE  n = size /\ q = m
  <2>1. /\ p \in Nat /\ size \in 1 .. 64
        /\ Holds(wire.bits, p, Header(size, 64))
        /\ BytesLeft(p + HeaderBits[64])
      BY <1>4, <1>15, <1>17 DEF h, hb
  <2>2. n = size
      BY <1>3, <2>1, HeaderRead DEF n, hb
  <2> QED  BY <1>16, <2>2
<1> HIDE DEF x
<1>18. /\ m \in Nat /\ e \in Nat /\ m < e
       /\ ReadInt(m, 16).value \in SUBSET (0 .. 16 - 1)
       /\ ReadInt(m, 16).ok => BytesLeft(m) /\ ReadInt(m, 16).pos = e
       /\ BytesLeft(e) =>
             ReadInt(m, 16).ok /\ ReadInt(m, 16).value = v.exp
    BY <1>2, <1>3, <1>14, IntRead DEF t
<1>19. ASSUME r.ok
       PROVE  BytesLeft(p) /\ r.pos = e /\ r.value \in Value("DOUBLE")
  <2>1. BytesLeft(q)
      BY <1>8, <1>19 DEF x, ReadInt, Read
  <2>2. BytesLeft(body) /\ BytesLeft(p)
      BY <1>3, <1>7, <1>15, <1>16, <2>1 DEF BytesLeft
  <2>3. x = ReadInt(m, 16) /\ n = size
      BY <1>17, <2>2 DEF x
  <2>4. r.pos = e
      BY <1>8, <1>18, <1>19, <2>3
  <2>5. k \in SUBSET (0 .. 52)
    <3>1. \A i \in 0 .. n - 1 : i \in 0 .. 52
        BY <1>4, <2>3
    <3> QED  BY <1>9, <3>1
  <2>6. x.value \in SUBSET (0 .. 15)
      BY <1>18, <2>3
  <2>7. r.value \in [neg : BOOLEAN, frac : SUBSET (0 .. 52),
                     exp : SUBSET (0 .. 15)]
      BY <1>8, <1>13, <2>5, <2>6
  <2> QED  BY <2>2, <2>4, <2>7, DoubleValueIs
<1>20. ASSUME BytesLeft(e)
       PROVE  r.ok /\ r.value = v
  <2>1. BytesLeft(body) /\ BytesLeftAhead(p) /\ BytesLeft(m)
      BY <1>3, <1>4, <1>15, <1>16, <1>18, <1>20 DEF BytesLeft, BytesLeftAhead
  <2>2. x = ReadInt(m, 16) /\ n = size
      BY <1>17, <2>1 DEF x
  <2>3. x.ok /\ x.value = v.exp
      BY <1>18, <1>20, <2>2
  <2>4. Holds(wire.bits, body, SignAnd(v.neg, v.frac))
      BY <1>16 DEF c
  <2>5. BytesLeft(body + 1 + Bitsize(v.frac))
      BY <1>16, <2>1 DEF size
  <2>6. body \in Nat /\ 52 \in Nat /\ v.frac \in SUBSET (0 .. 52)
      BY <1>2, <1>16
  <2> HIDE DEF body
  <2>7. /\ 0 \in ReadBits(body, 1) <=> v.neg
        /\ ReadBits(body + 1, Bitsize(v.frac)) = v.frac
      BY <2>4, <2>5, <2>6, SignRead
  <2>8. k = v.frac
      BY <2>2, <2>7 DEF k, size
  <2>9. neg <=> v.neg
      BY <2>7 DEF neg
  <2>10. neg = v.neg
      BY <1>2, <1>13, <2>9
  <2>11. r.value = v
      BY <1>2, <1>8, <2>3, <2>8, <2>10
  <2> QED  BY <1>8, <2>1, <2>3, <2>11
<1>21. p < e
    BY <1>15, <1>16, <1>18
<1> QED  BY <1>15, <1>18, <1>19, <1>20, <1>21 DEF r

-----------------------------------------------------------------------------
(* Reading strings, and a field of any type.                               *)

(* The same for eight digits alone.                                        *)
LEMMA NumberOfByte ==
    ASSUME NEW n \in 0 .. 255
    PROVE  Number(Binary(n, 8)) = n
<1>1. \A m \in 0 .. 255 : Number(Binary(m, 8)) = m
    BY NumberOfBinary
<1> QED  BY <1>1

(* Bit i of byte k of a string.                                            *)
LEMMA ByteAt ==
    ASSUME NEW v \in Seq(Byte), NEW k \in 1 .. Len(v), NEW i \in 0 .. 7
    PROVE  8 * (k - 1) + i \in BytesOf(v) <=> i \in v[k]
<1>1. Len(v) \in Nat /\ DOMAIN v = 1 .. Len(v)
    OBVIOUS
<1>2. ASSUME i \in v[k]
      PROVE  8 * (k - 1) + i \in BytesOf(v)
    BY <1>1, <1>2 DEF BytesOf
<1>3. ASSUME 8 * (k - 1) + i \in BytesOf(v)
      PROVE  i \in v[k]
  <2>1. PICK m \in 1 .. Len(v) :
            8 * (k - 1) + i \in {8 * (m - 1) + j : j \in v[m]}
      BY <1>1, <1>3 DEF BytesOf
  <2>2. PICK j \in v[m] : 8 * (k - 1) + i = 8 * (m - 1) + j
      BY <2>1
  <2>3. v[m] \in SUBSET (0 .. 7)
      BY <1>1 DEF Byte
  <2>4. j \in 0 .. 7 /\ k \in Nat /\ m \in Nat
      BY <1>1, <2>3
  <2>5. k = m /\ i = j
      BY <2>2, <2>4
  <2> QED  BY <2>5
<1> QED  BY <1>2, <1>3

(* The second chunk of a string.                                           *)
StringBody(v) ==
    LET len == Binary(Len(v), 8)
    IN  Chunk(len \cup {Bitsize(len) + i : i \in BytesOf(v)},
              Bitsize(len) + 8 * Len(v))

(* A string is written as a header and that chunk.                         *)
LEMMA StringChunksIs ==
    \A v : StringChunks(v)
             = <<Header(Bitsize(Binary(Len(v), 8)), 8), StringBody(v)>>
BY Zenon DEF StringChunks, StringBody, BytesOf

(* Where the length and each byte are in it.                               *)
LEMMA StringBodyIs ==
    ASSUME NEW v \in Seq(Byte), NEW b, b = Bitsize(Binary(Len(v), 8))
    PROVE  /\ b \in 1 .. 8
           /\ StringBody(v) \in Piece
           /\ StringBody(v).len = b + 8 * Len(v)
           /\ \A i \in 0 .. b - 1 :
                 i \in StringBody(v).bits <=> i \in Binary(Len(v), 8)
           /\ \A k \in 1 .. Len(v) :
                 Slice(StringBody(v), b + 8 * (k - 1), 8) = v[k]
<1> DEFINE len == Binary(Len(v), 8)
           bits == len \cup {b + i : i \in BytesOf(v)}
           n == Len(v)
           c == StringBody(v)
<1>1. len \in SUBSET (0 .. 7) /\ n \in Nat /\ 7 \in Nat
    BY BinaryType
<1>2. b \in 1 .. 8 /\ len \subseteq 0 .. b - 1
  <2>1. b \in 1 .. 7 + 1 /\ len \subseteq 0 .. b - 1
      BY <1>1, BitsizeIs
  <2> QED  BY <2>1
<1>3. \A i \in BytesOf(v) : i \in 0 .. 8 * n - 1
    BY BytesWithin
<1>4. c = Chunk(bits, b + 8 * n)
    BY Zenon DEF StringBody
<1>5. \A k \in 1 .. n : v[k] \in SUBSET (0 .. 7)
    BY DEF Byte
<1>6. \A k \in 1 .. n, i \in 0 .. 7 :
          8 * (k - 1) + i \in BytesOf(v) <=> i \in v[k]
    BY ByteAt
<1> HIDE DEF len, n, c
<1>7. \A i \in bits : i \in 0 .. (b + 8 * n) - 1
  <2>1. \A i \in len : i \in 0 .. (b + 8 * n) - 1
      BY <1>1, <1>2
  <2>2. \A i \in BytesOf(v) : b + i \in 0 .. (b + 8 * n) - 1
      BY <1>1, <1>2, <1>3
  <2> QED  BY <2>1, <2>2
<1>8. b + 8 * n \in Nat \ {0} /\ bits \in SUBSET (0 .. (b + 8 * n) - 1)
  <2> HIDE DEF bits
  <2> QED  BY <1>1, <1>2, <1>7
<1>9. \A i \in 0 .. b - 1 : i \in bits <=> i \in len
  <2>1. \A j \in BytesOf(v) : b + j >= b /\ b + j \in Int
      BY <1>1, <1>2, <1>3
  <2>2. \A i \in 0 .. b - 1 : i < b /\ i \in Int
      BY <1>2
  <2>3. \A i \in 0 .. b - 1, j \in BytesOf(v) : i # b + j
      BY <1>2, <2>1, <2>2
  <2> QED  BY <2>3
<1>10. \A j \in Nat : b + j \in bits <=> j \in BytesOf(v)
  <2> SUFFICES ASSUME NEW j \in Nat
               PROVE  b + j \in bits <=> j \in BytesOf(v)
      OBVIOUS
  <2>1. b + j \notin len
      BY <1>1, <1>2
  <2>2. \A i \in BytesOf(v) : b + j = b + i => i = j
      BY <1>1, <1>2, <1>3
  <2> QED  BY <2>1, <2>2
<1> HIDE DEF bits
<1>11. c \in Piece /\ c.bits = bits /\ c.len = b + 8 * n
    BY <1>4, <1>8, ChunkIsPiece
<1>12. ASSUME NEW k \in 1 .. n
       PROVE  Slice(c, b + 8 * (k - 1), 8) = v[k]
  <2>1. v[k] \in SUBSET (0 .. 7)
      BY <1>5
  <2>2. ASSUME NEW i \in 0 .. 7
        PROVE  (b + 8 * (k - 1)) + i \in c.bits <=> i \in v[k]
    <3>1. /\ (b + 8 * (k - 1)) + i = b + (8 * (k - 1) + i)
          /\ 8 * (k - 1) + i \in Nat
        BY <1>1, <1>2
    <3> QED  BY <1>6, <1>10, <1>11, <3>1
  <2> DEFINE P(i) == (b + 8 * (k - 1)) + i \in c.bits
             R == 0 .. 7
             w == v[k]
  <2>3. w \in SUBSET R /\ \A i \in R : P(i) <=> i \in w
      BY <2>1, <2>2
  <2>4. Slice(c, b + 8 * (k - 1), 8) = {i \in R : P(i)}
    <3>1. 8 - 1 = 7
        OBVIOUS
    <3> QED  BY <3>1 DEF Slice
  <2> HIDE DEF P, R, w
  <2>5. {i \in R : P(i)} = w
      BY <2>3
  <2> QED  BY <2>4, <2>5 DEF w
<1> QED  BY <1>2, <1>9, <1>11, <1>12 DEF len, n, c

(* The start of a piece stands where the piece does.                       *)
LEMMA HoldsStart ==
    ASSUME NEW bits, NEW p, NEW c \in Piece, NEW d \in Piece,
           Holds(bits, p, c), d.len <= c.len,
           \A i \in 0 .. d.len - 1 : i \in c.bits <=> i \in d.bits
    PROVE  Holds(bits, p, d)
<1>1. c.len \in Nat /\ d.len \in Nat
    BY PieceIs
<1>2. \A i \in 0 .. d.len - 1 : i \in 0 .. c.len - 1
    BY <1>1
<1> QED  BY <1>2 DEF Holds

(* The same for a string; where its length was cut, the position after it  *)
(* is past the end.                                                        *)
LEMMA StringRead ==
    ASSUME wire.size \in Nat, NEW v \in Seq(Byte), LengthAllowed(Len(v)),
           NEW p, NEW e, Laid(wire.bits, p, StringChunks(v), e)
    PROVE  /\ p \in Nat /\ e \in Nat /\ p < e
           /\ ReadString(p).value \in Seq(Byte)
           /\ ReadString(p).ok =>
                 /\ BytesLeft(p) /\ ReadString(p).pos \in Nat
                 /\ \/ ReadString(p).pos = e
                    \/ ~BytesLeft(ReadString(p).pos) /\ ~BytesLeft(e)
           /\ BytesLeft(e) =>
                 /\ ReadString(p).ok /\ ReadString(p).value = v
                 /\ ReadString(p).pos = e
<1> DEFINE l == Binary(Len(v), 8)
           b == Bitsize(l)
           h == Header(b, 8)
           c == StringBody(v)
           d == Chunk(l, b)
           q == p + h.len
           m == q + b
           x == ReadUInt(p, 8)
           n == Number(x.value)
           value == [k \in 1 .. n |-> ReadBits(x.pos + 8 * (k - 1), 8)]
           r == ReadString(p)
<1>1. l \in SUBSET (0 .. 8 - 1) /\ l \in SUBSET (0 .. 7) /\ Len(v) \in 1 .. 254
  <2>1. Len(v) \in 1 .. 255 - 1
      BY DEF LengthAllowed, MAX_STRING_LENGTH
  <2> QED  BY <2>1, BinaryType
<1>2. /\ b \in 1 .. 8 /\ c \in Piece /\ c.len = b + 8 * Len(v)
      /\ \A i \in 0 .. b - 1 : i \in c.bits <=> i \in l
      /\ \A k \in 1 .. Len(v) : Slice(c, b + 8 * (k - 1), 8) = v[k]
    BY StringBodyIs
<1>3. d \in Piece /\ d.bits = l /\ d.len = b
  <2>1. l \subseteq 0 .. b - 1
    <3>1. 7 \in Nat
        OBVIOUS
    <3> QED  BY <1>1, <3>1, BitsizeIs
  <2>2. b \in Nat \ {0}
      BY <1>2
  <2> QED  BY <2>1, <2>2, ChunkIsPiece
<1>4. h \in Piece /\ 8 \in Widths
    BY HeaderIs, WidthIs
<1>5. Number(l) = Len(v)
  <2>1. Len(v) \in 0 .. 255
      BY <1>1
  <2> DEFINE L == Len(v)
  <2> HIDE DEF L
  <2>2. Number(Binary(L, 8)) = L
    <3>1. L \in 0 .. 255
        BY <2>1 DEF L
    <3> QED  BY <3>1, NumberOfByte, Zenon
  <2> QED  BY <2>2 DEF L
<1>6. UIntChunks(l, 8) = <<h, d>>
    BY Zenon DEF UIntChunks
<1>7. Laid(wire.bits, p, <<h, c>>, e)
    BY StringChunksIs
<1>8. /\ r.ok <=> BytesLeftAhead(p) /\ x.ok /\ LengthAllowed(n)
      /\ r.value = value /\ r.pos = x.pos + 8 * n
    BY DEF ReadString, Read
<1> HIDE DEF r, x, l, b, h, c, d
<1>9. h.len \in Nat \ {0} /\ d.len \in Nat \ {0}
    BY <1>3, <1>4, PieceIs
<1>10. /\ p \in Nat /\ e = q + c.len
       /\ Holds(wire.bits, p, h) /\ Holds(wire.bits, q, c)
    BY <1>2, <1>4, <1>7, LaidTwo
<1>11. Holds(wire.bits, q, d)
  <2>1. d.len <= c.len
      BY <1>1, <1>2, <1>3
  <2>2. \A i \in 0 .. d.len - 1 : i \in c.bits <=> i \in d.bits
      BY <1>2, <1>3
  <2> QED  BY <1>2, <1>3, <1>10, <2>1, <2>2, HoldsStart
<1>12. q \in Nat /\ m \in Nat /\ e = m + 8 * Len(v) /\ p < m
  <2>1. q \in Nat /\ p < q /\ p \in Nat
      BY <1>9, <1>10
  <2>2. b \in 1 .. 8 /\ Len(v) \in Nat /\ e = q + (b + 8 * Len(v))
      BY <1>1, <1>2, <1>10
  <2> HIDE DEF q
  <2> QED  BY <2>1, <2>2
<1>13. Laid(wire.bits, p, UIntChunks(l, 8), m)
  <2>1. m = p + h.len + d.len
      BY <1>3
  <2> QED  BY <1>3, <1>4, <1>6, <1>10, <1>11, <2>1, LaidPair
<1> HIDE DEF m
<1>14. /\ x.value \in SUBSET (0 .. 8 - 1)
       /\ x.ok => BytesLeft(p) /\ x.pos = m
       /\ BytesLeft(m) => x.ok /\ x.value = l
    BY <1>1, <1>4, <1>13, UIntRead DEF x
<1>15. n \in Nat
  <2>1. x.value \in SUBSET (0 .. 7)
      BY <1>14
  <2> HIDE DEF n
  <2>2. Number(x.value) \in 0 .. 255
      BY <2>1, NumberFits
  <2>3. \A i \in 0 .. 255 : i \in Nat
      OBVIOUS
  <2> QED  BY <2>2, <2>3, Zenon DEF n
<1>16. r.value \in Seq(Byte)
  <2>1. \A j \in Nat : ReadBits(x.pos + 8 * (j - 1), 8) \in Byte
    <3>1. 8 - 1 = 7
        OBVIOUS
    <3> QED  BY <3>1, ReadBitsType DEF Byte
  <2> HIDE DEF n
  <2>2. value \in [1 .. n -> Byte]
      BY <1>15, <2>1
  <2> HIDE DEF value
  <2> QED  BY <1>8, <1>15, <2>2
<1> HIDE DEF n
<1>17. ASSUME BytesLeft(m)
       PROVE  n = Len(v) /\ r.pos = e
  <2>1. n = Len(v) /\ x.pos = m
      BY <1>5, <1>14, <1>17 DEF n
  <2> QED  BY <1>8, <1>12, <2>1
<1>18. ASSUME r.ok
       PROVE  /\ BytesLeft(p) /\ r.pos \in Nat
              /\ r.pos = e \/ (~BytesLeft(r.pos) /\ ~BytesLeft(e))
  <2>1. BytesLeft(p) /\ r.pos = m + 8 * n
      BY <1>8, <1>14, <1>18
  <2>2. r.pos \in Nat /\ e \in Nat
      BY <1>1, <1>12, <1>15, <2>1
  <2>3. CASE BytesLeft(m)
      BY <1>17, <2>1, <2>2, <2>3
  <2>4. CASE ~BytesLeft(m)
    <3>1. ~BytesLeft(r.pos) /\ ~BytesLeft(e)
        BY <1>1, <1>12, <1>15, <2>1, <2>4 DEF BytesLeft
    <3> QED  BY <2>1, <2>2, <3>1
  <2> QED  BY <2>3, <2>4
<1>19. ASSUME BytesLeft(e)
       PROVE  r.ok /\ r.value = v /\ r.pos = e
  <2>1. BytesLeft(m) /\ BytesLeftAhead(p)
      BY <1>1, <1>10, <1>12, <1>19 DEF BytesLeft, BytesLeftAhead
  <2>2. n = Len(v) /\ r.pos = e /\ x.pos = m /\ x.ok
      BY <1>14, <1>17, <2>1
  <2>3. r.ok
      BY <1>8, <2>1, <2>2
  <2>4. ASSUME NEW k \in 1 .. Len(v)
        PROVE  ReadBits(m + 8 * (k - 1), 8) = v[k]
    <3> DEFINE o == b + 8 * (k - 1)
    <3>1. /\ o \in Nat /\ 8 \in Nat /\ o + 8 <= c.len /\ q + o + 8 <= e
          /\ q + o = m + 8 * (k - 1)
      <4>1. /\ q \in Nat /\ b \in Nat /\ Len(v) \in Nat
            /\ c.len = b + 8 * Len(v) /\ e = q + (b + 8 * Len(v))
          BY <1>1, <1>2, <1>10, <1>12
      <4> DEFINE L == Len(v)
      <4>2. L \in Nat /\ k \in 1 .. L
          BY <4>1
      <4> HIDE DEF L, q
      <4>3. o \in Nat /\ o + 8 <= b + 8 * L
          BY <4>1, <4>2
      <4>4. q + o + 8 <= e /\ o + 8 <= c.len
          BY <4>1, <4>2, <4>3 DEF L
      <4>5. q + o = m + 8 * (k - 1)
          BY <4>1, <4>2 DEF m
      <4> QED  BY <4>3, <4>4, <4>5
    <3>2. Slice(c, o, 8) = v[k]
        BY <1>2
    <3> HIDE DEF o, q
    <3>3. BytesLeft(q + o + 8)
        BY <1>12, <1>19, <3>1 DEF BytesLeft
    <3>4. ReadBits(q + o, 8) = Slice(c, o, 8)
        BY <1>2, <1>10, <1>12, <3>1, <3>3, ReadPiece
    <3> QED  BY <3>1, <3>2, <3>4
  <2>5. r.value = [k \in 1 .. Len(v) |-> v[k]]
      BY <1>8, <2>2, <2>4
  <2>6. v = [k \in 1 .. Len(v) |-> v[k]]
      OBVIOUS
  <2> QED  BY <2>2, <2>3, <2>5, <2>6
<1>20. p < e /\ e \in Nat
    BY <1>1, <1>10, <1>12
<1> QED  BY <1>10, <1>16, <1>18, <1>19, <1>20 DEF r

(* A value that AddSerializable takes, and that is sent as it is.          *)
Sendable(t, v) ==
    /\ v \in Value(t)
    /\ t = "UTF8_STRING" => LengthAllowed(Len(v))
    /\ t = "DOUBLE" => ~MinusZero(v)

(* What r says of a field that stands from p to e: it is v if it was       *)
(* received whole, and if it was not, nothing is left after it.            *)
ReadsBack(r, t, v, p, e) ==
    /\ p \in Nat /\ e \in Nat /\ p < e
    /\ r.ok => /\ BytesLeft(p) /\ r.value \in Value(t) /\ r.pos \in Nat
               /\ r.pos = e \/ (~BytesLeft(r.pos) /\ ~BytesLeft(e))
    /\ BytesLeft(e) => r.ok /\ r.value = v /\ r.pos = e

(* How a field is read depends on its type.                                *)
LEMMA ReadFieldIs ==
    ASSUME NEW t, NEW p
    PROVE  /\ t \in Unsigned => ReadField(t, p) = ReadUInt(p, Width[t])
           /\ t \in Signed => ReadField(t, p) = ReadInt(p, Width[t])
           /\ t = "DOUBLE" => ReadField(t, p) = ReadDouble(p)
           /\ t = "BOOLEAN" => ReadField(t, p) = ReadBoolean(p)
           /\ t = "UTF8_STRING" => ReadField(t, p) = ReadString(p)
<1>1. t \in Unsigned =>
          t \notin Signed \cup {"DOUBLE", "BOOLEAN", "UTF8_STRING"}
    BY DEF Unsigned, Signed
<1>2. t \in Signed =>
          t \notin Unsigned \cup {"DOUBLE", "BOOLEAN", "UTF8_STRING"}
    BY DEF Unsigned, Signed
<1>3. t \in {"DOUBLE", "BOOLEAN", "UTF8_STRING"} =>
          t \notin Unsigned /\ t \notin Signed
    BY DEF Unsigned, Signed
<1>4. t \in Unsigned => ReadField(t, p) = ReadUInt(p, Width[t])
    BY <1>1, SMT DEF ReadField
<1>5. t \in Signed => ReadField(t, p) = ReadInt(p, Width[t])
    BY <1>2, SMT DEF ReadField
<1>6. t = "DOUBLE" => ReadField(t, p) = ReadDouble(p)
    BY <1>3, SMT DEF ReadField
<1>7. t = "BOOLEAN" => ReadField(t, p) = ReadBoolean(p)
    BY <1>3, SMT DEF ReadField
<1>8. t = "UTF8_STRING" => ReadField(t, p) = ReadString(p)
    BY <1>3, SMT DEF ReadField
<1> QED  BY <1>4, <1>5, <1>6, <1>7, <1>8

(* The same for every type (DeserializeField).                             *)
LEMMA FieldRead ==
    ASSUME wire.size \in Nat, NEW t \in Type, NEW v, Sendable(t, v),
           NEW p, NEW e, Laid(wire.bits, p, Chunks(t, v), e)
    PROVE  ReadsBack(ReadField(t, p), t, v, p, e)
<1>1. /\ v \in Value(t)
      /\ t = "UTF8_STRING" => LengthAllowed(Len(v))
      /\ t = "DOUBLE" => ~MinusZero(v)
    BY DEF Sendable
<1>2. CASE t \in Unsigned
  <2>1. Width[t] \in Widths /\ Value(t) = SUBSET (0 .. Width[t] - 1)
      BY <1>2, WidthIs, ValueIs
  <2>2. Laid(wire.bits, p, UIntChunks(v, Width[t]), e)
      BY <1>2, ChunksIs
  <2>3. ReadField(t, p) = ReadUInt(p, Width[t])
      BY <1>2, ReadFieldIs
  <2>4. v \in SUBSET (0 .. Width[t] - 1)
      BY <1>1, <2>1
  <2>5. /\ p \in Nat /\ e \in Nat /\ p < e
        /\ ReadUInt(p, Width[t]).value \in SUBSET (0 .. Width[t] - 1)
        /\ ReadUInt(p, Width[t]).ok =>
              BytesLeft(p) /\ ReadUInt(p, Width[t]).pos = e
        /\ BytesLeft(e) =>
              ReadUInt(p, Width[t]).ok /\ ReadUInt(p, Width[t]).value = v
      BY <2>1, <2>2, <2>4, UIntRead
  <2> QED  BY <2>1, <2>3, <2>5, Zenon DEF ReadsBack
<1>3. CASE t \in Signed
  <2>1. Width[t] \in Widths /\ Value(t) = SUBSET (0 .. Width[t] - 1)
      BY <1>3, WidthIs, ValueIs
  <2>2. Laid(wire.bits, p, IntChunks(v, Width[t]), e)
      BY <1>3, ChunksIs
  <2>3. ReadField(t, p) = ReadInt(p, Width[t])
      BY <1>3, ReadFieldIs
  <2>4. v \in SUBSET (0 .. Width[t] - 1)
      BY <1>1, <2>1
  <2>5. /\ p \in Nat /\ e \in Nat /\ p < e
        /\ ReadInt(p, Width[t]).value \in SUBSET (0 .. Width[t] - 1)
        /\ ReadInt(p, Width[t]).ok =>
              BytesLeft(p) /\ ReadInt(p, Width[t]).pos = e
        /\ BytesLeft(e) =>
              ReadInt(p, Width[t]).ok /\ ReadInt(p, Width[t]).value = v
      BY <2>1, <2>2, <2>4, IntRead
  <2> QED  BY <2>1, <2>3, <2>5, Zenon DEF ReadsBack
<1>4. CASE t = "DOUBLE"
  <2>1. v \in Value("DOUBLE") /\ Laid(wire.bits, p, DoubleChunks(v), e)
      BY <1>1, <1>4, ChunksIs
  <2>2. ReadField(t, p) = ReadDouble(p)
      BY <1>4, ReadFieldIs
  <2>3. /\ p \in Nat /\ e \in Nat /\ p < e
        /\ ReadDouble(p).ok =>
              /\ BytesLeft(p) /\ ReadDouble(p).pos = e
              /\ ReadDouble(p).value \in Value("DOUBLE")
        /\ BytesLeft(e) => ReadDouble(p).ok /\ ReadDouble(p).value = v
      BY <1>1, <1>4, <2>1, DoubleRead
  <2> QED  BY <1>4, <2>2, <2>3, Zenon DEF ReadsBack
<1>5. CASE t = "BOOLEAN"
  <2>1. v \in BOOLEAN /\ Value(t) = BOOLEAN
      BY <1>1, <1>5, ValueIs, Zenon
  <2>2. Laid(wire.bits, p, BooleanChunks(v), e)
      BY <1>5, ChunksIs
  <2>3. ReadField(t, p) = ReadBoolean(p)
      BY <1>5, ReadFieldIs
  <2>4. /\ p \in Nat /\ e \in Nat /\ p < e
        /\ ReadBoolean(p).value \in BOOLEAN
        /\ ReadBoolean(p).ok => BytesLeft(p) /\ ReadBoolean(p).pos = e
        /\ BytesLeft(e) => ReadBoolean(p).ok /\ ReadBoolean(p).value = v
      BY <2>1, <2>2, BooleanRead
  <2> QED  BY <2>1, <2>3, <2>4, Zenon DEF ReadsBack
<1>6. CASE t = "UTF8_STRING"
  <2>1. v \in Seq(Byte) /\ LengthAllowed(Len(v)) /\ Value(t) = Seq(Byte)
      BY <1>1, <1>6, ValueIs
  <2>2. Laid(wire.bits, p, StringChunks(v), e)
      BY <1>6, ChunksIs
  <2>3. ReadField(t, p) = ReadString(p)
      BY <1>6, ReadFieldIs
  <2>4. /\ p \in Nat /\ e \in Nat /\ p < e
        /\ ReadString(p).value \in Seq(Byte)
        /\ ReadString(p).ok =>
              /\ BytesLeft(p) /\ ReadString(p).pos \in Nat
              /\ \/ ReadString(p).pos = e
                 \/ ~BytesLeft(ReadString(p).pos) /\ ~BytesLeft(e)
        /\ BytesLeft(e) =>
              /\ ReadString(p).ok /\ ReadString(p).value = v
              /\ ReadString(p).pos = e
      BY <2>1, <2>2, StringRead
  <2> QED  BY <2>1, <2>3, <2>4, Zenon DEF ReadsBack
<1> QED  BY <1>2, <1>3, <1>4, <1>5, <1>6 DEF Type

-----------------------------------------------------------------------------
(* Packets: where the id and the fields of one stand.                      *)

(* s is a finite list, of whatever was added to it.                        *)
IsList(s) == s \in Seq({s[k] : k \in DOMAIN s})

(* A finite list is a function on its indices.                             *)
LEMMA ListIs ==
    ASSUME NEW s, IsList(s)
    PROVE  /\ Len(s) \in Nat /\ DOMAIN s = 1 .. Len(s)
           /\ s = [k \in 1 .. Len(s) |-> s[k]]
BY DEF IsList

(* The empty list.                                                         *)
LEMMA EmptyList ==
    LET s == <<>> IN s \in Seq({s[k] : k \in DOMAIN s}) /\ Len(s) = 0
OBVIOUS

(* A sequence over some set is one over its own elements.                  *)
LEMMA SeqOfItsOwn ==
    ASSUME NEW S, NEW s \in Seq(S)
    PROVE  s \in Seq({s[k] : k \in DOMAIN s})
<1> DEFINE R == {s[k] : k \in DOMAIN s}
<1>1. /\ Len(s) \in Nat /\ DOMAIN s = 1 .. Len(s)
      /\ s = [k \in 1 .. Len(s) |-> s[k]]
    OBVIOUS
<1>2. s \in [1 .. Len(s) -> R]
    BY <1>1
<1> HIDE DEF R
<1>3. s \in Seq(R)
    BY <1>1, <1>2
<1> QED  BY <1>3 DEF R

(* And so is a sequence with one more element, whatever that is.           *)
LEMMA AppendedList ==
    ASSUME NEW S, NEW s \in Seq(S), NEW v
    PROVE  LET t == Append(s, v) IN
           t \in Seq({t[k] : k \in DOMAIN t}) /\ Len(t) = Len(s) + 1
<1>1. s \in Seq(S \cup {v})
    OBVIOUS
<1>2. Append(s, v) \in Seq(S \cup {v}) /\ Len(Append(s, v)) = Len(s) + 1
    BY <1>1
<1> QED  BY <1>2, SeqOfItsOwn

(* A list that is not as long as another has a place for one more.         *)
LEMMA OneMore ==
    ASSUME NEW s, NEW f, IsList(s), IsList(f), Len(s) <= Len(f),
           Len(s) # Len(f)
    PROVE  Len(s) < Len(f) /\ Len(s) + 1 \in 1 .. Len(f)
<1> DEFINE a == Len(s)
           b == Len(f)
<1>1. a \in Nat /\ b \in Nat /\ a <= b /\ a # b
    BY ListIs
<1> HIDE DEF a, b
<1>2. a < b /\ a + 1 \in 1 .. b
    BY <1>1
<1> QED  BY <1>2 DEF a, b

(* The fields vs are those of a packet of the format f.                    *)
Filled(f, vs) ==
    /\ IsList(f) /\ IsList(vs) /\ Len(vs) = Len(f)
    /\ \A k \in 1 .. Len(vs) : f[k] \in Type /\ Sendable(f[k], vs[k])

(* The pieces of each field.                                               *)
FieldsOf(f, vs) == [k \in DOMAIN vs |-> Chunks(f[k], vs[k])]

(* The pieces of the id.                                                   *)
IdOf(i) == Chunks("UINT8", Binary(i, 8))

(* They are sequences of pieces, one for each field.                       *)
LEMMA FieldsOfType ==
    ASSUME NEW f, NEW vs, Filled(f, vs)
    PROVE  /\ Len(vs) \in Nat
           /\ FieldsOf(f, vs) \in Seq(Seq(Piece))
           /\ Len(FieldsOf(f, vs)) = Len(vs)
           /\ \A k \in 1 .. Len(vs) :
                 FieldsOf(f, vs)[k] = Chunks(f[k], vs[k])
<1>1. Len(vs) \in Nat /\ DOMAIN vs = 1 .. Len(vs)
    BY ListIs DEF Filled
<1>2. \A k \in 1 .. Len(vs) : Chunks(f[k], vs[k]) \in Seq(Piece)
  <2>1. \A k \in 1 .. Len(vs) : /\ f[k] \in Type
                                /\ vs[k] \in Value(f[k])
      BY DEF Filled, Sendable
  <2> QED  BY <2>1, ChunksType
<1> DEFINE n == Len(vs)
           C(k) == Chunks(f[k], vs[k])
           g == [k \in 1 .. n |-> C(k)]
<1>3. FieldsOf(f, vs) = g
    BY <1>1 DEF FieldsOf
<1>4. n \in Nat /\ \A k \in 1 .. n : C(k) \in Seq(Piece)
    BY <1>1, <1>2
<1> HIDE DEF n, C
<1>5. g \in Seq(Seq(Piece)) /\ Len(g) = n /\ \A k \in 1 .. n : g[k] = C(k)
    BY <1>4
<1> HIDE DEF g
<1> QED  BY <1>3, <1>4, <1>5 DEF n, C

(* The id is written as an unsigned integer of 8 bits.                     *)
LEMMA IdChunksIs ==
    ASSUME NEW i
    PROVE  /\ IdOf(i) = UIntChunks(Binary(i, 8), 8)
           /\ IdOf(i) \in Seq(Piece)
           /\ Binary(i, 8) \in SUBSET (0 .. 8 - 1)
<1>1. "UINT8" \in Unsigned
    BY DEF Unsigned
<1>2. IdOf(i) = UIntChunks(Binary(i, 8), 8)
    BY <1>1, ChunksIs, WidthIs DEF IdOf
<1>3. Binary(i, 8) \in SUBSET (0 .. 8 - 1)
    BY BinaryType
<1> QED  BY <1>2, <1>3, UIntChunksType, WidthIs

(* A packet is written as its id and then its fields.                      *)
LEMMA SerializedIs ==
    ASSUME NEW i, NEW vs, Filled(table[i], vs)
    PROVE  /\ IdOf(i) \in Seq(Piece)
           /\ FlattenSeq(FieldsOf(table[i], vs)) \in Seq(Piece)
           /\ IdOf(i) \o FlattenSeq(FieldsOf(table[i], vs)) \in Seq(Piece)
           /\ Serialized(i, vs) =
                 FoldLeft(Write, Cleared,
                          IdOf(i) \o FlattenSeq(FieldsOf(table[i], vs)))
<1> DEFINE f == FieldsOf(table[i], vs)
           x == IdOf(i)
           y == FlattenSeq(f)
<1>1. f \in Seq(Seq(Piece)) /\ Len(f) \in Nat
    BY FieldsOfType
<1>2. Serialized(i, vs) = FoldLeft(Write, Cleared, x \o y)
    BY Zenon DEF Serialized, FieldsOf, IdOf
<1> HIDE DEF f, x
<1>3. y \in Seq(Piece)
  <2>1. PICK p \in [0 .. Len(f) -> Seq(Piece)] : y = p[Len(f)]
      BY <1>1, Flattening
  <2> HIDE DEF y
  <2>2. Len(f) \in 0 .. Len(f)
      BY <1>1
  <2> QED  BY <2>1, <2>2
<1>4. x \in Seq(Piece)
    BY IdChunksIs DEF x
<1> HIDE DEF y
<1>5. x \o y \in Seq(Piece)
    BY <1>3, <1>4
<1> QED  BY <1>2, <1>3, <1>4, <1>5 DEF x, y, f

(* What SerializePacket leaves in the array.                               *)
LEMMA SerializedType ==
    ASSUME NEW i, NEW vs, Filled(table[i], vs)
    PROVE  Serialized(i, vs) \in Output
<1> DEFINE s == IdOf(i) \o FlattenSeq(FieldsOf(table[i], vs))
           o == FoldLeft(Write, Cleared, s)
<1>1. s \in Seq(Piece) /\ Serialized(i, vs) = o
    BY SerializedIs
<1> HIDE DEF s
<1>2. PICK w \in [0 .. Len(s) -> Output] : o = w[Len(s)]
    BY <1>1, WriteType, Writing
<1> HIDE DEF o
<1>3. Len(s) \in Nat
    BY <1>1
<1>4. Len(s) \in 0 .. Len(s)
    BY <1>3
<1> QED  BY <1>1, <1>2, <1>4

(* Where the fields of the packet are in bits.                             *)
Layout(E, bits, i, f, vs) ==
    /\ E \in [0 .. Len(vs) -> Nat]
    /\ Laid(bits, 0, IdOf(i), E[0])
    /\ \A k \in 1 .. Len(vs) :
          Laid(bits, E[k - 1], Chunks(f[k], vs[k]), E[k])

(* A packet of which nothing was refused stands in the array field by      *)
(* field.                                                                  *)
LEMMA SerializedLayout ==
    ASSUME NEW i, NEW vs, Filled(table[i], vs), Serialized(i, vs).ok
    PROVE  \E E : /\ Layout(E, Serialized(i, vs).bits, i,
                            table[i], vs)
                  /\ E[Len(vs)] = Serialized(i, vs).len
<1> DEFINE f == FieldsOf(table[i], vs)
           x == IdOf(i)
           y == FlattenSeq(f)
           o == Serialized(i, vs)
           n == Len(vs)
<1>1. /\ f \in Seq(Seq(Piece)) /\ Len(f) = n /\ n \in Nat
      /\ \A k \in 1 .. n : f[k] = Chunks(table[i][k], vs[k])
    BY FieldsOfType
<1>2. /\ x \in Seq(Piece) /\ y \in Seq(Piece) /\ x \o y \in Seq(Piece)
      /\ o = FoldLeft(Write, Cleared, x \o y)
    BY SerializedIs
<1>3. o.ok
    OBVIOUS
<1> HIDE DEF f, x, o, n
<1>4. Laid(o.bits, 0, x \o y, o.len)
  <2> DEFINE z == x \o y
  <2>1. z \in Seq(Piece) /\ o = FoldLeft(Write, Cleared, z)
      BY <1>2
  <2> HIDE DEF z, y
  <2>2. FoldLeft(Write, Cleared, z).ok
      BY <1>3, <2>1
  <2>3. Laid(o.bits, 0, z, o.len)
      BY <2>1, <2>2, WrittenIsLaid
  <2> QED  BY <2>3 DEF z
<1>5. PICK b : Laid(o.bits, 0, x, b) /\ Laid(o.bits, b, y, o.len)
  <2> HIDE DEF y
  <2> QED  BY <1>2, <1>4, LaidSplit
<1>6. b \in Nat /\ o.len \in Nat
  <2> HIDE DEF y
  <2> QED  BY <1>2, <1>5, LaidForward
<1>7. PICK E \in [0 .. Len(f) -> Nat] :
          /\ E[0] = b /\ E[Len(f)] = o.len
          /\ \A k \in 1 .. Len(f) : Laid(o.bits, E[k - 1], f[k], E[k])
  <2> DEFINE B == o.bits
             e == o.len
  <2>1. /\ f \in Seq(Seq(Piece)) /\ b \in Nat /\ e \in Nat
        /\ Laid(B, b, FlattenSeq(f), e)
      BY <1>1, <1>5, <1>6
  <2> HIDE DEF B, e
  <2>2. \E E \in [0 .. Len(f) -> Nat] :
           /\ E[0] = b /\ E[Len(f)] = e
           /\ \A k \in 1 .. Len(f) : Laid(B, E[k - 1], f[k], E[k])
    <3>1. LaidAll(B, b, f, e)
        BY <2>1, LaidFields
    <3> QED  BY <3>1 DEF LaidAll
  <2> QED  BY <2>2 DEF B, e
<1>8. /\ E \in [0 .. n -> Nat] /\ E[n] = o.len /\ Laid(o.bits, 0, x, E[0])
      /\ \A k \in 1 .. n :
            Laid(o.bits, E[k - 1], Chunks(table[i][k], vs[k]), E[k])
    BY <1>1, <1>5, <1>7
<1> QED  BY <1>8 DEF Layout, o, n, x

(* The offset after n bits in closed form: the byte of the last bit, or    *)
(* byte a if there are more bits than that; the bits since it began.       *)
ByteOf(a, n) ==
    IF n = 0 THEN 0 ELSE IF a <= (n - 1) \div 8 THEN a ELSE (n - 1) \div 8
OffAt(a, n) ==
    [size_off |-> ByteOf(a, n), bit_off |-> (n - 8 * ByteOf(a, n)) % 256]

(* Counting one bit more modulo 256.                                       *)
LEMMA CountsOn ==
    ASSUME NEW x \in Nat
    PROVE  ((x % 256) + 1) % 256 = (x + 1) % 256
<1> DEFINE q == x \div 256
           r == x % 256
<1>1. x = 256 * q + r /\ q \in Nat /\ r \in 0 .. 255
    OBVIOUS
<1> HIDE DEF q, r
<1>2. CASE r = 255
  <2>1. x + 1 = 256 * (q + 1)
      BY <1>1, <1>2
  <2>2. (x + 1) % 256 = 0
      BY <1>1, <2>1
  <2> QED  BY <1>2, <2>2 DEF r
<1>3. CASE r # 255
  <2>1. (r + 1) % 256 = r + 1
      BY <1>1, <1>3
  <2>2. x + 1 = 256 * q + (r + 1) /\ r + 1 \in 0 .. 255
      BY <1>1, <1>3
  <2>3. (x + 1) % 256 = r + 1
      BY <1>1, <2>2
  <2> QED  BY <2>1, <2>3 DEF r
<1> QED  BY <1>2, <1>3

(* Writing one bit counts on as the closed form says.                      *)
LEMMA OffStep ==
    ASSUME NEW a \in Nat, NEW n \in Nat
    PROVE  /\ ByteOf(a, n) \in 0 .. a
           /\ ByteOf(a, n) < a => n <= 8 * (ByteOf(a, n) + 1)
           /\ OffAt(a, n) \in Off
           /\ BitWritten(a)[OffAt(a, n)] = OffAt(a, n + 1)
<1> DEFINE s == ByteOf(a, n)
           t == ByteOf(a, n + 1)
           o == OffAt(a, n)
           c == SizeIncrementCheck(o, a)
<1>1. /\ s \in 0 .. a /\ 8 * s <= n
      /\ s < a => n <= 8 * (s + 1)
    BY DEF ByteOf
<1>2. n - 8 * s \in Nat
    BY <1>1
<1>3. OffAt(a, n) = [size_off |-> s, bit_off |-> (n - 8 * s) % 256]
    BY DEF OffAt
<1>4. OffAt(a, n + 1)
        = [size_off |-> t, bit_off |-> ((n + 1) - 8 * t) % 256]
    BY DEF OffAt
<1> HIDE DEF s, t
<1>5. (n - 8 * s) % 256 \in 0 .. 255
    BY <1>2
<1>6. o \in Off /\ o.size_off = s /\ o.bit_off = (n - 8 * s) % 256
    BY <1>1, <1>3, <1>5 DEF Off
<1> HIDE DEF o, c
<1>7. CASE s < a /\ n - 8 * s = 8
  <2>1. t = s + 1
    <3>1. ((n + 1) - 1) \div 8 = s + 1
      <4>1. n = 8 * (s + 1) /\ s + 1 \in Nat
          BY <1>1, <1>7
      <4> QED  BY <4>1
    <3> QED  BY <1>1, <1>7, <3>1 DEF ByteOf, t
  <2>2. c = [size_off |-> s + 1, bit_off |-> 0]
      BY <1>6, <1>7 DEF SizeIncrementCheck, c
  <2>3. BitWritten(a)[o] = [size_off |-> s + 1, bit_off |-> 1]
      BY <1>6, <2>2 DEF BitWritten, c
  <2>4. (n + 1) - 8 * t = 1
      BY <1>1, <1>7, <2>1
  <2> QED  BY <1>1, <1>6, <1>4, <2>1, <2>3, <2>4 DEF o, s
<1>8. CASE ~(s < a /\ n - 8 * s = 8)
  <2>1. t = s
    <3>1. CASE n = 0
        BY <3>1 DEF ByteOf, s, t
    <3>2. CASE n # 0 /\ s < a
      <4>1. s = (n - 1) \div 8 /\ n < 8 * (s + 1)
          BY <1>1, <1>8, <3>2 DEF ByteOf, s
      <4>2. ((n + 1) - 1) \div 8 = s
          BY <1>1, <4>1
      <4> QED  BY <1>1, <3>2, <4>2 DEF ByteOf, t
    <3>3. CASE n # 0 /\ s = a
      <4>1. a <= (n - 1) \div 8
          BY <3>3 DEF ByteOf, s
      <4>2. a <= ((n + 1) - 1) \div 8
          BY <4>1
      <4> QED  BY <3>3, <4>2 DEF ByteOf, t
    <3> QED  BY <1>1, <3>1, <3>2, <3>3
  <2>2. ~(o.bit_off = 8 /\ o.size_off < a)
    <3>1. s < a => n - 8 * s \in 0 .. 8
        BY <1>1, <1>2
    <3>2. s < a => o.bit_off = n - 8 * s
        BY <1>6, <3>1
    <3> QED  BY <1>6, <1>8, <3>2
  <2>3. c = o
      BY <2>2 DEF SizeIncrementCheck, c
  <2>4. BitWritten(a)[o]
          = [size_off |-> s, bit_off |-> (o.bit_off + 1) % 256]
      BY <1>6, <2>3 DEF BitWritten, c
  <2>5. (o.bit_off + 1) % 256 = (n - 8 * s + 1) % 256
      BY <1>2, <1>6, CountsOn
  <2>6. (n + 1) - 8 * t = n - 8 * s + 1
      BY <1>1, <2>1
  <2> QED  BY <1>1, <1>6, <1>4, <2>1, <2>4, <2>5, <2>6 DEF o, s
<1> QED  BY <1>7, <1>8

(* The table of the offsets is that of the closed form.                    *)
LEMMA OffsAre ==
    ASSUME NEW a \in Nat, NEW n \in Nat
    PROVE  Offs(a)[n] = OffAt(a, n)
<1> DEFINE Counts(f) ==
               f = [m \in Nat |->
                      IF m = 0 THEN FirstOff ELSE BitWritten(a)[f[m - 1]]]
           g == [m \in Nat |-> OffAt(a, m)]
           off == Offs(a)
<1>1. OffAt(a, 0) = FirstOff
    BY DEF OffAt, ByteOf, FirstOff
<1>2. Counts(g)
  <2>1. ASSUME NEW m \in Nat
        PROVE  g[m] = IF m = 0 THEN FirstOff ELSE BitWritten(a)[g[m - 1]]
    <3>1. CASE m = 0
        BY <1>1, <3>1
    <3>2. CASE m # 0
      <4>1. m - 1 \in Nat /\ (m - 1) + 1 = m
          BY <3>2
      <4>2. BitWritten(a)[OffAt(a, m - 1)] = OffAt(a, m)
          BY <4>1, OffStep
      <4> QED  BY <3>2, <4>1, <4>2
    <3> QED  BY <3>1, <3>2
  <2> QED  BY <2>1
<1>3. off = CHOOSE f : Counts(f)
    BY DEF Offs
<1> HIDE DEF Counts, g, off
<1>4. Counts(off)
    BY <1>2, <1>3
<1> DEFINE T == {m \in Nat : off[m] = OffAt(a, m)}
<1>5. 0 \in T
    BY <1>1, <1>4 DEF Counts
<1>6. ASSUME NEW m \in T
      PROVE  m + 1 \in T
  <2>1. m \in Nat /\ off[m] = OffAt(a, m)
      OBVIOUS
  <2>2. m + 1 \in Nat /\ m + 1 # 0 /\ (m + 1) - 1 = m
      BY <2>1
  <2>3. off[m + 1] = BitWritten(a)[off[m]]
      BY <2>2, <1>4 DEF Counts
  <2>4. BitWritten(a)[OffAt(a, m)] = OffAt(a, m + 1)
      BY <2>1, OffStep
  <2>5. off[m + 1] = OffAt(a, m + 1)
      BY <2>1, <2>3, <2>4
  <2> QED  BY <2>2, <2>5
<1>7. T \subseteq Nat
    OBVIOUS
<1>8. T = Nat
  <2> HIDE DEF T
  <2> QED  BY <1>5, <1>6, <1>7, Induction
<1>9. n \in T
    BY <1>8
<1> QED  BY <1>9 DEF off

(* The offset stays within the array; as long as it is before the last     *)
(* byte, all the bits written are before it (size_off).                    *)
LEMMA SizeOffIs ==
    ASSUME sendSize \in Nat \ {0, 1}, NEW n \in Nat
    PROVE  /\ SizeOff(n) \in Nat /\ SizeOff(n) < sendSize
           /\ SizeOff(n) + 1 < sendSize => n <= 8 * (SizeOff(n) + 1)
<1> DEFINE a == Room(sendSize)
<1>1. a \in Nat /\ a = sendSize - 1
    BY DEF Room
<1> HIDE DEF a
<1>2. SizeOff(n) = OffAt(a, n).size_off
    BY <1>1, OffsAre DEF SizeOff, a
<1>3. SizeOff(n) = ByteOf(a, n)
    BY <1>2 DEF OffAt
<1>4. /\ ByteOf(a, n) \in 0 .. a
      /\ ByteOf(a, n) < a => n <= 8 * (ByteOf(a, n) + 1)
    BY <1>1, OffStep
<1> QED  BY <1>1, <1>3, <1>4

(* No field ends after the last one does.                                  *)
LEMMA LayoutUp ==
    ASSUME NEW E, NEW bits, NEW i, NEW f, NEW vs,
           Filled(f, vs), Layout(E, bits, i, f, vs)
    PROVE  /\ Len(vs) \in Nat /\ E \in [0 .. Len(vs) -> Nat]
           /\ \A k \in 0 .. Len(vs) : E[k] \in Nat /\ E[k] <= E[Len(vs)]
<1> DEFINE n == Len(vs)
<1>1. n \in Nat /\ E \in [0 .. n -> Nat]
    BY ListIs DEF Filled, Layout
<1>2. ASSUME NEW k \in 1 .. n
      PROVE  E[k - 1] <= E[k]
  <2>1. f[k] \in Type /\ vs[k] \in Value(f[k])
      BY DEF Filled, Sendable
  <2>2. Chunks(f[k], vs[k]) \in Seq(Piece)
      BY <2>1, ChunksType
  <2>3. Laid(bits, E[k - 1], Chunks(f[k], vs[k]), E[k])
      BY DEF Layout
  <2> QED  BY <2>2, <2>3, LaidForward
<1> HIDE DEF n
<1>3. \A k \in 0 .. n : E[k] <= E[n]
    BY <1>1, <1>2, Monotone
<1>4. \A k \in 0 .. n : E[k] \in Nat
    BY <1>1
<1> QED  BY <1>1, <1>3, <1>4 DEF n

(* Nothing is read once nothing is left (DeserializeArgCheck).             *)
LEMMA ReadNeedsBytes ==
    ASSUME wire.size \in Nat, NEW t \in Type, NEW p \in Nat,
           ReadField(t, p).ok
    PROVE  BytesLeft(p)
<1>1. CASE t \in Unsigned
  <2>1. ReadUInt(p, Width[t]).ok
      BY <1>1, ReadFieldIs
  <2> QED  BY <2>1 DEF ReadUInt, Read
<1>2. CASE t \in Signed
  <2>1. ReadInt(p, Width[t]).ok
      BY <1>2, ReadFieldIs
  <2> QED  BY <2>1 DEF ReadInt, Read
<1>3. BytesLeftAhead(p) => BytesLeft(p)
    BY DEF BytesLeft, BytesLeftAhead
<1>4. CASE t = "DOUBLE"
  <2>1. ReadDouble(p).ok
      BY <1>4, ReadFieldIs
  <2> QED  BY <1>3, <2>1 DEF ReadDouble, Read
<1>5. CASE t = "BOOLEAN"
  <2>1. ReadBoolean(p).ok
      BY <1>5, ReadFieldIs
  <2> QED  BY <2>1 DEF ReadBoolean, Read
<1>6. CASE t = "UTF8_STRING"
  <2>1. ReadString(p).ok
      BY <1>6, ReadFieldIs
  <2> QED  BY <1>3, <2>1 DEF ReadString, Read
<1> QED  BY <1>1, <1>2, <1>4, <1>5, <1>6 DEF Type

(* What the id is read as.                                                 *)
IdReads ==
    \A i \in PacketId : \A e :
        /\ wire.size \in Nat
        /\ Laid(wire.bits, 0, IdOf(i), e)
        /\ ReadUInt(0, 8).ok
        => /\ e \in Nat /\ ReadUInt(0, 8).pos = e
           /\ BytesLeft(e) => Number(ReadUInt(0, 8).value) = i

(* It is read as what was sent, if it was received whole.                  *)
LEMMA IdRead == IdReads
<1> SUFFICES ASSUME NEW i \in PacketId, NEW e, wire.size \in Nat,
                    Laid(wire.bits, 0, IdOf(i), e), ReadUInt(0, 8).ok
             PROVE  /\ e \in Nat /\ ReadUInt(0, 8).pos = e
                    /\ BytesLeft(e) => Number(ReadUInt(0, 8).value) = i
    BY DEF IdReads
<1> DEFINE v == Binary(i, 8)
<1>1. Laid(wire.bits, 0, UIntChunks(v, 8), e) /\ v \in SUBSET (0 .. 8 - 1)
    BY IdChunksIs
<1>2. i \in 0 .. 255
    BY DEF PacketId, PACKET_TABLE_SIZE
<1>3. Number(v) = i
    BY <1>2, NumberOfByte
<1> HIDE DEF v
<1>4. /\ e \in Nat /\ ReadUInt(0, 8).pos = e
      /\ BytesLeft(e) => ReadUInt(0, 8).value = v
  <2> DEFINE p == 0
             width == 8
  <2>1. /\ Laid(wire.bits, p, UIntChunks(v, width), e) /\ width \in Widths
        /\ v \in SUBSET (0 .. width - 1) /\ ReadUInt(p, width).ok
      BY <1>1, WidthIs
  <2> HIDE DEF p, width
  <2>2. /\ e \in Nat /\ ReadUInt(p, width).pos = e
        /\ BytesLeft(e) => ReadUInt(p, width).value = v
    <3>1. wire.size \in Nat
        OBVIOUS
    <3>2. /\ e \in Nat
          /\ ReadUInt(p, width).ok =>
                BytesLeft(p) /\ ReadUInt(p, width).pos = e
          /\ BytesLeft(e) =>
                ReadUInt(p, width).ok /\ ReadUInt(p, width).value = v
        BY <2>1, <3>1, UIntRead, SMTT(30)
    <3> QED  BY <2>1, <3>2
  <2> QED  BY <2>2 DEF p, width
<1> QED  BY <1>3, <1>4

-----------------------------------------------------------------------------
(* The invariant, apart from the nodes.                                    *)

(* data_list is a finite list.                                             *)
ListInv == IsList(list)

(* The table and the sizes are those that the constants allow.             *)
RigidInv ==
    table \in Tables /\ sendSize \in SendSizes /\ recvSize \in RecvSizes

(* Each variable has its type, and there is no list where there is no      *)
(* packet in hand.                                                         *)
StateInv ==
    /\ pc \in {"idle", "add", "serialized", "sent", "decode", "decoded",
               "refused"}
    /\ id \in PacketId /\ pos \in Nat /\ out \in Output
    /\ wire \in [bits : SUBSET Nat, size : Nat]
    /\ pc \in {"idle", "sent", "refused"} => list = <<>>

(* The fields in s are of a packet of the format f, so far.                *)
Filling(f, s) ==
    /\ Len(s) <= Len(f)
    /\ \A k \in 1 .. Len(s) : Sendable(f[k], s[k])

(* A packet that is being built holds values of its format; once it is     *)
(* serialized and nothing was refused, they stand in the array.            *)
BuildInv ==
    /\ pc \in {"add", "serialized"} => Filling(table[id], list)
    /\ pc = "serialized" =>
          /\ Len(list) = Len(table[id])
          /\ out.ok =>
                \E E : /\ Layout(E, out.bits, id, table[id], list)
                      /\ E[Len(list)] = out.len

(* What is read so far is what was sent.                                   *)
Exact(E, i, l, p, s) ==
    /\ i = s.id /\ p = E[Len(l)]
    /\ \A k \in 1 .. Len(l) : l[k] = s.fields[k]

(* All but the last field are.                                             *)
AllButLast(i, l, s) ==
    Len(l) # 0 =>
        /\ i = s.id
        /\ \A k \in 1 .. Len(l) - 1 : l[k] = s.fields[k]

(* What was read has the types of the format.                              *)
ReadTyped(f, s) ==
    /\ Len(s) <= Len(f)
    /\ \A k \in 1 .. Len(s) : s[k] \in Value(f[k])

(* BytesLeft of an array of this size.                                     *)
Left(size, p) == p <= 8 * size

(* What a receiver has read, when the sent packet stands as E says: all of *)
(* it as it was sent; or it is past the end, and then only the last field  *)
(* can differ.                                                             *)
Arrived(E) ==
    /\ pc = "refused" => ~Left(wire.size, out.len)
    /\ pc \in {"decode", "decoded"} =>
          /\ ReadTyped(table[id], list)
          /\ \/ Exact(E, id, list, pos, sent)
             \/ /\ ~Left(wire.size, pos) /\ ~Left(wire.size, out.len)
                /\ AllButLast(id, list, sent)
    /\ pc = "decoded" => Len(list) = Len(table[id])

(* The packet that was sent is one of its format, and stands in the array  *)
(* as E says.                                                              *)
Sent(E) ==
    /\ sent = [id |-> sent.id, fields |-> sent.fields]
    /\ sent.id \in PacketId
    /\ Filled(table[sent.id], sent.fields)
    /\ Layout(E, wire.bits, sent.id, table[sent.id], sent.fields)
    /\ E[Len(sent.fields)] = out.len

(* From the sending on there are such positions, and the array is as long  *)
(* as what was written.                                                    *)
SentInv ==
    pc \in {"sent", "decode", "decoded", "refused"} =>
        out.len <= 8 * OutSize /\ \E E : Sent(E) /\ Arrived(E)

(* The inductive invariant, apart from the nodes.                          *)
CodecInv == RigidInv /\ StateInv /\ BuildInv /\ SentInv

-----------------------------------------------------------------------------
(* What it says of formats, sizes and lists.                               *)

(* The formats in the table (TablesAssumption).                            *)
LEMMA FormatIs ==
    ASSUME RigidInv, NEW i \in PacketId
    PROVE  /\ Len(table[i]) \in 1 .. 6 /\ Len(table[i]) \in Nat
           /\ IsList(table[i])
           /\ \A k \in 1 .. Len(table[i]) : table[i][k] \in Type
<1>1. IsFormat(table[i])
    BY TablesAssumption DEF RigidInv
<1>2. table[i] \in Seq(Type) /\ Len(table[i]) \in 1 .. 6
    BY <1>1 DEF IsFormat, MAX_PACKET_FIELDS
<1> DEFINE f == table[i]
<1> HIDE DEF f
<1>3. f \in Seq(Type) =>
          Len(f) \in Nat /\ \A k \in 1 .. Len(f) : f[k] \in Type
    OBVIOUS
<1>4. f \in Seq(Type) => IsList(f)
    BY SeqOfItsOwn DEF IsList
<1> QED  BY <1>2, <1>3, <1>4 DEF f

(* The sizes of the arrays (SizesAssumption).                              *)
LEMMA SizesAre ==
    ASSUME RigidInv
    PROVE  sendSize \in Nat \ {0, 1} /\ recvSize \in Nat \ {0, 1}
BY SizesAssumption DEF RigidInv

(* A list that is as long as the format fills it.                          *)
LEMMA FilledIs ==
    ASSUME RigidInv, NEW i \in PacketId, NEW s, IsList(s),
           Filling(table[i], s), Len(s) = Len(table[i])
    PROVE  Filled(table[i], s)
BY FormatIs DEF Filled, Filling

(* No field yet.                                                           *)
LEMMA EmptyFill == \A f : IsList(f) => Filling(f, <<>>) /\ ReadTyped(f, <<>>)
<1> TAKE f
<1>1. IsList(f) => Len(f) \in Nat
    BY ListIs
<1> QED  BY <1>1 DEF Filling, ReadTyped

(* Add appends, and changes nothing before.                                *)
LEMMA Appended ==
    ASSUME ListInv, NEW v, Add(v)
    PROVE  /\ IsList(list) /\ IsList(list')
           /\ Len(list) \in Nat /\ Len(list') = Len(list) + 1
           /\ list'[Len(list) + 1] = v
           /\ \A k \in 1 .. Len(list) : list'[k] = list[k]
<1> DEFINE S == {list[k] : k \in DOMAIN list} \cup {v}
           s == list
           t == Append(s, v)
<1>1. s \in Seq(S)
    BY DEF ListInv, IsList
<1>2. v \in S
    OBVIOUS
<1> HIDE DEF S, s
<1>3. /\ Len(s) \in Nat /\ Len(t) = Len(s) + 1 /\ t[Len(s) + 1] = v
      /\ \A k \in 1 .. Len(s) : t[k] = s[k]
    BY <1>1, <1>2
<1>4. IsList(t)
    BY <1>1, <1>2, AppendedList DEF IsList
<1>5. IsList(s)
    BY DEF s, ListInv
<1> QED  BY <1>3, <1>4, <1>5 DEF Add, s

-----------------------------------------------------------------------------
(* The nodes.                                                              *)

(* Every node of the list is accounted for.                                *)
NodesInv == ListInv /\ NodesAccounted

(* The number of its nodes.                                                *)
LEMMA LengthOfList == ListInv => Len(list) \in Nat
BY DEF ListInv, IsList

(* FreePacket frees what the packet has.                                   *)
LEMMA FreesAll ==
    ASSUME ListInv, FreePacket, heap = Len(list)
    PROVE  heap' = 0 /\ list' = <<>>
BY LengthOfList DEF FreePacket

(* A field adds one node to the list, and one to the heap.                 *)
LEMMA AddStep ==
    ASSUME ListInv, NEW v, Add(v)
    PROVE  ListInv' /\ Len(list') = Len(list) + 1 /\ heap' = heap + 1
BY AppendedList DEF ListInv, IsList, Add

(* Every way through and out of a packet keeps the account.                *)
LEMMA StepNodes == NodesInv /\ [Next]_vars => NodesInv'
<1> SUFFICES ASSUME NodesInv, [Next]_vars
             PROVE  NodesInv'
    OBVIOUS
<1> USE DEF NodesInv, NodesAccounted, packetVars
<1>1. /\ Len(list) \in Nat
      /\ <<>> \in Seq({<<>>[k] : k \in DOMAIN <<>>}) /\ Len(<<>>) = 0
    BY EmptyList, LengthOfList
<1>2. ASSUME NEW i \in PacketId, NewPacket(i)
      PROVE  NodesInv'
    BY <1>1, <1>2 DEF NewPacket, ListInv, IsList
<1>3. ASSUME NEW t \in Type, NEW v \in Samples[t], AddSerializable(t, v)
      PROVE  NodesInv'
    BY <1>1, <1>3, AddStep DEF AddSerializable
<1>4. CASE AddSerializableFails
    BY <1>1, <1>4, FreesAll DEF AddSerializableFails, ListInv, IsList
<1>5. CASE SerializePacket
    BY <1>1, <1>5 DEF SerializePacket, ListInv, IsList
<1>6. CASE SendPacket
    BY <1>1, <1>6, FreesAll DEF SendPacket, ListInv, IsList
<1>7. CASE RefuseToSend
    BY <1>1, <1>7, FreesAll DEF RefuseToSend, ListInv, IsList
<1>8. CASE ReceivePacket
    BY <1>1, <1>8 DEF ReceivePacket, ListInv, IsList
<1>9. CASE DeserializeField
  <2>1. PICK v : Add(v)
      BY <1>9 DEF DeserializeField
  <2> QED  BY <1>1, <1>9, <2>1, AddStep DEF DeserializeField
<1>10. CASE Deserialized
    BY <1>1, <1>10 DEF Deserialized, ListInv, IsList
<1>11. CASE RefuseField
    BY <1>1, <1>11, FreesAll DEF RefuseField, ListInv, IsList
<1>12. CASE DeserializeOutOfMemory
    BY <1>1, <1>12, FreesAll DEF DeserializeOutOfMemory, ListInv, IsList
<1>13. CASE Done
    BY <1>1, <1>13, FreesAll DEF Done, ListInv, IsList
<1>14. CASE UNCHANGED vars
    BY <1>1, <1>14 DEF vars, ListInv, IsList
<1> QED
    BY <1>2, <1>3, <1>4, <1>5, <1>6, <1>7, <1>8, <1>9, <1>10, <1>11, <1>12,
        <1>13, <1>14 DEF Next

(* Before the first packet there is none, and nothing is allocated.        *)
LEMMA InitNodes == Init => NodesInv
BY EmptyList DEF Init, NodesInv, ListInv, IsList, NodesAccounted

-----------------------------------------------------------------------------
(* The steps of a sender, and the receipt.                                 *)

(* The invariant holds at first.                                           *)
LEMMA InitInv == Init => CodecInv
<1> SUFFICES ASSUME Init
             PROVE  CodecInv
    OBVIOUS
<1>1. Cleared \in Output
    BY WriteType
<1>2. Nothing \in [bits : SUBSET Nat, size : Nat] /\ 0 \in PacketId
    BY DEF Nothing, PacketId, PACKET_TABLE_SIZE
<1> QED
    BY <1>1, <1>2 DEF Init, CodecInv, RigidInv, StateInv, BuildInv, SentInv

(* NewPacket keeps the invariant.                                          *)
LEMMA NewPacketStep ==
    ASSUME CodecInv, NEW i \in PacketId, NewPacket(i)
    PROVE  CodecInv'
<1> USE DEF CodecInv, NewPacket, rigidVars
<1>1. RigidInv'
    BY DEF RigidInv
<1>2. StateInv'
  <2>1. Cleared \in Output
      BY WriteType
  <2>2. Nothing \in [bits : SUBSET Nat, size : Nat]
      BY DEF Nothing
  <2> QED  BY <2>1, <2>2 DEF StateInv
<1>3. BuildInv'
  <2>1. IsList(table[i])
      BY FormatIs
  <2>2. Filling(table[i], <<>>)
      BY <2>1, EmptyFill
  <2> QED  BY <2>2 DEF BuildInv
<1>4. SentInv'
    BY DEF SentInv
<1> QED  BY <1>1, <1>2, <1>3, <1>4

(* So does a field that is added: it has the type that comes next.         *)
LEMMA AddStepInv ==
    ASSUME CodecInv, ListInv, NEW t \in Type, NEW v \in Samples[t],
           AddSerializable(t, v)
    PROVE  CodecInv'
<1> USE DEF CodecInv, AddSerializable, rigidVars
<1>1. RigidInv'
    BY DEF RigidInv
<1>2. StateInv'
    BY DEF StateInv
<1>3. BuildInv'
  <2>1. Sendable(t, v)
      BY SamplesAssumption DEF Sendable
  <2>2. Filling(table[id], list) /\ t = table[id][Len(list) + 1]
        /\ Len(list) # Len(table[id]) /\ id \in PacketId
      BY DEF BuildInv, NextType, Complete, StateInv
  <2>3. /\ IsList(list) /\ Len(list) \in Nat
        /\ Len(list') = Len(list) + 1
        /\ list'[Len(list) + 1] = v
        /\ \A k \in 1 .. Len(list) : list'[k] = list[k]
      BY Appended
  <2>4. Len(table[id]) \in Nat /\ IsList(table[id])
      BY <2>2, FormatIs
  <2>5. \A k \in 1 .. Len(list) + 1 : k \in 1 .. Len(list) \/ k = Len(list) + 1
      BY <2>3
  <2> DEFINE f == table[id]
             n == Len(list)
  <2>6. Len(list) <= Len(table[id]) => Len(list) + 1 \in 1 .. Len(table[id])
      BY <2>2, <2>3, <2>4, OneMore
  <2>7. /\ n \in Nat /\ n + 1 <= Len(f)
        /\ \A k \in 1 .. n : Sendable(f[k], list'[k])
        /\ Sendable(f[n + 1], list'[n + 1])
        /\ \A k \in 1 .. n + 1 : k \in 1 .. n \/ k = n + 1
        /\ Len(list') = n + 1
      BY <2>1, <2>2, <2>3, <2>5, <2>6 DEF Filling
  <2> HIDE DEF f, n
  <2>8. Filling(f, list')
    <3>1. Len(list') <= Len(f)
        BY <2>7
    <3>2. \A k \in 1 .. n + 1 : Sendable(f[k], list'[k])
        BY <2>7
    <3> QED  BY <2>7, <3>1, <3>2 DEF Filling
  <2>9. table' = table /\ id' = id /\ pc' = "add"
      OBVIOUS
  <2> QED  BY <2>8, <2>9 DEF BuildInv, f
<1>4. SentInv'
    BY DEF SentInv
<1> QED  BY <1>1, <1>2, <1>3, <1>4

(* So do all the ways out of a packet.                                     *)
LEMMA IdleStep ==
    ASSUME CodecInv, pc' = "idle", list' = <<>>,
           UNCHANGED <<rigidVars, id, out, wire, pos>>
    PROVE  CodecInv'
BY DEF CodecInv, RigidInv, StateInv, BuildInv, SentInv, rigidVars

(* So does SerializePacket: the list is written as the format says.        *)
LEMMA SerializeStep ==
    ASSUME CodecInv, ListInv, SerializePacket
    PROVE  CodecInv'
<1> USE DEF CodecInv, SerializePacket, rigidVars, packetVars
<1>1. RigidInv'
    BY DEF RigidInv
<1>2. /\ Filling(table[id], list) /\ Len(list) = Len(table[id])
      /\ id \in PacketId
    BY DEF BuildInv, Complete, StateInv
<1>3. Filled(table[id], list)
    BY <1>2, FilledIs DEF ListInv
<1>4. StateInv'
  <2>1. out' \in Output
      BY <1>3, SerializedType
  <2> QED  BY <2>1 DEF StateInv
<1>5. BuildInv'
  <2>1. out'.ok => \E E : /\ Layout(E, out'.bits, id, table[id], list)
                          /\ E[Len(list)] = out'.len
      BY <1>3, SerializedLayout
  <2> QED  BY <1>2, <2>1 DEF BuildInv
<1>6. SentInv'
    BY DEF SentInv
<1> QED  BY <1>1, <1>4, <1>5, <1>6

(* The two say the same.                                                   *)
LEMMA LeftIs == \A p : BytesLeft(p) <=> Left(wire.size, p)
BY DEF BytesLeft, Left

(* out_size depends on the array and its size alone.                       *)
LEMMA OutSizeSame ==
    ASSUME UNCHANGED <<out, sendSize>>
    PROVE  OutSize' = OutSize
BY DEF OutSize, SizeOff

(* Sending keeps the invariant: no bit is beyond the size that is sent.    *)
LEMMA SendStep ==
    ASSUME CodecInv, ListInv, SendPacket
    PROVE  CodecInv'
<1> USE DEF CodecInv, SendPacket, rigidVars
<1>1. RigidInv'
    BY DEF RigidInv
<1>2. out \in Output /\ id \in PacketId
    BY DEF StateInv
<1>3. /\ out.len \in Nat /\ out.bits \subseteq 0 .. out.len - 1
      /\ out.bits \in SUBSET Nat
    BY <1>2, OutputIs DEF Output
<1>4. OutSize \in Nat /\ out.len <= 8 * OutSize
  <2>1. /\ SizeOff(out.len) \in Nat
        /\ SizeOff(out.len) + 1 < sendSize =>
              out.len <= 8 * (SizeOff(out.len) + 1)
      BY <1>3, SizesAre, SizeOffIs
  <2> QED  BY <2>1 DEF Fits, OutSize
<1>5. wire'.bits = out.bits /\ wire'.size = OutSize
      /\ wire' \in [bits : SUBSET Nat, size : Nat]
  <2> DEFINE b == {i \in out.bits : i < 8 * OutSize}
  <2>1. \A i \in out.bits : i < 8 * OutSize
      BY <1>3, <1>4
  <2>2. b = out.bits
      BY <2>1
  <2>3. wire' = [bits |-> b, size |-> OutSize]
      OBVIOUS
  <2> HIDE DEF b
  <2> QED  BY <1>3, <1>4, <2>2, <2>3
<1>6. list' = <<>>
    BY DEF FreePacket
<1>7. StateInv'
    BY <1>5, <1>6 DEF StateInv, FreePacket
<1>8. BuildInv'
    BY DEF BuildInv
<1>9. SentInv'
  <2>1. /\ Filling(table[id], list) /\ Len(list) = Len(table[id])
        /\ \E E : /\ Layout(E, out.bits, id, table[id], list)
                  /\ E[Len(list)] = out.len
      BY DEF BuildInv, Fits
  <2>2. Filled(table[id], list)
      BY <1>2, <2>1, FilledIs DEF ListInv
  <2>3. sent'.id = id /\ sent'.fields = list
        /\ sent' = [id |-> sent'.id, fields |-> sent'.fields]
      OBVIOUS
  <2>4. PICK E : /\ Layout(E, out.bits, id, table[id], list)
                 /\ E[Len(list)] = out.len
      BY <2>1
  <2>5. table' = table /\ out' = out /\ pc' = "sent" /\ sendSize' = sendSize
      OBVIOUS
  <2>6. OutSize' = OutSize
      BY <2>5, OutSizeSame
  <2>7. Sent(E)'
      BY <1>2, <1>5, <2>2, <2>3, <2>4, <2>5 DEF Sent
  <2>8. Arrived(E)'
      BY <2>5 DEF Arrived
  <2> QED  BY <1>4, <2>5, <2>6, <2>7, <2>8 DEF SentInv
<1> QED  BY <1>1, <1>7, <1>8, <1>9

(* Receiving keeps it: the id is right, or it is cut and nothing is left.  *)
LEMMA ReceiveStep ==
    ASSUME CodecInv, ReceivePacket
    PROVE  CodecInv'
<1>1. out.len \in Nat
  <2>1. out \in Output
      BY DEF CodecInv, StateInv
  <2> QED  BY <2>1, OutputIs
<1>2. out'.len <= 8 * OutSize'
  <2>1. out.len <= 8 * OutSize /\ UNCHANGED <<out, sendSize>>
      BY DEF CodecInv, SentInv, ReceivePacket, rigidVars
  <2> QED  BY <2>1, OutSizeSame
<1> USE DEF CodecInv, ReceivePacket, rigidVars
<1>3. RigidInv'
    BY DEF RigidInv
<1>4. wire.size \in Nat /\ wire \in [bits : SUBSET Nat, size : Nat]
    BY DEF StateInv
<1>5. /\ wire' \in [bits : SUBSET Nat, size : Nat]
      /\ wire'.bits = wire.bits
  <2> DEFINE m == Min({wire.size, recvSize - 1})
  <2>1. m \in Nat
    <3>1. recvSize - 1 \in Nat
        BY SizesAre
    <3>2. m = IF wire.size <= recvSize - 1 THEN wire.size ELSE recvSize - 1
        BY <1>4, <3>1, MinPair
    <3> QED  BY <1>4, <3>1, <3>2
  <2>2. wire' = [wire EXCEPT !.size = m]
      OBVIOUS
  <2> HIDE DEF m
  <2> QED  BY <1>4, <2>1, <2>2
<1>6. PICK E : Sent(E)
    BY DEF SentInv
<1>7. /\ sent.id \in PacketId
      /\ Filled(table[sent.id], sent.fields)
      /\ Layout(E, wire.bits, sent.id, table[sent.id], sent.fields)
      /\ E[Len(sent.fields)] = out.len
    BY <1>6 DEF Sent
<1>8. /\ Len(sent.fields) \in Nat
      /\ E \in [0 .. Len(sent.fields) -> Nat]
      /\ \A k \in 0 .. Len(sent.fields) :
            E[k] \in Nat /\ E[k] <= E[Len(sent.fields)]
    BY <1>7, LayoutUp
<1>9. E[0] \in Nat /\ E[0] <= out.len
  <2>1. 0 \in 0 .. Len(sent.fields)
      BY <1>8
  <2> QED  BY <1>7, <1>8, <2>1
<1>10. IdReads'
    BY IdRead, PTL
<1>11. wire'.size \in Nat
    BY <1>5
<1>12. /\ ReadUInt(0, 8)'.ok /\ id' = Number(ReadUInt(0, 8)'.value)
       /\ id' \in PacketId /\ pos' = ReadUInt(0, 8)'.pos
    OBVIOUS
<1>13. /\ pos' = E[0]
       /\ Left(wire'.size, E[0]) => id' = sent.id
  <2>1. Laid(wire'.bits, 0, IdOf(sent.id), E[0])
      BY <1>5, <1>7 DEF Layout
  <2>2. /\ ReadUInt(0, 8)'.pos = E[0]
        /\ Left(wire'.size, E[0]) => Number(ReadUInt(0, 8)'.value) = sent.id
      BY <1>7, <1>10, <1>11, <1>12, <2>1 DEF IdReads, BytesLeft, Left
  <2> QED  BY <1>12, <2>2
<1>14. list' = <<>> /\ out' = out /\ sent' = sent /\ table' = table
       /\ pc' = "decode" /\ sendSize' = sendSize
    OBVIOUS
<1>15. StateInv'
    BY <1>5, <1>9, <1>12, <1>13, <1>14 DEF StateInv
<1>16. BuildInv'
    BY <1>14 DEF BuildInv
<1>17. SentInv'
  <2>1. Sent(E)'
      BY <1>5, <1>6, <1>14 DEF Sent
  <2>2. ReadTyped(table[id'], <<>>)
    <3>1. IsList(table[id'])
        BY <1>12, FormatIs
    <3> QED  BY <3>1, EmptyFill
  <2>3. Len(<<>>) = 0
      OBVIOUS
  <2>4. Arrived(E)'
    <3>1. CASE Left(wire'.size, E[0])
      <4>1. Exact(E, id', <<>>, pos', sent)
          BY <1>13, <2>3, <3>1 DEF Exact
      <4> QED  BY <1>14, <2>2, <4>1 DEF Arrived
    <3>2. CASE ~Left(wire'.size, E[0])
      <4>1. ~Left(wire'.size, pos') /\ ~Left(wire'.size, out.len)
          BY <1>9, <1>11, <1>13, <1>1, <3>2 DEF Left
      <4>2. AllButLast(id', <<>>, sent)
          BY <2>3 DEF AllButLast
      <4> QED  BY <1>14, <2>2, <4>1, <4>2 DEF Arrived
    <3> QED  BY <3>1, <3>2
  <2> QED  BY <1>2, <2>1, <2>4 DEF SentInv
<1> QED  BY <1>3, <1>15, <1>16, <1>17

-----------------------------------------------------------------------------
(* The steps of a receiver, and all steps.                                 *)

(* Before anything was read past the end: the next field.                  *)
LEMMA FieldStep ==
    ASSUME wire.size \in Nat, out.len \in Nat, NEW E, Sent(E),
           Exact(E, id, list, pos, sent), Len(list) \in Nat,
           Len(list) < Len(table[id])
    PROVE  /\ E[Len(list) + 1] \in Nat /\ E[Len(list) + 1] <= out.len
           /\ Len(list) + 1 \in 1 .. Len(sent.fields)
           /\ ReadsBack(ReadField(NextType, pos), NextType,
                        sent.fields[Len(list) + 1], pos,
                        E[Len(list) + 1])
<1> DEFINE n == Len(list)
           f == table[sent.id]
           vs == sent.fields
           t == f[n + 1]
           v == vs[n + 1]
<1>1. /\ Filled(f, vs) /\ Layout(E, wire.bits, sent.id, f, vs)
      /\ E[Len(vs)] = out.len
    BY DEF Sent
<1>2. id = sent.id /\ pos = E[n]
    BY DEF Exact
<1>3. NextType = t
    BY <1>2 DEF NextType
<1>4. n \in Nat /\ n < Len(f)
    BY <1>2
<1> HIDE DEF n, f, vs, t, v
<1>5. /\ Len(vs) \in Nat /\ E \in [0 .. Len(vs) -> Nat]
      /\ \A k \in 0 .. Len(vs) : E[k] \in Nat /\ E[k] <= E[Len(vs)]
    BY <1>1, LayoutUp
<1>6. /\ Len(vs) = Len(f)
      /\ \A k \in 1 .. Len(vs) : f[k] \in Type /\ Sendable(f[k], vs[k])
      /\ \A k \in 1 .. Len(vs) :
            Laid(wire.bits, E[k - 1], Chunks(f[k], vs[k]), E[k])
    BY <1>1 DEF Filled, Layout
<1>7. n + 1 \in 1 .. Len(vs) /\ n + 1 \in 0 .. Len(vs) /\ (n + 1) - 1 = n
    BY <1>4, <1>5, <1>6
<1>8. /\ t \in Type /\ Sendable(t, v)
      /\ Laid(wire.bits, pos, Chunks(t, v), E[n + 1])
    BY <1>2, <1>6, <1>7 DEF t, v
<1>9. ReadsBack(ReadField(t, pos), t, v, pos, E[n + 1])
    BY <1>8, FieldRead
<1>10. E[n + 1] \in Nat /\ E[n + 1] <= out.len
    BY <1>1, <1>5, <1>7
<1> QED  BY <1>3, <1>7, <1>9, <1>10 DEF n, vs, v

(* What a field read after the others makes of them.                       *)
LEMMA TypedAppend ==
    ASSUME NEW f, NEW s, NEW s2, IsList(f), IsList(s), IsList(s2),
           ReadTyped(f, s), Len(s) < Len(f), Len(s2) = Len(s) + 1,
           \A k \in 1 .. Len(s) : s2[k] = s[k],
           s2[Len(s) + 1] \in Value(f[Len(s) + 1])
    PROVE  ReadTyped(f, s2)
<1>1. \A k \in 1 .. Len(s) + 1 : k \in 1 .. Len(s) \/ k = Len(s) + 1
    OBVIOUS
<1>2. \A k \in 1 .. Len(s) : s2[k] \in Value(f[k])
    BY DEF ReadTyped
<1>3. \A k \in 1 .. Len(s2) : s2[k] \in Value(f[k])
    BY <1>1, <1>2
<1>4. Len(s2) <= Len(f)
    OBVIOUS
<1> QED  BY <1>3, <1>4 DEF ReadTyped

(* The same for the values: the one that was sent, or another.             *)
LEMMA ExactAppend ==
    ASSUME NEW E, NEW i, NEW l, NEW p, NEW s, NEW l2,
           IsList(l), IsList(l2), Exact(E, i, l, p, s),
           Len(l2) = Len(l) + 1, \A k \in 1 .. Len(l) : l2[k] = l[k]
    PROVE  /\ AllButLast(i, l2, s)
           /\ l2[Len(l) + 1] = s.fields[Len(l) + 1] =>
                 Exact(E, i, l2, E[Len(l) + 1], s)
<1>1. i = s.id /\ \A k \in 1 .. Len(l) : l2[k] = s.fields[k]
    BY DEF Exact
<1>2. AllButLast(i, l2, s)
  <2>1. Len(l2) - 1 = Len(l)
      BY ListIs
  <2>2. \A k \in 1 .. Len(l2) - 1 : l2[k] = s.fields[k]
      BY <1>1, <2>1
  <2> QED  BY <1>1, <2>2 DEF AllButLast
<1>3. ASSUME l2[Len(l) + 1] = s.fields[Len(l) + 1]
      PROVE  Exact(E, i, l2, E[Len(l) + 1], s)
  <2>1. \A k \in 1 .. Len(l2) : k \in 1 .. Len(l) \/ k = Len(l) + 1
      OBVIOUS
  <2>2. \A k \in 1 .. Len(l2) : l2[k] = s.fields[k]
      BY <1>1, <1>3, <2>1
  <2> QED  BY <1>1, <2>2 DEF Exact
<1> QED  BY <1>2, <1>3

(* What the invariant says while a packet is read.                         *)
LEMMA Reading ==
    ASSUME CodecInv, ListInv, pc \in {"decode", "decoded"}
    PROVE  /\ wire.size \in Nat /\ out.len \in Nat /\ Len(list) \in Nat
           /\ id \in PacketId /\ pos \in Nat
           /\ IsList(list) /\ IsList(table[id])
           /\ Len(table[id]) \in Nat \ {0}
           /\ ReadTyped(table[id], list) /\ Len(list) <= Len(table[id])
           /\ \A k \in 1 .. Len(table[id]) : table[id][k] \in Type
           /\ \E E : /\ Sent(E)
                     /\ \/ Exact(E, id, list, pos, sent)
                        \/ /\ ~Left(wire.size, pos)
                           /\ ~Left(wire.size, out.len)
                           /\ AllButLast(id, list, sent)
<1>1. /\ wire.size \in Nat /\ out \in Output /\ id \in PacketId
      /\ pos \in Nat
    BY DEF CodecInv, StateInv
<1>2. out.len \in Nat
    BY <1>1, OutputIs
<1>3. Len(list) \in Nat /\ IsList(list)
    BY ListIs DEF ListInv
<1>4. /\ Len(table[id]) \in Nat \ {0} /\ IsList(table[id])
      /\ \A k \in 1 .. Len(table[id]) : table[id][k] \in Type
  <2>1. /\ Len(table[id]) \in 1 .. 6 /\ IsList(table[id])
        /\ \A k \in 1 .. Len(table[id]) : table[id][k] \in Type
      BY <1>1, FormatIs DEF CodecInv
  <2>2. \A k \in 1 .. 6 : k \in Nat \ {0}
      OBVIOUS
  <2> QED  BY <2>1, <2>2, Zenon
<1>5. PICK E : Sent(E) /\ Arrived(E)
    BY DEF CodecInv, SentInv
<1>6. /\ ReadTyped(table[id], list)
      /\ \/ Exact(E, id, list, pos, sent)
         \/ /\ ~Left(wire.size, pos) /\ ~Left(wire.size, out.len)
            /\ AllButLast(id, list, sent)
    BY <1>5 DEF Arrived
<1>7. Len(list) <= Len(table[id])
    BY <1>6 DEF ReadTyped
<1> QED  BY <1>1, <1>2, <1>3, <1>4, <1>5, <1>6, <1>7

(* A field that is accepted keeps to what was sent, or is the last one.    *)
LEMMA ReadOk ==
    ASSUME CodecInv, ListInv, pc = "decode", ~Complete,
           NEW r, r = ReadField(NextType, pos), r.ok,
           NEW l2, IsList(l2), Len(l2) = Len(list) + 1,
           \A k \in 1 .. Len(list) : l2[k] = list[k],
           l2[Len(list) + 1] = r.value
    PROVE  /\ r.pos \in Nat /\ ReadTyped(table[id], l2)
           /\ \E E : /\ Sent(E)
                     /\ \/ Exact(E, id, l2, r.pos, sent)
                        \/ /\ ~Left(wire.size, r.pos)
                           /\ ~Left(wire.size, out.len)
                           /\ AllButLast(id, l2, sent)
<1> DEFINE n == Len(list)
           t == NextType
<1>1. /\ wire.size \in Nat /\ out.len \in Nat /\ n \in Nat
      /\ id \in PacketId /\ pos \in Nat /\ Len(table[id]) \in Nat \ {0}
      /\ IsList(list) /\ IsList(table[id])
      /\ ReadTyped(table[id], list) /\ n <= Len(table[id])
      /\ \A k \in 1 .. Len(table[id]) : table[id][k] \in Type
    BY Reading
<1>2. PICK E : /\ Sent(E)
               /\ \/ Exact(E, id, list, pos, sent)
                  \/ /\ ~Left(wire.size, pos)
                     /\ ~Left(wire.size, out.len)
                     /\ AllButLast(id, list, sent)
    BY Reading
<1>3. n < Len(table[id]) /\ n + 1 \in 1 .. Len(table[id])
    BY <1>1, OneMore DEF Complete
<1>4. t \in Type /\ t = table[id][n + 1]
    BY <1>1, <1>3 DEF NextType
<1>5. Left(wire.size, pos)
  <2>1. ReadField(t, pos).ok
      OBVIOUS
  <2> HIDE DEF t
  <2> QED  BY <1>1, <1>4, <2>1, ReadNeedsBytes, LeftIs
<1>6. Exact(E, id, list, pos, sent)
    BY <1>2, <1>5
<1>7. /\ E[n + 1] \in Nat /\ E[n + 1] <= out.len
      /\ ReadsBack(r, t, sent.fields[n + 1], pos, E[n + 1])
    BY <1>1, <1>2, <1>3, <1>6, FieldStep
<1>8. /\ r.value \in Value(t) /\ r.pos \in Nat
      /\ r.pos = E[n + 1] \/ (~Left(wire.size, r.pos)
                              /\ ~Left(wire.size, E[n + 1]))
      /\ Left(wire.size, E[n + 1]) =>
            r.value = sent.fields[n + 1] /\ r.pos = E[n + 1]
    BY <1>7, LeftIs DEF ReadsBack
<1>9. /\ AllButLast(id, l2, sent)
      /\ l2[n + 1] = sent.fields[n + 1] => Exact(E, id, l2, E[n + 1], sent)
    BY <1>1, <1>6, ExactAppend
<1>10. ReadTyped(table[id], l2)
    BY <1>1, <1>3, <1>4, <1>8, TypedAppend
<1>11. CASE Left(wire.size, E[n + 1])
  <2>1. Exact(E, id, l2, r.pos, sent)
      BY <1>8, <1>9, <1>11
  <2> QED  BY <1>2, <1>8, <1>10, <2>1
<1>12. CASE ~Left(wire.size, E[n + 1])
  <2>1. ~Left(wire.size, out.len)
      BY <1>1, <1>7, <1>12 DEF Left
  <2>2. ~Left(wire.size, r.pos)
      BY <1>8, <1>12
  <2> QED  BY <1>2, <1>8, <1>9, <1>10, <2>1, <2>2
<1> QED  BY <1>11, <1>12

(* What was sent stays.                                                    *)
LEMMA SentSame ==
    ASSUME UNCHANGED <<table, out, wire, sent>>, NEW E, Sent(E)
    PROVE  Sent(E)'
BY DEF Sent

(* Reading a field keeps the invariant.                                    *)
LEMMA DeserializeStep ==
    ASSUME CodecInv, ListInv, DeserializeField
    PROVE  CodecInv'
<1> DEFINE r == ReadField(NextType, pos)
<1>1. /\ pc = "decode" /\ ~Complete
      /\ r.ok /\ Add(r.value) /\ pos' = r.pos
      /\ UNCHANGED <<rigidVars, pc, id, out, wire, sent>>
    BY DEF DeserializeField
<1> HIDE DEF r
<1>2. /\ IsList(list')
      /\ Len(list) \in Nat /\ Len(list') = Len(list) + 1
      /\ list'[Len(list) + 1] = r.value
      /\ \A k \in 1 .. Len(list) : list'[k] = list[k]
    BY <1>1, Appended
<1>3. /\ r.pos \in Nat /\ ReadTyped(table[id], list')
      /\ \E E : /\ Sent(E)
                /\ \/ Exact(E, id, list', r.pos, sent)
                   \/ /\ ~Left(wire.size, r.pos)
                      /\ ~Left(wire.size, out.len)
                      /\ AllButLast(id, list', sent)
    BY <1>1, <1>2, ReadOk DEF r
<1>4. /\ table' = table /\ sendSize' = sendSize /\ recvSize' = recvSize
      /\ pc' = "decode" /\ id' = id /\ out' = out /\ wire' = wire
      /\ sent' = sent /\ pos' = r.pos
    BY <1>1 DEF rigidVars
<1>5. RigidInv' /\ StateInv' /\ BuildInv'
    BY <1>1, <1>3, <1>4 DEF CodecInv, RigidInv, StateInv, BuildInv
<1>6. SentInv'
  <2>1. PICK E : /\ Sent(E)
                 /\ \/ Exact(E, id, list', r.pos, sent)
                    \/ /\ ~Left(wire.size, r.pos)
                       /\ ~Left(wire.size, out.len)
                       /\ AllButLast(id, list', sent)
      BY <1>3
  <2>2. Sent(E)'
      BY <1>4, <2>1, SentSame
  <2>3. Arrived(E)'
      BY <1>3, <1>4, <2>1 DEF Arrived
  <2>4. out'.len <= 8 * OutSize'
    <3>1. out.len <= 8 * OutSize
        BY <1>1 DEF CodecInv, SentInv
    <3> QED  BY <1>4, <3>1, OutSizeSame
  <2> QED  BY <2>2, <2>3, <2>4 DEF SentInv
<1> QED  BY <1>5, <1>6 DEF CodecInv

(* So does the end of the packet.                                          *)
LEMMA DeserializedStep ==
    ASSUME CodecInv, Deserialized
    PROVE  CodecInv'
<1>1. /\ pc = "decode" /\ pc' = "decoded" /\ Len(list) = Len(table[id])
      /\ table' = table /\ sendSize' = sendSize /\ recvSize' = recvSize
      /\ id' = id /\ list' = list /\ out' = out /\ wire' = wire
      /\ pos' = pos /\ sent' = sent
    BY DEF Deserialized, Complete, rigidVars, packetVars
<1>2. RigidInv' /\ StateInv' /\ BuildInv'
    BY <1>1 DEF CodecInv, RigidInv, StateInv, BuildInv
<1>3. SentInv'
  <2>1. PICK E : Sent(E) /\ Arrived(E)
      BY <1>1 DEF CodecInv, SentInv
  <2>2. Sent(E)'
      BY <1>1, <2>1, SentSame
  <2>3. Arrived(E)'
      BY <1>1, <2>1 DEF Arrived
  <2>4. out'.len <= 8 * OutSize'
    <3>1. out.len <= 8 * OutSize
        BY <1>1 DEF CodecInv, SentInv
    <3> QED  BY <1>1, <3>1, OutSizeSame
  <2> QED  BY <2>2, <2>3, <2>4 DEF SentInv
<1> QED  BY <1>2, <1>3 DEF CodecInv

(* So does a refusal: it is only for a packet that was cut.                *)
LEMMA RefuseFieldStep ==
    ASSUME CodecInv, ListInv, RefuseField
    PROVE  CodecInv'
<1>1. /\ pc = "decode" /\ pc' = "refused" /\ ~Complete
      /\ ~ReadField(NextType, pos).ok
      /\ table' = table /\ sendSize' = sendSize /\ recvSize' = recvSize
      /\ id' = id /\ list' = <<>> /\ out' = out /\ wire' = wire
      /\ pos' = pos /\ sent' = sent
    BY DEF RefuseField, FreePacket, rigidVars
<1>2. RigidInv' /\ StateInv' /\ BuildInv'
    BY <1>1 DEF CodecInv, RigidInv, StateInv, BuildInv
<1>3. PICK E : /\ Sent(E)
               /\ \/ Exact(E, id, list, pos, sent)
                  \/ /\ ~Left(wire.size, pos)
                     /\ ~Left(wire.size, out.len)
                     /\ AllButLast(id, list, sent)
    BY <1>1, Reading
<1>4. /\ wire.size \in Nat /\ out.len \in Nat /\ Len(list) \in Nat
      /\ Len(list) < Len(table[id])
  <2>1. /\ wire.size \in Nat /\ out.len \in Nat /\ Len(list) \in Nat
        /\ IsList(list) /\ IsList(table[id]) /\ Len(list) <= Len(table[id])
      BY <1>1, Reading
  <2> QED  BY <1>1, <2>1, OneMore DEF Complete
<1>5. ~Left(wire.size, out.len)
  <2>1. CASE Exact(E, id, list, pos, sent)
    <3>1. /\ E[Len(list) + 1] \in Nat /\ E[Len(list) + 1] <= out.len
          /\ ReadsBack(ReadField(NextType, pos), NextType,
                       sent.fields[Len(list) + 1], pos,
                       E[Len(list) + 1])
        BY <1>3, <1>4, <2>1, FieldStep
    <3>2. ~Left(wire.size, E[Len(list) + 1])
        BY <1>1, <3>1, LeftIs DEF ReadsBack
    <3> QED  BY <1>4, <3>1, <3>2 DEF Left
  <2> QED  BY <1>3, <2>1
<1>6. SentInv'
  <2>1. Sent(E)'
      BY <1>1, <1>3, SentSame
  <2>2. Arrived(E)'
      BY <1>1, <1>5 DEF Arrived
  <2>3. out'.len <= 8 * OutSize'
    <3>1. out.len <= 8 * OutSize
        BY <1>1 DEF CodecInv, SentInv
    <3> QED  BY <1>1, <3>1, OutSizeSame
  <2> QED  BY <2>1, <2>2, <2>3 DEF SentInv
<1> QED  BY <1>2, <1>6 DEF CodecInv

(* So does a step of something else.                                       *)
LEMMA StutterStep ==
    ASSUME CodecInv, UNCHANGED vars
    PROVE  CodecInv'
<1>1. /\ table' = table /\ sendSize' = sendSize /\ recvSize' = recvSize
      /\ pc' = pc /\ id' = id /\ list' = list /\ out' = out /\ wire' = wire
      /\ pos' = pos /\ sent' = sent
    BY DEF vars, rigidVars, packetVars
<1>2. RigidInv' /\ StateInv' /\ BuildInv'
    BY <1>1 DEF CodecInv, RigidInv, StateInv, BuildInv
<1>3. SentInv'
  <2> SUFFICES ASSUME pc \in {"sent", "decode", "decoded", "refused"}
               PROVE  out'.len <= 8 * OutSize'
                      /\ \E E : Sent(E)' /\ Arrived(E)'
      BY <1>1 DEF SentInv
  <2>1. PICK E : Sent(E) /\ Arrived(E)
      BY DEF CodecInv, SentInv
  <2>2. Sent(E)'
      BY <1>1, <2>1, SentSame
  <2>3. Arrived(E)'
      BY <1>1, <2>1 DEF Arrived
  <2>4. out'.len <= 8 * OutSize'
    <3>1. out.len <= 8 * OutSize
        BY <1>1 DEF CodecInv, SentInv
    <3> QED  BY <1>1, <3>1, OutSizeSame
  <2> QED  BY <2>2, <2>3, <2>4
<1> QED  BY <1>2, <1>3 DEF CodecInv

(* So does every step.                                                     *)
LEMMA StepInv ==
    ASSUME CodecInv, ListInv, [Next]_vars
    PROVE  CodecInv'
<1>1. ASSUME NEW i \in PacketId, NewPacket(i)
      PROVE  CodecInv'
    BY <1>1, NewPacketStep
<1>2. ASSUME NEW t \in Type, NEW v \in Samples[t], AddSerializable(t, v)
      PROVE  CodecInv'
    BY <1>2, AddStepInv
<1>3. CASE AddSerializableFails
    BY <1>3, IdleStep DEF AddSerializableFails, FreePacket, rigidVars
<1>4. CASE SerializePacket
    BY <1>4, SerializeStep
<1>5. CASE SendPacket
    BY <1>5, SendStep
<1>6. CASE RefuseToSend
    BY <1>6, IdleStep DEF RefuseToSend, FreePacket, rigidVars
<1>7. CASE ReceivePacket
    BY <1>7, ReceiveStep
<1>8. CASE DeserializeField
    BY <1>8, DeserializeStep
<1>9. CASE Deserialized
    BY <1>9, DeserializedStep
<1>10. CASE RefuseField
    BY <1>10, RefuseFieldStep
<1>11. CASE DeserializeOutOfMemory
    BY <1>11, IdleStep DEF DeserializeOutOfMemory, FreePacket, rigidVars
<1>12. CASE Done
  <2>1. pc = "refused" => list = <<>>
      BY DEF CodecInv, StateInv
  <2> QED  BY <1>12, <2>1, IdleStep DEF Done, FreePacket, packetVars, rigidVars
<1>13. CASE UNCHANGED vars
    BY <1>13, StutterStep
<1> QED
    BY <1>1, <1>2, <1>3, <1>4, <1>5, <1>6, <1>7, <1>8, <1>9, <1>10, <1>11,
       <1>12, <1>13 DEF Next

(* The invariant gives every variable its type.                            *)
LEMMA InvType == CodecInv /\ ListInv /\ NodesAccounted => TypeOK
<1> SUFFICES ASSUME CodecInv, ListInv, NodesAccounted
             PROVE  TypeOK
    OBVIOUS
<1>1. /\ pc \in {"idle", "add", "serialized", "sent", "decode", "decoded",
                 "refused"}
      /\ id \in PacketId /\ pos \in Nat
      /\ wire.size \in Nat /\ wire.bits \subseteq Nat
      /\ pc \in {"idle", "sent", "refused"} => list = <<>>
    BY DEF CodecInv, StateInv
<1>2. /\ out.len \in Nat /\ out.bits \subseteq 0 .. out.len - 1
      /\ out.ok \in BOOLEAN
    BY OutputIs DEF CodecInv, StateInv
<1>3. Len(list) \in Nat /\ DOMAIN list = 1 .. Len(list)
    BY ListIs DEF ListInv
<1>4. heap \in Nat
    BY <1>3 DEF NodesAccounted
<1>5. /\ Len(list) <= Len(table[id])
      /\ \A k \in 1 .. Len(list) : list[k] \in Value(table[id][k])
  <2>1. CASE pc \in {"idle", "sent", "refused"}
    <3>1. Len(list) = 0
        BY <1>1, <2>1
    <3>2. Len(table[id]) \in Nat
        BY <1>1, FormatIs DEF CodecInv
    <3> QED  BY <3>1, <3>2
  <2>2. CASE pc \in {"add", "serialized"}
    <3>1. Filling(table[id], list)
        BY <2>2 DEF CodecInv, BuildInv
    <3> QED  BY <3>1 DEF Filling, Sendable
  <2>3. CASE pc \in {"decode", "decoded"}
    <3>1. ReadTyped(table[id], list)
        BY <2>3, Reading
    <3> QED  BY <3>1 DEF ReadTyped
  <2> QED  BY <1>1, <2>1, <2>2, <2>3
<1> QED  BY <1>1, <1>2, <1>3, <1>4, <1>5 DEF TypeOK

(* The invariant keeps the offset within the array.                        *)
LEMMA InvWrites == CodecInv => WritesWithinArray
<1> SUFFICES ASSUME CodecInv
             PROVE  WritesWithinArray
    OBVIOUS
<1>1. out \in Output
    BY DEF CodecInv, StateInv
<1>2. out.len \in Nat
    BY <1>1, OutputIs
<1>3. sendSize \in Nat \ {0, 1}
    BY SizesAre DEF CodecInv
<1> QED  BY <1>2, <1>3, SizeOffIs DEF WritesWithinArray

(* The invariant leaves only the last field to differ.                     *)
LEMMA InvCut == CodecInv /\ ListInv => CutTouchesOnlyLast
<1> SUFFICES ASSUME CodecInv, ListInv, pc = "decoded"
             PROVE  /\ id = sent.id /\ Len(list) = Len(sent.fields)
                    /\ \A k \in 1 .. Len(list) - 1 :
                          list[k] = sent.fields[k]
    BY DEF CutTouchesOnlyLast
<1>1. PICK E : Sent(E) /\ Arrived(E)
    BY DEF CodecInv, SentInv
<1>2. Len(list) = Len(table[id])
    BY <1>1 DEF Arrived
<1>3. Len(list) \in Nat /\ Len(list) # 0
  <2>1. Len(table[id]) \in Nat \ {0} /\ Len(list) \in Nat
      BY Reading
  <2> QED  BY <1>2, <2>1
<1>4. Exact(E, id, list, pos, sent) \/ AllButLast(id, list, sent)
    BY <1>1 DEF Arrived
<1>5. id = sent.id /\ \A k \in 1 .. Len(list) - 1 : list[k] = sent.fields[k]
  <2>1. \A k \in 1 .. Len(list) - 1 : k \in 1 .. Len(list)
      BY <1>3
  <2> QED  BY <1>3, <1>4, <2>1 DEF Exact, AllButLast
<1>6. Len(sent.fields) = Len(table[sent.id])
    BY <1>1 DEF Sent, Filled
<1> QED  BY <1>2, <1>5, <1>6

(* The invariant makes what arrives whole what was sent.                   *)
LEMMA InvRoundTrip == CodecInv /\ ListInv => RoundTrip
<1> SUFFICES ASSUME CodecInv, ListInv, pc \in {"decoded", "refused"}, ~Cut
             PROVE  pc = "decoded" /\ sent = [id |-> id, fields |-> list]
    BY DEF RoundTrip
<1>1. PICK E : Sent(E) /\ Arrived(E)
    BY DEF CodecInv, SentInv
<1>2. Left(wire.size, out.len)
  <2>1. out \in Output /\ wire.size \in Nat
      BY DEF CodecInv, StateInv
  <2>2. out.len \in Nat
      BY <2>1, OutputIs
  <2>3. sendSize \in Nat \ {0, 1}
      BY SizesAre DEF CodecInv
  <2>4. OutSize \in Nat
      BY <2>2, <2>3, SizeOffIs DEF OutSize
  <2>5. out.len <= 8 * OutSize
      BY DEF CodecInv, SentInv
  <2>6. ~(wire.size < OutSize)
      BY DEF Cut
  <2> HIDE DEF OutSize
  <2> QED  BY <2>1, <2>2, <2>4, <2>5, <2>6 DEF Left
<1>3. pc = "decoded"
    BY <1>1, <1>2 DEF Arrived
<1>4. Exact(E, id, list, pos, sent) /\ Len(list) = Len(table[id])
    BY <1>1, <1>2, <1>3 DEF Arrived
<1>5. /\ sent = [id |-> sent.id, fields |-> sent.fields]
      /\ IsList(sent.fields) /\ Len(sent.fields) = Len(table[sent.id])
    BY <1>1 DEF Sent, Filled
<1>6. sent.fields = list
  <2> DEFINE a == sent.fields
             b == list
  <2>1. /\ IsList(a) /\ IsList(b) /\ Len(a) = Len(b)
        /\ \A k \in 1 .. Len(b) : b[k] = a[k]
      BY <1>4, <1>5 DEF Exact, ListInv
  <2> HIDE DEF a, b
  <2>2. /\ a = [k \in 1 .. Len(a) |-> a[k]]
        /\ b = [k \in 1 .. Len(b) |-> b[k]]
      BY <2>1, ListIs
  <2>3. a = b
      BY <2>1, <2>2
  <2> QED  BY <2>3 DEF a, b
<1> QED  BY <1>3, <1>4, <1>5, <1>6 DEF Exact

-----------------------------------------------------------------------------
(* The theorems.                                                           *)

(* The inductive invariant.                                                *)
IInv == NodesInv /\ CodecInv

(* It holds before the first packet.                                       *)
LEMMA InitIInv == Init => IInv
BY InitNodes, InitInv DEF IInv

(* It holds after every step.                                              *)
LEMMA StepIInv == IInv /\ [Next]_vars => IInv'
BY StepNodes, StepInv DEF IInv, NodesInv

(* It holds of every state.                                                *)
LEMMA Invariance == Spec => []IInv
BY InitIInv, StepIInv, PTL DEF Spec

(* Every field in hand has the type that the format says, from the sender's*)
(* list as from the bits of a cut packet, and the array holds no bit past  *)
(* its length (DeserializeField and the readers of dserial.c).             *)
THEOREM TypeCorrect == Spec => []TypeOK
<1>1. IInv => TypeOK
    BY InvType DEF IInv, NodesInv
<1> QED  BY <1>1, Invariance, PTL

(* No bit is written past the end of the caller's array, however much is   *)
(* serialized: the byte that the code writes at is always one of it (the   *)
(* check of size_off in dserial.c).                                        *)
THEOREM WritesWithinArrayHolds == Spec => []WritesWithinArray
<1>1. IInv => WritesWithinArray
    BY InvWrites DEF IInv, NodesInv
<1> QED  BY <1>1, Invariance, PTL

(* A packet that arrives whole is accepted, and read back as it was sent,  *)
(* field by field and value by value (SerializePacket, then                *)
(* DeserializePacketHeader and DeserializeField).                          *)
THEOREM RoundTripHolds == Spec => []RoundTrip
<1>1. IInv => RoundTrip
    BY InvRoundTrip DEF IInv, NodesInv
<1> QED  BY <1>1, Invariance, PTL

(* A packet of which the end is missing is refused, or differs from the one*)
(* sent in its last field alone (DeserializeArgCheck looks at the offset   *)
(* before a field is read, not after).                                     *)
THEOREM CutTouchesOnlyLastHolds == Spec => []CutTouchesOnlyLast
<1>1. IInv => CutTouchesOnlyLast
    BY InvCut DEF IInv, NodesInv
<1> QED  BY <1>1, Invariance, PTL

(* No node leaks and none is freed twice, whether a packet is sent, does   *)
(* not fit, is refused, or runs out of memory half way (FreePacket and its *)
(* callers in dpacket.c and dserial.c).                                    *)
THEOREM NodesAccountedHolds == Spec => []NodesAccounted
<1>1. IInv => NodesAccounted
    BY DEF IInv, NodesInv
<1> QED  BY <1>1, Invariance, PTL
=============================================================================
