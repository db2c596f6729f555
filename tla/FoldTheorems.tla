---------------------------- MODULE FoldTheorems ---------------------------
(***************************************************************************)
(* What the folds of the community modules compute: sums of functions over *)
(* finite sets, which CapSensor keeps and Codec reads bytes as, and the    *)
(* greatest number of a set.                                               *)
(*                                                                         *)
(* The folds go element by element, so their values are a matter of        *)
(* induction.  The library's induction theorems take a predicate as a      *)
(* parameter; the induction here is over a set of numbers, or of subsets,  *)
(* and rests on WFMin: a set of numbers has a least one.                   *)
(***************************************************************************)
EXTENDS Functions, FiniteSetsExt, FiniteSetTheorems, TLAPS

(* The order of the natural numbers, as the relation WFMin takes.          *)
Less == {p \in Nat \X Nat : p[1] < p[2]}

(* That relation has no infinite descent.                                  *)
LEMMA LessWF == IsWellFoundedOn(Less, Nat)
BY NatLessThanWellFounded DEF OpToRel, Less

(* A set of natural numbers that is not empty has a least element.         *)
LEMMA LeastNumber ==
    ASSUME NEW T, T \subseteq Nat, T # {}
    PROVE  \E x \in T : \A y \in T : x <= y
<1>1. PICK x \in T : \A y \in T : <<y, x>> \notin Less
    BY LessWF, WFMin
<1>2. ASSUME NEW y \in T
      PROVE  x <= y
  <2>1. x \in Nat /\ y \in Nat
    OBVIOUS
  <2>2. ~(y < x)
    BY <1>1, <1>2, <2>1, Zenon DEF Less
  <2> QED  BY <2>1, <2>2
<1> QED  BY <1>2

(* A set of numbers with 0 and with the successor of each of its members   *)
(* holds them all.                                                         *)
LEMMA Induction ==
    ASSUME NEW T, T \subseteq Nat, 0 \in T, \A n \in T : n + 1 \in T
    PROVE  T = Nat
<1> SUFFICES ASSUME Nat \ T # {} PROVE FALSE
  OBVIOUS
<1>1. PICK x \in Nat \ T : \A y \in Nat \ T : x <= y
  <2>1. Nat \ T \subseteq Nat
      OBVIOUS
  <2> QED  BY <2>1, LeastNumber
<1>2. x # 0 /\ x - 1 \in Nat
   BY <1>1
<1>3. x - 1 \in T
   BY <1>1, <1>2
<1>4. (x - 1) + 1 = x
   BY <1>2
<1> QED  BY <1>1, <1>3, <1>4

-----------------------------------------------------------------------------
(* The element that a fold over a set takes next.                          *)
Pick(s) == CHOOSE x \in s : TRUE

(* That element is one of the set.                                         *)
LEMMA PickIsIn == \A s : s # {} => Pick(s) \in s
BY Zenon DEF Pick

(* Without it the set has one element less.                                *)
LEMMA LessOne ==
    ASSUME NEW I, IsFiniteSet(I), NEW s \in SUBSET I, s # {}
    PROVE  /\ Cardinality(s) \in Nat
           /\ Cardinality(s \ {Pick(s)}) = Cardinality(s) - 1
           /\ Cardinality(s) - 1 \in Nat /\ s \ {Pick(s)} \in SUBSET I
<1>1. IsFiniteSet(s)
    BY FS_Subset
<1>2. Pick(s) \in s
    BY PickIsIn
<1>3. Cardinality(s) \in Nat /\ Cardinality(s) # 0
    BY <1>1, FS_CardinalityType, FS_EmptySet
<1>4. Cardinality(s \ {Pick(s)}) = Cardinality(s) - 1
    BY <1>1, <1>2, FS_RemoveElement
<1> QED  BY <1>3, <1>4

(* A set with the empty set, and with every subset of I whose rest after   *)
(* the next element it holds, holds all the subsets of I.                  *)
LEMMA SubsetInduction ==
    ASSUME NEW I, IsFiniteSet(I), NEW U, {} \in U,
           \A s \in SUBSET I : s # {} /\ s \ {Pick(s)} \in U => s \in U
    PROVE  SUBSET I \subseteq U
<1> DEFINE T == {n \in Nat : \A s \in SUBSET I : Cardinality(s) = n => s \in U}
<1>1. 0 \in T
    BY FS_Subset, FS_EmptySet
<1>2. ASSUME NEW n \in T
      PROVE  n + 1 \in T
  <2>1. ASSUME NEW s \in SUBSET I, Cardinality(s) = n + 1
        PROVE  s \in U
    <3>1. s # {}
        BY <2>1, FS_EmptySet, n \in Nat
    <3>2. Cardinality(s \ {Pick(s)}) = n /\ s \ {Pick(s)} \in SUBSET I
        BY <2>1, <3>1, LessOne
    <3> QED  BY <3>1, <3>2
  <2> QED  BY <2>1
<1>3. T = Nat
  <2> HIDE DEF T
  <2>1. T \subseteq Nat
    BY DEF T
  <2> QED  BY <1>1, <1>2, <2>1, Induction
<1>4. ASSUME NEW s \in SUBSET I
      PROVE  s \in U
  <2>1. Cardinality(s) \in Nat
     BY FS_Subset, FS_CardinalityType
  <2> QED  BY <1>3, <2>1
<1> QED  BY <1>4

-----------------------------------------------------------------------------
(* One step of the sum of f: g stands for the sums of smaller sets.        *)
Rec(f, g, s) == IF s = {} THEN 0 ELSE f[Pick(s)] + g[s \ {Pick(s)}]
(* The subsets of I of n elements at most.                                 *)
UpTo(I, n) == {s \in SUBSET I : Cardinality(s) <= n}

(* g is the table of the sums of f over the sets in D.                     *)
IsIter(g, f, D) == g = [s \in D |-> Rec(f, g, s)]

(* There is such a table for all the subsets of a finite set: from the     *)
(* table of the subsets up to one size the next one is made.               *)
LEMMA SumsExist ==
    ASSUME NEW I, IsFiniteSet(I), NEW f
    PROVE  \E g : IsIter(g, f, SUBSET I)
<1> DEFINE T == {n \in Nat : \E g : IsIter(g, f, UpTo(I, n))}
<1>1. 0 \in T
  <2> DEFINE g == [s \in UpTo(I, 0) |-> 0]
  <2>1. \A s \in UpTo(I, 0) : s = {}
    <3> SUFFICES ASSUME NEW s \in UpTo(I, 0) PROVE s = {}
        OBVIOUS
    <3>1. IsFiniteSet(s) /\ Cardinality(s) \in Nat /\ Cardinality(s) <= 0
        BY FS_Subset, FS_CardinalityType DEF UpTo
    <3> QED  BY <3>1, FS_EmptySet
  <2>2. \A s \in UpTo(I, 0) : g[s] = Rec(f, g, s)
      BY <2>1 DEF Rec
  <2>3. IsIter(g, f, UpTo(I, 0))
      BY <2>2 DEF IsIter
  <2> QED  BY <2>3
<1>2. ASSUME NEW n \in T
      PROVE  n + 1 \in T
  <2>1. n \in Nat
      OBVIOUS
  <2>2. PICK g : IsIter(g, f, UpTo(I, n))
      OBVIOUS
  <2> DEFINE h == [s \in UpTo(I, n + 1) |-> Rec(f, g, s)]
  <2>3. ASSUME NEW s \in UpTo(I, n + 1)
        PROVE  h[s] = Rec(f, h, s)
    <3>1. CASE s = {}
        BY <3>1 DEF Rec
    <3>2. CASE s # {}
      <4> DEFINE r == s \ {Pick(s)}
      <4>1. /\ Cardinality(s) \in Nat /\ Cardinality(r) = Cardinality(s) - 1
            /\ r \in SUBSET I
          BY <3>2, LessOne DEF UpTo
      <4>2. r \in UpTo(I, n) /\ r \in UpTo(I, n + 1)
          BY <2>1, <4>1 DEF UpTo
      <4>3. h[r] = g[r]
          BY <2>2, <4>2 DEF IsIter
      <4> QED  BY <3>2, <4>3 DEF Rec
    <3> QED  BY <3>1, <3>2
  <2>4. IsIter(h, f, UpTo(I, n + 1))
      BY <2>3 DEF IsIter
  <2> HIDE DEF h
  <2>5. \E k : IsIter(k, f, UpTo(I, n + 1))
      BY <2>4
  <2>6. n + 1 \in Nat
      BY <2>1
  <2> QED  BY <2>5, <2>6
<1>3. T = Nat
  <2> HIDE DEF T
  <2>1. T \subseteq Nat
    BY DEF T
  <2> QED  BY <1>1, <1>2, <2>1, Induction
<1>4. Cardinality(I) \in T
    BY <1>3, FS_CardinalityType
<1>5. UpTo(I, Cardinality(I)) = SUBSET I
    BY FS_Subset DEF UpTo
<1> QED  BY <1>4, <1>5

(* The table that the library's fold chooses.                              *)
Iter(f, I) == CHOOSE g : g = [s \in SUBSET I |-> Rec(f, g, s)]

(* The table chosen satisfies its recursive equation.                      *)
LEMMA IterIs ==
    ASSUME NEW I, IsFiniteSet(I), NEW f
    PROVE  Iter(f, I) = [s \in SUBSET I |-> Rec(f, Iter(f, I), s)]
<1>1. \E g : IsIter(g, f, SUBSET I)
    BY SumsExist
<1>2. IsIter(CHOOSE g : IsIter(g, f, SUBSET I), f, SUBSET I)
    BY <1>1, Zenon
<1> QED  BY <1>2, Zenon DEF Iter, IsIter

(* The same for one of its entries.                                        *)
LEMMA IterOf ==
    ASSUME NEW I, IsFiniteSet(I), NEW f, NEW s \in SUBSET I
    PROVE  Iter(f, I)[s] = Rec(f, Iter(f, I), s)
<1> DEFINE it == Iter(f, I)
<1>1. it = [r \in SUBSET I |-> Rec(f, it, r)]
    BY IterIs
<1> HIDE DEF it
<1>2. [r \in SUBSET I |-> Rec(f, it, r)][s] = Rec(f, it, s)
    OBVIOUS
<1>3. it[s] = [r \in SUBSET I |-> Rec(f, it, r)][s]
    BY <1>1, Zenon
<1> QED  BY <1>2, <1>3, Zenon DEF it

(* The sum over a set is the table's entry for the whole set.              *)
LEMMA SumIsIter ==
    ASSUME NEW I, NEW f
    PROVE  SumFunctionOnSet(f, I) = Iter(f, I)[I]
BY Zenon
DEF SumFunctionOnSet, FoldFunctionOnSet, MapThenFoldSet, Iter, Rec, Pick

(* The equation by cases: no element, or one and the rest.                 *)
LEMMA IterSteps ==
    ASSUME NEW I, IsFiniteSet(I), NEW f
    PROVE  /\ Iter(f, I)[{}] = 0
           /\ \A s \in SUBSET I : s # {} =>
                 Iter(f, I)[s] = f[Pick(s)] + Iter(f, I)[s \ {Pick(s)}]
<1> {} \in SUBSET I
   OBVIOUS
<1> QED  BY IterOf, Zenon DEF Rec

-----------------------------------------------------------------------------
(* Sums of integers are integers.                                          *)
LEMMA IterInt ==
    ASSUME NEW I, IsFiniteSet(I), NEW f, \A k \in I : f[k] \in Int
    PROVE  \A s \in SUBSET I : Iter(f, I)[s] \in Int
<1> DEFINE it == Iter(f, I)
           U == {s \in SUBSET I : it[s] \in Int}
<1>1. /\ it[{}] = 0
      /\ \A s \in SUBSET I : s # {} => it[s] = f[Pick(s)] + it[s \ {Pick(s)}]
    BY IterSteps
<1> HIDE DEF it
<1>2. {} \in U
    BY <1>1
<1>3. ASSUME NEW s \in SUBSET I, s # {}, s \ {Pick(s)} \in U
      PROVE  s \in U
  <2>1. Pick(s) \in I
      BY <1>3, PickIsIn
  <2>2. it[s \ {Pick(s)}] \in Int /\ f[Pick(s)] \in Int
      BY <1>3, <2>1
  <2>3. it[s] = f[Pick(s)] + it[s \ {Pick(s)}]
      BY <1>1, <1>3
  <2> QED  BY <2>2, <2>3
<1>4. SUBSET I \subseteq U
  <2> HIDE DEF U
  <2> QED  BY <1>2, <1>3, SubsetInduction
<1> QED  BY <1>4 DEF it

(* A sum of as many numbers up to B as I has elements (the running total   *)
(* of CapSensor over its pool fits uint16_t by it).                        *)
LEMMA SumWithin ==
    ASSUME NEW I, IsFiniteSet(I), NEW B \in Nat, NEW f \in [I -> 0 .. B]
    PROVE  /\ SumFunctionOnSet(f, I) \in Nat
           /\ SumFunctionOnSet(f, I) <= Cardinality(I) * B
<1> DEFINE it == Iter(f, I)
           U == {s \in SUBSET I :
                    it[s] \in Nat /\ it[s] <= Cardinality(s) * B}
<1>1. /\ it[{}] = 0
      /\ \A s \in SUBSET I : s # {} => it[s] = f[Pick(s)] + it[s \ {Pick(s)}]
    BY IterSteps
<1>2. SumFunctionOnSet(f, I) = it[I]
    BY SumIsIter
<1> HIDE DEF it
<1>3. {} \in U
    BY <1>1, FS_EmptySet
<1>4. ASSUME NEW s \in SUBSET I, s # {}, s \ {Pick(s)} \in U
      PROVE  s \in U
  <2> DEFINE r == s \ {Pick(s)}
  <2>1. Pick(s) \in I
      BY <1>4, PickIsIn
  <2>2. it[r] \in Nat /\ it[r] <= Cardinality(r) * B /\ f[Pick(s)] \in 0 .. B
      BY <1>4, <2>1
  <2>3. it[s] = f[Pick(s)] + it[r]
      BY <1>1, <1>4
  <2>4. /\ Cardinality(s) \in Nat /\ Cardinality(s) - 1 \in Nat
        /\ Cardinality(r) = Cardinality(s) - 1
      BY <1>4, LessOne
  <2> HIDE DEF r
  <2>5. ASSUME NEW c \in Nat, c - 1 \in Nat
        PROVE  (c - 1) * B + B = c * B
      OBVIOUS
  <2>6. Cardinality(r) * B + B = Cardinality(s) * B
      BY <2>4, <2>5
  <2>7. Cardinality(r) * B \in Nat
      BY <2>4
  <2> QED  BY <2>2, <2>3, <2>6, <2>7
<1>5. SUBSET I \subseteq U
  <2> HIDE DEF U
  <2> QED  BY <1>3, <1>4, SubsetInduction
<1> QED  BY <1>5, <1>2

(* When one value changes, the sum loses the old one and gains the new one *)
(* (CapSensor keeps its running total so).                                 *)
THEOREM SumOfChange ==
    ASSUME NEW I, IsFiniteSet(I), NEW f \in [I -> Int], NEW h \in [I -> Int],
           NEW k \in I, \A j \in I : j # k => h[j] = f[j]
    PROVE  /\ SumFunctionOnSet(f, I) \in Int
           /\ SumFunctionOnSet(h, I) = SumFunctionOnSet(f, I) - f[k] + h[k]
<1> DEFINE it == Iter(f, I)
           jt == Iter(h, I)
           U == {s \in SUBSET I :
                    jt[s] = IF k \in s THEN it[s] - f[k] + h[k] ELSE it[s]}
<1>1. /\ it[{}] = 0
      /\ \A s \in SUBSET I : s # {} => it[s] = f[Pick(s)] + it[s \ {Pick(s)}]
      /\ \A s \in SUBSET I : it[s] \in Int
    BY IterSteps, IterInt
<1>2. /\ jt[{}] = 0
      /\ \A s \in SUBSET I : s # {} => jt[s] = h[Pick(s)] + jt[s \ {Pick(s)}]
      /\ \A s \in SUBSET I : jt[s] \in Int
  <2>1. \A s \in SUBSET I : jt[s] \in Int
      BY IterInt
  <2> QED  BY <2>1, IterSteps
<1>3. SumFunctionOnSet(f, I) = it[I] /\ SumFunctionOnSet(h, I) = jt[I]
    BY SumIsIter
<1> HIDE DEF it, jt
<1>4. {} \in U
    BY <1>1, <1>2
<1>5. ASSUME NEW s \in SUBSET I, s # {}, s \ {Pick(s)} \in U
      PROVE  s \in U
  <2> DEFINE r == s \ {Pick(s)}
  <2>1. Pick(s) \in I /\ Pick(s) \in s
      BY <1>5, PickIsIn
  <2>2. it[s] = f[Pick(s)] + it[r] /\ jt[s] = h[Pick(s)] + jt[r]
      BY <1>1, <1>2, <1>5
  <2>3. jt[r] = IF k \in r THEN it[r] - f[k] + h[k] ELSE it[r]
      BY <1>5
  <2>4. /\ it[r] \in Int /\ jt[r] \in Int
        /\ f[Pick(s)] \in Int /\ f[k] \in Int /\ h[k] \in Int
      BY <1>1, <1>2, <2>1
  <2>5. CASE Pick(s) = k
    <3>1. k \notin r /\ k \in s /\ h[Pick(s)] = h[k]
        BY <2>1, <2>5
    <3> QED  BY <2>2, <2>3, <2>4, <2>5, <3>1
  <2>6. CASE Pick(s) # k
    <3>1. (k \in r <=> k \in s) /\ h[Pick(s)] = f[Pick(s)]
        BY <2>1, <2>6
    <3> QED  BY <2>2, <2>3, <2>4, <3>1
  <2> QED  BY <2>5, <2>6
<1>6. SUBSET I \subseteq U
  <2> HIDE DEF U
  <2> QED  BY <1>4, <1>5, SubsetInduction
<1>7. I \in U
  <2> HIDE DEF U
  <2>1. I \in SUBSET I
      OBVIOUS
  <2> QED  BY <1>6, <2>1
<1>8. jt[I] = it[I] - f[k] + h[k]
    BY <1>7
<1>9. it[I] \in Int
  <2>1. I \in SUBSET I
      OBVIOUS
  <2> QED  BY <1>1, <2>1
<1> QED  BY <1>3, <1>8, <1>9

-----------------------------------------------------------------------------
(* Two tables of the sums of one function agree.                           *)
LEMMA IterUnique ==
    ASSUME NEW I, IsFiniteSet(I), NEW f, NEW g, NEW h,
           IsIter(g, f, SUBSET I), IsIter(h, f, SUBSET I)
    PROVE  g[I] = h[I]
<1> DEFINE U == {s \in SUBSET I : g[s] = h[s]}
<1>1. \A s \in SUBSET I : g[s] = Rec(f, g, s)
  <2> TAKE s \in SUBSET I
  <2>1. [r \in SUBSET I |-> Rec(f, g, r)][s] = Rec(f, g, s)
      OBVIOUS
  <2>2. g[s] = [r \in SUBSET I |-> Rec(f, g, r)][s]
      BY Zenon DEF IsIter
  <2> QED  BY <2>1, <2>2
<1>2. \A s \in SUBSET I : h[s] = Rec(f, h, s)
  <2> TAKE s \in SUBSET I
  <2>1. [r \in SUBSET I |-> Rec(f, h, r)][s] = Rec(f, h, s)
      OBVIOUS
  <2>2. h[s] = [r \in SUBSET I |-> Rec(f, h, r)][s]
      BY Zenon DEF IsIter
  <2> QED  BY <2>1, <2>2
<1>3. {} \in U
    BY <1>1, <1>2 DEF Rec
<1>4. ASSUME NEW s \in SUBSET I, s # {}, s \ {Pick(s)} \in U
      PROVE  s \in U
    BY <1>1, <1>2, <1>4 DEF Rec
<1>5. SUBSET I \subseteq U
  <2> HIDE DEF U
  <2> QED  BY <1>3, <1>4, SubsetInduction
<1>6. I \in SUBSET I
    OBVIOUS
<1> QED  BY <1>5, <1>6

(* The order of the elements does not matter.                              *)
LEMMA IterRest ==
    ASSUME NEW I, IsFiniteSet(I), NEW f, \A k \in I : f[k] \in Int
    PROVE  \A s \in SUBSET I :
               \A k \in s : Iter(f, I)[s] = f[k] + Iter(f, I)[s \ {k}]
<1> DEFINE it == Iter(f, I)
           Same(s) == \A k \in s : it[s] = f[k] + it[s \ {k}]
           T == {n \in Nat :
                   \A s \in SUBSET I : Cardinality(s) <= n => Same(s)}
<1>1. /\ \A s \in SUBSET I : s # {} => it[s] = f[Pick(s)] + it[s \ {Pick(s)}]
      /\ \A s \in SUBSET I : it[s] \in Int
    BY IterSteps, IterInt
<1> HIDE DEF it
<1>2. 0 \in T
  <2> SUFFICES ASSUME NEW s \in SUBSET I, Cardinality(s) <= 0
               PROVE  s = {}
      OBVIOUS
  <2>1. IsFiniteSet(s) /\ Cardinality(s) \in Nat
      BY FS_Subset, FS_CardinalityType
  <2> QED  BY <2>1, FS_EmptySet
<1>3. ASSUME NEW n \in T
      PROVE  n + 1 \in T
  <2> SUFFICES ASSUME NEW s \in SUBSET I, Cardinality(s) <= n + 1, NEW k \in s
               PROVE  it[s] = f[k] + it[s \ {k}]
      OBVIOUS
  <2> DEFINE p == Pick(s)
             r == s \ {k}
             q == s \ {p}
  <2>1. n \in Nat /\ s # {} /\ p \in s
      BY PickIsIn
  <2>2. IsFiniteSet(s) /\ Cardinality(s) \in Nat
      BY FS_Subset, FS_CardinalityType
  <2>3. /\ Cardinality(r) = Cardinality(s) - 1
        /\ Cardinality(q) = Cardinality(s) - 1
      BY <2>1, <2>2, FS_RemoveElement
  <2> HIDE DEF p
  <2>4. /\ r \in SUBSET I /\ Cardinality(r) <= n
        /\ q \in SUBSET I /\ Cardinality(q) <= n
      BY <2>1, <2>2, <2>3
  <2>5. \A e \in r : it[r] = f[e] + it[r \ {e}]
      BY <2>4
  <2>6. \A e \in q : it[q] = f[e] + it[q \ {e}]
      BY <2>4
  <2>7. it[s] = f[p] + it[q]
      BY <1>1, <2>1 DEF p
  <2>8. CASE p = k
      BY <2>7, <2>8
  <2>9. CASE p # k
    <3>1. p \in r /\ k \in q /\ r \ {p} = q \ {k} /\ r \ {p} \in SUBSET I
        BY <2>1, <2>9
    <3>2. it[r] = f[p] + it[r \ {p}] /\ it[q] = f[k] + it[r \ {p}]
        BY <2>5, <2>6, <3>1
    <3>3. f[p] \in Int /\ f[k] \in Int /\ it[r \ {p}] \in Int
        BY <1>1, <2>1, <3>1
    <3> QED  BY <2>7, <3>2, <3>3
  <2> QED  BY <2>8, <2>9
<1>4. T = Nat
  <2> HIDE DEF T
  <2>1. T \subseteq Nat
      BY DEF T
  <2> QED  BY <1>2, <1>3, <2>1, Induction
<1>5. \A s \in SUBSET I : Cardinality(s) \in Nat
    BY FS_Subset, FS_CardinalityType
<1>6. ASSUME NEW s \in SUBSET I
      PROVE  Same(s)
  <2>1. Cardinality(s) \in T /\ Cardinality(s) <= Cardinality(s)
      BY <1>4, <1>5
  <2> QED  BY <2>1
<1> QED  BY <1>6 DEF it

(* The table of a subset is a part of the table of the set.                *)
LEMMA IterOfSubset ==
    ASSUME NEW I, IsFiniteSet(I), NEW f, NEW J \in SUBSET I
    PROVE  Iter(f, I)[J] = Iter(f, J)[J]
<1> DEFINE it == Iter(f, I)
           jt == Iter(f, J)
           U == {s \in SUBSET J : it[s] = jt[s]}
<1>1. IsFiniteSet(J)
    BY FS_Subset
<1>2. /\ it[{}] = 0
      /\ \A s \in SUBSET I : s # {} => it[s] = f[Pick(s)] + it[s \ {Pick(s)}]
    BY IterSteps
<1>3. /\ jt[{}] = 0
      /\ \A s \in SUBSET J : s # {} => jt[s] = f[Pick(s)] + jt[s \ {Pick(s)}]
    BY <1>1, IterSteps
<1> HIDE DEF it, jt
<1>4. {} \in U
    BY <1>2, <1>3
<1>5. ASSUME NEW s \in SUBSET J, s # {}, s \ {Pick(s)} \in U
      PROVE  s \in U
  <2>1. s \in SUBSET I
      OBVIOUS
  <2> QED  BY <1>2, <1>3, <1>5, <2>1
<1>6. SUBSET J \subseteq U
  <2> HIDE DEF U
  <2> QED  BY <1>1, <1>4, <1>5, SubsetInduction
<1>7. J \in SUBSET J
    OBVIOUS
<1> QED  BY <1>6, <1>7 DEF it, jt

(* A sum is one of its terms and the sum of the others, whichever that is. *)
THEOREM SumOfRest ==
    ASSUME NEW I, IsFiniteSet(I), NEW f, \A k \in I : f[k] \in Int
    PROVE  /\ SumFunctionOnSet(f, I) \in Int
           /\ I = {} => SumFunctionOnSet(f, I) = 0
           /\ \A k \in I : SumFunctionOnSet(f, I)
                               = f[k] + SumFunctionOnSet(f, I \ {k})
<1>1. SumFunctionOnSet(f, I) = Iter(f, I)[I]
    BY SumIsIter
<1>2. I \in SUBSET I
    OBVIOUS
<1>3. SumFunctionOnSet(f, I) \in Int
    BY <1>1, <1>2, IterInt
<1>4. I = {} => SumFunctionOnSet(f, I) = 0
    BY <1>1, IterSteps
<1>5. ASSUME NEW k \in I
      PROVE  SumFunctionOnSet(f, I) = f[k] + SumFunctionOnSet(f, I \ {k})
  <2>1. Iter(f, I)[I] = f[k] + Iter(f, I)[I \ {k}]
      BY <1>2, IterRest
  <2>2. I \ {k} \in SUBSET I
      OBVIOUS
  <2>3. Iter(f, I)[I \ {k}] = Iter(f, I \ {k})[I \ {k}]
      BY <2>2, IterOfSubset
  <2>4. SumFunctionOnSet(f, I \ {k}) = Iter(f, I \ {k})[I \ {k}]
      BY SumIsIter
  <2> QED  BY <1>1, <2>1, <2>3, <2>4
<1> QED  BY <1>3, <1>4, <1>5

-----------------------------------------------------------------------------
(* The greatest of some numbers that are bounded.                          *)
LEMMA MaxOf ==
    ASSUME NEW b \in Nat, NEW t, t \subseteq 0 .. b, t # {}
    PROVE  Max(t) \in t /\ \A x \in t : x <= Max(t)
<1> DEFINE T == {m \in Nat : \A x \in t : x <= m}
<1>1. b \in T
    OBVIOUS
<1>2. PICK m \in T : \A y \in T : m <= y
  <2>1. T \subseteq Nat /\ T # {}
      BY <1>1
  <2> HIDE DEF T
  <2> QED  BY <2>1, LeastNumber
<1>3. m \in t
  <2> SUFFICES ASSUME m \notin t PROVE FALSE
      OBVIOUS
  <2>1. PICK y \in t : TRUE
      OBVIOUS
  <2>2. \A x \in t : x \in Nat /\ x <= m - 1
      OBVIOUS
  <2>3. m - 1 \in T
      BY <2>1, <2>2
  <2> QED  BY <1>2, <2>3
<1>4. \E x \in t : \A y \in t : x >= y
    BY <1>3
<1>5. Max(t) \in t /\ \A y \in t : Max(t) >= y
    BY <1>4, Zenon DEF Max
<1> QED  BY <1>5

(* The smaller of two numbers.                                             *)
LEMMA MinPair ==
    ASSUME NEW a \in Nat, NEW b \in Nat
    PROVE  Min({a, b}) = IF a <= b THEN a ELSE b
<1> DEFINE m == IF a <= b THEN a ELSE b
<1>1. m \in {a, b} /\ \A y \in {a, b} : m <= y
    OBVIOUS
<1>2. \A x \in {a, b} : (\A y \in {a, b} : x <= y) => x = m
    OBVIOUS
<1> HIDE DEF m
<1>3. (CHOOSE x \in {a, b} : \A y \in {a, b} : x <= y) = m
    BY <1>1, <1>2
<1>4. Min({a, b}) = m
    BY <1>3, Zenon DEF Min
<1> QED  BY <1>4 DEF m

(* A function that never falls from one number to the next lies between its*)
(* first and its last value.                                               *)
LEMMA Monotone ==
    ASSUME NEW n \in Nat, NEW q \in [0 .. n -> Nat],
           \A k \in 1 .. n : q[k - 1] <= q[k]
    PROVE  \A m \in 0 .. n : q[0] <= q[m] /\ q[m] <= q[n]
<1> DEFINE Up(m) == \A j \in 0 .. m : q[j] <= q[m]
           T == {m \in Nat : m <= n => Up(m)}
<1>1. \A j \in 0 .. n : q[j] \in Nat
    OBVIOUS
<1>2. 0 \in T
  <2>1. \A j \in 0 .. 0 : j = 0
      OBVIOUS
  <2>2. 0 \in 0 .. n
      OBVIOUS
  <2> QED  BY <1>1, <2>1, <2>2
<1>3. ASSUME NEW m \in T
      PROVE  m + 1 \in T
  <2>1. m \in Nat /\ m + 1 \in Nat
      OBVIOUS
  <2> SUFFICES ASSUME m + 1 <= n
               PROVE  Up(m + 1)
      BY <2>1
  <2>2. m \in 0 .. n /\ m + 1 \in 1 .. n /\ m + 1 \in 0 .. n /\ (m + 1) - 1 = m
      BY <2>1
  <2>3. Up(m)
      BY <2>2
  <2> HIDE DEF T
  <2>4. q[m] <= q[m + 1]
      BY <2>2
  <2>5. ASSUME NEW j \in 0 .. m + 1
        PROVE  q[j] <= q[m + 1]
    <3>1. j \in 0 .. n /\ (j \in 0 .. m \/ j = m + 1)
        BY <2>1
    <3> QED  BY <1>1, <2>2, <2>3, <2>4, <3>1
  <2> QED  BY <2>5
<1>4. T = Nat
  <2> HIDE DEF T
  <2>1. T \subseteq Nat
      BY DEF T
  <2> QED  BY <1>2, <1>3, <2>1, Induction
<1> SUFFICES ASSUME NEW m \in 0 .. n
             PROVE  q[0] <= q[m] /\ q[m] <= q[n]
    OBVIOUS
<1>5. Up(m) /\ Up(n)
  <2> HIDE DEF T, Up
  <2>1. m \in T /\ n \in T /\ m <= n /\ n <= n
      BY <1>4
  <2> QED  BY <2>1 DEF T
<1>6. 0 \in 0 .. m /\ m \in 0 .. n
    OBVIOUS
<1> QED  BY <1>5, <1>6
=============================================================================
