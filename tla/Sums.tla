-------------------------------- MODULE Sums --------------------------------
(***************************************************************************)
(* Facts about MapThenSumSet, by which the models count the rows of a      *)
(* table and the tries of a user.  It is a fold, that is a function        *)
(* defined by recursion over the subsets of a set.  That such a function   *)
(* exists, and is the number of units its terms consist of, is shown on    *)
(* the smallest set for which it would be wrong; what is known about       *)
(* cardinalities then holds of sums.  Terms are bounded by some number M.  *)
(***************************************************************************)
EXTENDS Naturals, FiniteSets, FiniteSetsExt, FiniteSetTheorems, WellFoundedInduction, TLAPS

\* The element that the fold takes next.
Unit(s) == CHOOSE x \in s : TRUE

\* h adds up f over every part of S as MapThenSumSet does.
AddsUp(h, f, S) ==
  h = [s \in SUBSET S |-> IF s = {} THEN 0 ELSE f[Unit(s)] + h[s \ {Unit(s)}]]

\* What is added up, one by one.
Units(f, S, M) == {r \in S \X (1..M) : r[2] <= f[r[1]]}

\* Units are finitely many, and those of disjoint sets are apart.
LEMMA UnitsFinite ==
  ASSUME NEW S, IsFiniteSet(S), NEW M \in Nat, NEW f
  PROVE  IsFiniteSet(Units(f, S, M)) /\ Cardinality(Units(f, S, M)) \in Nat
<1>1. IsFiniteSet(1..M)
  BY FS_Interval
<1>2. IsFiniteSet(S \X (1..M))
  BY <1>1, FS_Product
<1>3. IsFiniteSet(Units(f, S, M))
  BY <1>2, FS_Subset DEF Units
<1> QED BY <1>3, FS_CardinalityType

LEMMA UnitsUnion ==
  ASSUME NEW S, IsFiniteSet(S), NEW T, IsFiniteSet(T), S \cap T = {}, NEW M \in Nat, NEW f
  PROVE  Cardinality(Units(f, S \union T, M)) = Cardinality(Units(f, S, M)) + Cardinality(Units(f, T, M))
<1>1. Units(f, S \union T, M) = Units(f, S, M) \union Units(f, T, M)
  BY DEF Units
<1>2. Units(f, S, M) \cap Units(f, T, M) = {}
  BY DEF Units
<1>3. /\ IsFiniteSet(Units(f, S, M)) /\ Cardinality(Units(f, S, M)) \in Nat
      /\ IsFiniteSet(Units(f, T, M)) /\ Cardinality(Units(f, T, M)) \in Nat
  BY UnitsFinite
<1>4. Cardinality(Units(f, S, M) \union Units(f, T, M))
        = Cardinality(Units(f, S, M)) + Cardinality(Units(f, T, M)) - Cardinality(Units(f, S, M) \cap Units(f, T, M))
  BY <1>3, FS_Union
<1>5. Cardinality(Units(f, S, M) \cap Units(f, T, M)) = 0
  BY <1>2, FS_EmptySet
<1>6. PICK a, b \in Nat : a = Cardinality(Units(f, S, M)) /\ b = Cardinality(Units(f, T, M))
  BY <1>3
<1>7. Cardinality(Units(f, S, M) \union Units(f, T, M)) = a + b - 0
  BY <1>4, <1>5, <1>6
<1>8. a + b - 0 = a + b
  OBVIOUS
<1>9. Cardinality(Units(f, S, M) \union Units(f, T, M)) = a + b
  BY <1>7, <1>8, Zenon
<1> QED BY <1>1, <1>6, <1>9, Zenon

LEMMA UnitsOfOne ==
  ASSUME NEW M \in Nat, NEW f, NEW x, f[x] \in 0..M
  PROVE  Cardinality(Units(f, {x}, M)) = f[x]
<1>1. Units(f, {x}, M) = {x} \X (1..f[x])
  BY DEF Units
<1>2. IsFiniteSet(1..f[x]) /\ Cardinality(1..f[x]) = f[x]
  <2>1. PICK n \in Nat : n = f[x]
    OBVIOUS
  <2>2. 1 \in Int /\ n \in Int
    OBVIOUS
  <2>3. Cardinality(1..n) = (IF 1 > n THEN 0 ELSE n - 1 + 1) /\ IsFiniteSet(1..n)
    BY <2>2, FS_Interval, Zenon
  <2>4. (IF 1 > n THEN 0 ELSE n - 1 + 1) = n
    OBVIOUS
  <2> QED BY <2>1, <2>3, <2>4, Zenon
<1>3. IsFiniteSet({x}) /\ Cardinality({x}) = 1
  BY FS_Singleton
<1>4. Cardinality({x} \X (1..f[x])) = Cardinality({x}) * Cardinality(1..f[x])
  BY <1>2, <1>3, FS_Product
<1>5. f[x] \in Nat /\ 1 * f[x] = f[x]
  OBVIOUS
<1> QED BY <1>1, <1>2, <1>3, <1>4, <1>5

LEMMA UnitsOfNone ==
  ASSUME NEW M \in Nat, NEW f
  PROVE  Cardinality(Units(f, {}, M)) = 0
<1>1. Units(f, {}, M) = {}
  BY DEF Units
<1> QED BY <1>1, FS_EmptySet

LEMMA UnitsSplit ==
  ASSUME NEW S, IsFiniteSet(S), NEW M \in Nat, NEW f, NEW x \in S, f[x] \in 0..M
  PROVE  Cardinality(Units(f, S, M)) = f[x] + Cardinality(Units(f, S \ {x}, M))
<1>1. IsFiniteSet(S \ {x}) /\ IsFiniteSet({x}) /\ {x} \cap (S \ {x}) = {} /\ {x} \union (S \ {x}) = S
  BY FS_RemoveElement, FS_Singleton
<1>2. Cardinality(Units(f, {x} \union (S \ {x}), M))
        = Cardinality(Units(f, {x}, M)) + Cardinality(Units(f, S \ {x}, M))
  BY <1>1, UnitsUnion
<1> QED BY <1>1, <1>2, UnitsOfOne

\* Such a function exists: the one that counts.
LEMMA AddsUpExists ==
  ASSUME NEW S, IsFiniteSet(S), NEW M \in Nat, NEW f, \A x \in S : f[x] \in 0..M
  PROVE  AddsUp([s \in SUBSET S |-> Cardinality(Units(f, s, M))], f, S)
<1> DEFINE g == [s \in SUBSET S |-> Cardinality(Units(f, s, M))]
<1>1. ASSUME NEW s \in SUBSET S, s # {}
      PROVE  g[s] = f[Unit(s)] + g[s \ {Unit(s)}]
  <2>1. Unit(s) \in s
    BY <1>1 DEF Unit
  <2>2. IsFiniteSet(s)
    BY FS_Subset
  <2>3. Cardinality(Units(f, s, M)) = f[Unit(s)] + Cardinality(Units(f, s \ {Unit(s)}, M))
    BY <2>1, <2>2, UnitsSplit
  <2> QED BY <2>1, <2>3
<1>2. g[{}] = 0
  BY UnitsOfNone
<1>3. g = [s \in SUBSET S |-> IF s = {} THEN 0 ELSE f[Unit(s)] + g[s \ {Unit(s)}]]
  <2> DEFINE h == [s \in SUBSET S |-> IF s = {} THEN 0 ELSE f[Unit(s)] + g[s \ {Unit(s)}]]
  <2>1. DOMAIN g = DOMAIN h /\ \A s \in SUBSET S : g[s] = h[s]
    <3> HIDE DEF g
    <3>1. \A s \in SUBSET S : g[s] = h[s]
      BY <1>1, <1>2
    <3> QED BY <3>1 DEF g
  <2> QED BY <2>1
<1> QED BY <1>3 DEF AddsUp

\* And it is the only one.
LEMMA AddsUpCounts ==
  ASSUME NEW S, IsFiniteSet(S), NEW M \in Nat, NEW f, \A x \in S : f[x] \in 0..M,
         NEW h, AddsUp(h, f, S)
  PROVE  h[S] = Cardinality(Units(f, S, M))
<1> DEFINE g == [s \in SUBSET S |-> Cardinality(Units(f, s, M))]
           T == {s \in SUBSET S : h[s] # g[s]}
<1>1. AddsUp(g, f, S)
  BY AddsUpExists
<1>2. SUFFICES ASSUME T # {} PROVE FALSE
  <2>1. S \in SUBSET S
    OBVIOUS
  <2> QED BY <1>2, <2>1
<1>3. T \subseteq FiniteSubsetsOf(S)
  BY FS_Subset DEF FiniteSubsetsOf
<1>4. PICK s \in T : \A t \in T : ~(<<t, s>> \in StrictSubsetOrdering(S))
  <2> HIDE DEF T
  <2> QED BY <1>2, <1>3, FS_StrictSubsetOrderingWellFounded, WFMin
<1>5. s # {}
  <2>1. h[{}] = 0 /\ g[{}] = 0
    <3> HIDE DEF g
    <3> QED BY <1>1 DEF AddsUp
  <2> QED BY <2>1
<1>6. Unit(s) \in s /\ s \in SUBSET S
  BY <1>5 DEF Unit
<1>7. s \ {Unit(s)} \notin T
  <2>1. <<s \ {Unit(s)}, s>> \in StrictSubsetOrdering(S)
    BY <1>6, FS_Subset DEF StrictSubsetOrdering
  <2> QED BY <1>4, <2>1
<1>8. h[s] = f[Unit(s)] + h[s \ {Unit(s)}] /\ g[s] = f[Unit(s)] + g[s \ {Unit(s)}]
  <2> HIDE DEF g
  <2> QED BY <1>1, <1>5, <1>6 DEF AddsUp
<1>9. h[s \ {Unit(s)}] = g[s \ {Unit(s)}]
  BY <1>6, <1>7
<1> QED
  <2> HIDE DEF g
  <2> QED BY <1>8, <1>9

\* The sum of a function over a set.
Total(f, S) == MapThenSumSet(LAMBDA x : f[x], S)

(* MapThenSumSet counts units: as many for each element as f says.         *)
THEOREM SumCounts ==
  ASSUME NEW S, IsFiniteSet(S), NEW M \in Nat, NEW f, \A x \in S : f[x] \in 0..M
  PROVE  Total(f, S) = Cardinality(Units(f, S, M)) /\ Total(f, S) \in Nat
<1> DEFINE h == CHOOSE h : AddsUp(h, f, S)
<1>1. \E a : AddsUp(a, f, S)
  BY AddsUpExists
<1>2. AddsUp(h, f, S)
  BY <1>1
<1>3. Total(f, S) = h[S]
  BY DEF Total, MapThenSumSet, MapThenFoldSet, AddsUp, Unit
<1> HIDE DEF h
<1>4. h[S] = Cardinality(Units(f, S, M))
  BY <1>2, AddsUpCounts
<1> QED BY <1>3, <1>4, UnitsFinite

-----------------------------------------------------------------------------
\* Nothing adds up to nothing.
LEMMA TotalOfNone ==
  ASSUME NEW f
  PROVE  Total(f, {}) = 0
<1>1. IsFiniteSet({}) /\ \A x \in {} : f[x] \in 0..0
  BY FS_EmptySet
<1>2. Total(f, {}) = Cardinality(Units(f, {}, 0))
  BY <1>1, SumCounts
<1> QED BY <1>2, UnitsOfNone

\* A total without one of its terms.
LEMMA TotalSplit ==
  ASSUME NEW S, IsFiniteSet(S), NEW M \in Nat, NEW f, \A x \in S : f[x] \in 0..M, NEW x \in S
  PROVE  /\ Total(f, S) = f[x] + Total(f, S \ {x})
         /\ f[x] \in Nat /\ Total(f, S \ {x}) \in Nat
<1>1. IsFiniteSet(S \ {x})
  BY FS_RemoveElement
<1>2. Total(f, S) = Cardinality(Units(f, S, M))
  BY SumCounts
<1>3. Total(f, S \ {x}) = Cardinality(Units(f, S \ {x}, M)) /\ Total(f, S \ {x}) \in Nat
  BY <1>1, SumCounts
<1>4. Cardinality(Units(f, S, M)) = f[x] + Cardinality(Units(f, S \ {x}, M))
  BY UnitsSplit
<1>5. f[x] \in Nat
  OBVIOUS
<1> QED BY <1>2, <1>3, <1>4, <1>5, Zenon

\* Terms that do not fall, over more of them.
LEMMA TotalMonotone ==
  ASSUME NEW T, IsFiniteSet(T), NEW S \in SUBSET T, NEW M \in Nat,
         NEW f, \A x \in S : f[x] \in 0..M, NEW g, \A x \in T : g[x] \in 0..M,
         \A x \in S : f[x] <= g[x]
  PROVE  Total(f, S) <= Total(g, T)
<1>1. IsFiniteSet(S)
  BY FS_Subset
<1>2. Total(f, S) = Cardinality(Units(f, S, M)) /\ Total(g, T) = Cardinality(Units(g, T, M))
  BY <1>1, SumCounts
<1>3. Units(f, S, M) \in SUBSET Units(g, T, M)
  <2> SUFFICES ASSUME NEW r \in Units(f, S, M) PROVE r \in Units(g, T, M)
    OBVIOUS
  <2>1. PICK x \in S, i \in 1..M : r = <<x, i>> /\ i <= f[x]
    BY DEF Units
  <2>2. f[x] \in Nat /\ g[x] \in Nat /\ i \in Nat /\ f[x] <= g[x]
    OBVIOUS
  <2>3. i <= g[x]
    BY <2>1, <2>2
  <2> QED BY <2>1, <2>3 DEF Units
<1>4. Cardinality(Units(f, S, M)) <= Cardinality(Units(g, T, M))
  BY <1>3, UnitsFinite, FS_Subset
<1> QED BY <1>2, <1>4

=============================================================================
