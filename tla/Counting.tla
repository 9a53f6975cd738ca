------------------------------- MODULE Counting -------------------------------
(***************************************************************************)
(* Facts about finite sets, least elements and sums, cited by the proofs   *)
(* of the components.  Induction over a concrete set of numbers is by its  *)
(* least element.                                                          *)
(***************************************************************************)
EXTENDS Integers, FiniteSetsExt, FiniteSetTheorems, FunctionTheorems, WellFoundedInduction,
        TLAPS

(* A set of naturals that is not empty has a least element.               *)
LEMMA LeastNumber ==
  ASSUME NEW T, T \subseteq Nat, T # {}
  PROVE  \E m \in T : \A n \in T : m <= n
<1>1. PICK m \in T : \A n \in T : <<n, m>> \notin OpToRel(<, Nat)
  BY NatLessThanWellFounded, WFMin
<1>2. \A n \in T : ~(n < m)
  BY <1>1 DEF OpToRel
<1>3. QED
  BY <1>2

(***************************************************************************)
(* Sums.  A sum of naturals is a number of things: w[x] units for each x.  *)
(***************************************************************************)
SumOver(w, S) == MapThenSumSet(LAMBDA x : w[x], S)

(* The units of all elements, and those of one.                            *)
Units(w, S) == {p \in S \X Nat : p[2] < w[p[1]]}

Unit(w, x) == {x} \X (0..(w[x] - 1))

(* Taking an element out of the set takes its units out, and no other.     *)
LEMMA UnitsAdd ==
  ASSUME NEW w, NEW S, NEW x \in S, w[x] \in Nat
  PROVE  Units(w, S) = Units(w, S \ {x}) \cup Unit(w, x)
BY DEF Units, Unit

(* An element has as many units as it weighs.                              *)
LEMMA UnitSize ==
  ASSUME NEW w, NEW x, w[x] \in Nat
  PROVE  IsFiniteSet(Unit(w, x)) /\ Cardinality(Unit(w, x)) = w[x]
<1>1. /\ IsFiniteSet(0..(w[x] - 1))
      /\ Cardinality(0..(w[x] - 1)) = w[x]
  BY FS_Interval
<1>2. IsFiniteSet({x}) /\ Cardinality({x}) = 1
  BY FS_Singleton
<1> DEFINE n == Cardinality(0..(w[x] - 1))
           one == Cardinality({x})
<1>3. IsFiniteSet(Unit(w, x)) /\ Cardinality(Unit(w, x)) = one * n
  BY <1>1, <1>2, FS_Product DEF Unit
<1>4. one = 1 /\ n = w[x]
  BY <1>1, <1>2
<1> HIDE DEF n, one
<1>5. one * n = n
  BY <1>4
<1>6. QED
  BY <1>3, <1>4, <1>5

(* A finite set has finitely many units ...                                *)
LEMMA UnitsFinite ==
  ASSUME NEW w, NEW S, IsFiniteSet(S), \A x \in S : w[x] \in Nat
  PROVE  IsFiniteSet(Units(w, S))
<1> DEFINE f == [x \in S |-> Unit(w, x)]
           T == {Unit(w, x) : x \in S}
<1>1. f \in Surjection(S, T)
  BY DEF Surjection
<1>2. IsFiniteSet(T)
  BY <1>1, FS_Surjection
<1>3. \A U \in T : IsFiniteSet(U)
  BY UnitSize
<1>4. IsFiniteSet(UNION T)
  BY <1>2, <1>3, FS_UNION
<1>5. Units(w, S) = UNION T
  BY DEF Units, Unit
<1>6. QED
  BY <1>4, <1>5

(* ... and those of one element fewer are fewer by its weight.             *)
LEMMA UnitsStep ==
  ASSUME NEW w, NEW S, IsFiniteSet(S), \A x \in S : w[x] \in Nat, NEW x \in S
  PROVE  Cardinality(Units(w, S)) = w[x] + Cardinality(Units(w, S \ {x}))
<1>1. IsFiniteSet(S \ {x})
  BY FS_RemoveElement
<1>2. /\ IsFiniteSet(Units(w, S \ {x}))
      /\ IsFiniteSet(Unit(w, x))
      /\ Cardinality(Unit(w, x)) = w[x]
  BY <1>1, UnitsFinite, UnitSize
<1> DEFINE rest == Units(w, S \ {x})
           new == Unit(w, x)
<1>3. rest \cap new = {}
  BY DEF Units, Unit
<1>4. Units(w, S) = rest \cup new
  BY UnitsAdd
<1> HIDE DEF rest, new
<1>5. Cardinality(rest \cup new) = Cardinality(rest) + Cardinality(new) - Cardinality({})
  <2>1. IsFiniteSet(rest) /\ IsFiniteSet(new)
    BY <1>2 DEF rest, new
  <2>2. Cardinality(rest \cup new) =
            Cardinality(rest) + Cardinality(new) - Cardinality(rest \cap new)
    BY <2>1, FS_Union
  <2>3. QED
    BY <1>3, <2>2
<1>6. Cardinality(rest) \in Nat
  BY <1>2, FS_CardinalityType DEF rest
<1>7. QED
  BY <1>2, <1>4, <1>5, <1>6, FS_EmptySet DEF rest, new

(* The sum that the library computes by taking one element at a time is    *)
(* the number of units.                                                    *)
LEMMA SumIsUnits ==
  ASSUME NEW w, NEW S, IsFiniteSet(S), \A x \in S : w[x] \in Nat
  PROVE  SumOver(w, S) = Cardinality(Units(w, S))
<1> DEFINE Fold(g) == [s \in SUBSET S |->
                          IF s = {} THEN 0
                          ELSE LET x == CHOOSE x \in s : TRUE IN w[x] + g[s \ {x}]]
           units == [s \in SUBSET S |-> Cardinality(Units(w, s))]
           iter == CHOOSE g : g = Fold(g)
<1>1. units = Fold(units)
  <2>1. ASSUME NEW s \in SUBSET S
        PROVE  units[s] = Fold(units)[s]
    <3>1. CASE s = {}
      <4>1. Units(w, {}) = {}
        BY DEF Units
      <4>2. QED
        BY <3>1, <4>1, FS_EmptySet
    <3>2. CASE s # {}
      <4> DEFINE x == CHOOSE x \in s : TRUE
      <4>1. x \in s
        BY <3>2
      <4>2. IsFiniteSet(s)
        BY FS_Subset
      <4> HIDE DEF x
      <4>3. units[s] = w[x] + units[s \ {x}]
        BY <4>1, <4>2, UnitsStep
      <4>4. QED
        BY <3>2, <4>3 DEF x
    <3>3. QED
      BY <3>1, <3>2
  <2>2. QED
    BY <2>1
<1>2. iter = Fold(iter)
  BY <1>1
<1> HIDE DEF iter, units
<1>3. \A s \in SUBSET S : iter[s] = units[s]
  <2> DEFINE Bad == {n \in Nat : \E s \in SUBSET S : Cardinality(s) = n /\ iter[s] # units[s]}
  <2>1. SUFFICES ASSUME Bad # {} PROVE FALSE
    <3>1. \A s \in SUBSET S : Cardinality(s) \in Nat
      BY FS_Subset, FS_CardinalityType
    <3>2. QED
      BY <3>1
  <2>2. PICK n \in Bad : \A k \in Bad : n <= k
    BY <2>1, LeastNumber
  <2>3. PICK s \in SUBSET S : Cardinality(s) = n /\ iter[s] # units[s]
    BY <2>2
  <2>4. CASE s = {}
    BY <1>1, <1>2, <2>3, <2>4
  <2>5. CASE s # {}
    <3> DEFINE x == CHOOSE x \in s : TRUE
    <3>1. x \in s
      BY <2>5
    <3>2. iter[s] = w[x] + iter[s \ {x}] /\ units[s] = w[x] + units[s \ {x}]
      BY <1>1, <1>2, <2>5
    <3> HIDE DEF x
    <3>3. IsFiniteSet(s)
      BY FS_Subset
    <3>4. Cardinality(s \ {x}) = n - 1 /\ n \in Nat /\ Cardinality(s \ {x}) \in Nat
      BY <2>2, <2>3, <3>1, <3>3, FS_RemoveElement, FS_CardinalityType
    <3>5. iter[s \ {x}] # units[s \ {x}]
      BY <2>3, <3>2
    <3>6. n - 1 \in Bad
      BY <3>4, <3>5
    <3>7. QED
      BY <2>2, <3>4, <3>6
  <2>6. QED
    BY <2>4, <2>5
<1>4. SumOver(w, S) = iter[S]
  BY DEF SumOver, MapThenSumSet, MapThenFoldSet, iter
<1>5. QED
  BY <1>3, <1>4 DEF units

(* A sum is a natural number.                                              *)
LEMMA SumType ==
  ASSUME NEW w, NEW S, IsFiniteSet(S), \A x \in S : w[x] \in Nat
  PROVE  SumOver(w, S) \in Nat
BY SumIsUnits, UnitsFinite, FS_CardinalityType

(* A new element adds its weight.                                          *)
LEMMA SumAdd ==
  ASSUME NEW w, NEW S, IsFiniteSet(S), \A x \in S : w[x] \in Nat,
         NEW y, y \notin S, w[y] \in Nat
  PROVE  SumOver(w, S \cup {y}) = w[y] + SumOver(w, S)
<1> DEFINE T == S \cup {y}
<1>1. IsFiniteSet(T) /\ y \in T /\ \A x \in T : w[x] \in Nat
  BY FS_AddElement
<1>2. T \ {y} = S
  OBVIOUS
<1> HIDE DEF T
<1>3. Cardinality(Units(w, T)) = w[y] + Cardinality(Units(w, T \ {y}))
  BY <1>1, UnitsStep
<1>4. SumOver(w, T) = Cardinality(Units(w, T)) /\ SumOver(w, S) = Cardinality(Units(w, S))
  BY <1>1, SumIsUnits
<1>5. QED
  BY <1>2, <1>3, <1>4 DEF T

(* More elements do not sum up to less.                                    *)
LEMMA SumMonotone ==
  ASSUME NEW w, NEW T, IsFiniteSet(T), \A x \in T : w[x] \in Nat,
         NEW S, S \subseteq T
  PROVE  SumOver(w, S) \in Nat /\ SumOver(w, T) \in Nat /\ SumOver(w, S) <= SumOver(w, T)
<1>1. IsFiniteSet(S) /\ \A x \in S : w[x] \in Nat
  BY FS_Subset
<1>2. Units(w, S) \subseteq Units(w, T)
  BY DEF Units
<1>3. Cardinality(Units(w, S)) <= Cardinality(Units(w, T))
  BY <1>2, UnitsFinite, FS_Subset
<1>4. QED
  BY <1>1, <1>3, SumIsUnits, SumType

(* No element weighs more than all of them.                                *)
LEMMA SumBounds ==
  ASSUME NEW w, NEW S, IsFiniteSet(S), \A x \in S : w[x] \in Nat, NEW x \in S
  PROVE  w[x] <= SumOver(w, S)
<1>1. Unit(w, x) \subseteq Units(w, S)
  BY DEF Unit, Units
<1>2. IsFiniteSet(Units(w, S))
  BY UnitsFinite
<1>3. Cardinality(Unit(w, x)) <= Cardinality(Units(w, S))
  BY <1>1, <1>2, FS_Subset
<1>4. QED
  BY <1>3, UnitSize, SumIsUnits

(***************************************************************************)
(* Least and greatest                                                      *)
(***************************************************************************)
LEMMA MinFacts ==
  ASSUME NEW T, T \subseteq Nat, T # {}
  PROVE  Min(T) \in T /\ \A n \in T : Min(T) <= n
BY LeastNumber DEF Min

LEMMA MinOfTwo ==
  ASSUME NEW a \in Nat, NEW b \in Nat
  PROVE  Min({a, b}) = IF a <= b THEN a ELSE b
<1>1. Min({a, b}) \in {a, b} /\ \A n \in {a, b} : Min({a, b}) <= n
  BY MinFacts
<1>2. QED
  BY <1>1

(* The greatest of a set with a bound b: the least distance from b.        *)
LEMMA MaxFacts ==
  ASSUME NEW T, T \subseteq Nat, T # {}, NEW b \in Nat, \A n \in T : n <= b
  PROVE  Max(T) \in T /\ \A n \in T : n <= Max(T)
<1> DEFINE D == {b - n : n \in T}
<1>1. D \subseteq Nat /\ D # {}
  <2>1. \A n \in T : b - n \in Nat
    OBVIOUS
  <2>2. QED
    BY <2>1
<1>2. PICK d \in D : \A e \in D : d <= e
  BY <1>1, LeastNumber
<1>3. PICK m \in T : d = b - m
  BY <1>2
<1>4. \A n \in T : m >= n
  <2> TAKE n \in T
  <2>1. b - n \in D
    OBVIOUS
  <2>2. b - m <= b - n /\ m \in Nat /\ n \in Nat
    BY <1>2, <1>3, <2>1
  <2>3. QED
    BY <2>2
<1>5. Max(T) \in T /\ \A n \in T : Max(T) >= n
  BY <1>4 DEF Max
<1>6. QED
  BY <1>5

(* A finite set has an element of the greatest weight.                     *)
LEMMA Greatest ==
  ASSUME NEW w, NEW S, IsFiniteSet(S), S # {}, \A x \in S : w[x] \in Nat
  PROVE  /\ \E m \in S : \A x \in S : w[x] <= w[m]
         /\ Max({w[x] : x \in S}) \in {w[x] : x \in S}
         /\ \A x \in S : w[x] <= Max({w[y] : y \in S})
<1> DEFINE T == {w[x] : x \in S}
<1>1. T \subseteq Nat /\ T # {}
  OBVIOUS
<1>2. SumOver(w, S) \in Nat /\ \A n \in T : n <= SumOver(w, S)
  BY SumType, SumBounds
<1>3. Max(T) \in T /\ \A n \in T : n <= Max(T)
  BY <1>1, <1>2, MaxFacts
<1>4. QED
  BY <1>3
=============================================================================
