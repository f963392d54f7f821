-------------------------- MODULE InductionTheorems --------------------------
(***************************************************************************)
(* Induction over numbers and finite sets, and what it proves of the sum   *)
(* of a function over a set.  The library's induction rules speak of an    *)
(* arbitrary predicate; here a predicate is the set of the values it holds *)
(* of, which the provers can instantiate, and induction is the existence   *)
(* of a minimal counterexample.                                            *)
(***************************************************************************)
EXTENDS Integers, Functions, FiniteSetTheorems, TLAPS

\* The order of the natural numbers, as a relation.
NatLess == {p \in Nat \X Nat : p[1] < p[2]}

\* It has no infinite descent.
LEMMA NatLessWF == IsWellFoundedOn(NatLess, Nat)
BY NatLessThanWellFounded DEF NatLess, OpToRel

\* Some natural numbers have a smallest one among them.
LEMMA SmallestNumber ==
  ASSUME NEW T \in SUBSET Nat, T # {}
  PROVE  \E x \in T : \A y \in T : x <= y
<1>1. PICK x \in T : \A y \in T : ~ (<<y, x>> \in NatLess)
  <2>1. T \subseteq Nat
    OBVIOUS
  <2> QED BY <2>1, NatLessWF, WFMin
<1>2. ASSUME NEW y \in T PROVE x <= y
  <2>1. x \in Nat /\ y \in Nat /\ ~ (<<y, x>> \in NatLess)
    BY <1>1
  <2> QED BY <2>1 DEF NatLess
<1> QED BY <1>2

\* A set with 0 and the successors of its members has every natural number.
LEMMA NatInductionOnSet ==
  ASSUME NEW S, 0 \in S, \A n \in Nat : n \in S => n + 1 \in S
  PROVE  Nat \subseteq S
<1> DEFINE T == {n \in Nat : n \notin S}
<1>1. ASSUME T # {} PROVE FALSE
  <2>1. PICK x \in T : \A y \in T : x <= y
    BY <1>1, SmallestNumber
  <2>2. x \in Nat /\ x # 0 /\ x - 1 \in Nat
    OBVIOUS
  <2>3. x - 1 \in T
    BY <2>2
  <2> QED BY <2>1, <2>2, <2>3
<1> QED BY <1>1

\* Among some subsets of a finite set, one includes no other.
LEMMA SmallestSubset ==
  ASSUME NEW S, IsFiniteSet(S), NEW C \in SUBSET SUBSET S, C # {}
  PROVE  \E T \in C : \A U \in C : U \subseteq T => U = T
<1>1. IsWellFoundedOn(StrictSubsetOrdering(S), SUBSET S)
  BY FS_StrictSubsetOrderingWellFounded, FS_FiniteSubsetsOfFinite
<1>2. PICK T \in C : \A U \in C : ~ (<<U, T>> \in StrictSubsetOrdering(S))
  BY <1>1, WFMin
<1>3. \A U \in C : U \subseteq T => U = T
  BY <1>2 DEF StrictSubsetOrdering
<1> QED BY <1>3

-----------------------------------------------------------------------------
\* SumFunctionOnSet takes the elements in the order CHOOSE gives; these are the
\* sums it makes on the way, one for every subset.
ChosenOf(s) == CHOOSE x \in s : TRUE

SubtotalOf(f, it, s) == IF s = {} THEN 0 ELSE f[ChosenOf(s)] + it[s \ {ChosenOf(s)}]

Subtotals(f, S) == CHOOSE it : it = [s \in SUBSET S |-> SubtotalOf(f, it, s)]

\* The sum is the last of its subtotals.
LEMMA SumIsSubtotal ==
  ASSUME NEW f, NEW S PROVE SumFunctionOnSet(f, S) = Subtotals(f, S)[S]
BY DEF SumFunctionOnSet, FoldFunctionOnSet, MapThenFoldSet, Subtotals, SubtotalOf, ChosenOf

\* The element taken is one of the set.
LEMMA ChosenIn == ASSUME NEW s, s # {} PROVE ChosenOf(s) \in s
BY DEF ChosenOf

\* The recursion is well founded: subtotals of the subsets of up to n elements
\* exist for every n.
LEMMA SubtotalsExist ==
  ASSUME NEW f, NEW S, IsFiniteSet(S)
  PROVE  \E it : it = [s \in SUBSET S |-> SubtotalOf(f, it, s)]
<1> DEFINE Upto(n) == {s \in SUBSET S : Cardinality(s) <= n}
           N == {n \in Nat : \E it : it = [s \in Upto(n) |-> SubtotalOf(f, it, s)]}
<1>1. \A s \in SUBSET S : IsFiniteSet(s) /\ Cardinality(s) \in Nat
  BY FS_Subset, FS_CardinalityType
<1>2. 0 \in N
  <2> DEFINE it == [s \in Upto(0) |-> 0]
  <2>1. \A s \in Upto(0) : s = {}
    BY <1>1, FS_EmptySet
  <2>2. it = [s \in Upto(0) |-> SubtotalOf(f, it, s)]
    BY <2>1 DEF SubtotalOf
  <2> QED BY <2>2
<1>3. ASSUME NEW n \in Nat, n \in N PROVE n + 1 \in N
  <2>1. PICK g : g = [s \in Upto(n) |-> SubtotalOf(f, g, s)]
    BY <1>3
  <2> DEFINE it == [s \in Upto(n + 1) |-> SubtotalOf(f, g, s)]
  <2>2. ASSUME NEW s \in Upto(n + 1), s # {}
        PROVE  s \ {ChosenOf(s)} \in Upto(n)
    <3>1. /\ ChosenOf(s) \in s /\ IsFiniteSet(s)
          /\ Cardinality(s) \in Nat /\ Cardinality(s) <= n + 1
      BY <1>1, <2>2, ChosenIn
    <3>2. Cardinality(s \ {ChosenOf(s)}) = Cardinality(s) - 1
      BY <3>1, FS_RemoveElement
    <3> QED BY <3>1, <3>2
  <2>3. ASSUME NEW s \in Upto(n) PROVE s \in Upto(n + 1) /\ it[s] = g[s]
    <3>1. s \in Upto(n + 1)
      BY <1>1
    <3>2. g[s] = SubtotalOf(f, g, s)
      BY <2>1
    <3> QED BY <3>1, <3>2
  <2>4. ASSUME NEW s \in Upto(n + 1) PROVE it[s] = SubtotalOf(f, it, s)
    <3>1. CASE s = {}
      BY <3>1 DEF SubtotalOf
    <3>2. CASE s # {}
      <4>1. it[s \ {ChosenOf(s)}] = g[s \ {ChosenOf(s)}]
        BY <2>2, <2>3, <3>2
      <4>2. it[s] = SubtotalOf(f, g, s)
        OBVIOUS
      <4> HIDE DEF it
      <4> QED BY <3>2, <4>1, <4>2 DEF SubtotalOf
    <3> QED BY <3>1, <3>2
  <2>5. it = [s \in Upto(n + 1) |-> SubtotalOf(f, it, s)]
    BY <2>4
  <2>6. \E h : h = [s \in Upto(n + 1) |-> SubtotalOf(f, h, s)]
    <3> HIDE DEF it, Upto
    <3> QED BY <2>5
  <2> QED BY <2>6
<1>4. Nat \subseteq N
  <2> HIDE DEF N
  <2> QED BY <1>2, <1>3, NatInductionOnSet
<1>5. Cardinality(S) \in N
  BY <1>1, <1>4
<1>6. Upto(Cardinality(S)) = SUBSET S
  BY <1>1, FS_Subset
<1> HIDE DEF Upto
<1> QED BY <1>5, <1>6

\* So each subtotal is what the recursion says.
LEMMA SubtotalStep ==
  ASSUME NEW f, NEW S, IsFiniteSet(S), NEW T \in SUBSET S
  PROVE  Subtotals(f, S)[T] = SubtotalOf(f, Subtotals(f, S), T)
<1> DEFINE P(it) == it = [s \in SUBSET S |-> SubtotalOf(f, it, s)]
           sub == CHOOSE it : P(it)
<1>1. \E it : P(it)
  BY SubtotalsExist
<1>2. P(sub)
  <2> HIDE DEF P
  <2> QED BY <1>1
<1>3. Subtotals(f, S) = sub
  BY DEF Subtotals
<1> HIDE DEF sub
<1>4. sub[T] = SubtotalOf(f, sub, T)
  BY <1>2
<1> QED BY <1>3, <1>4

\* A subtotal depends on the function's values there, and on nothing else.
LEMMA SubtotalsAgree ==
  ASSUME NEW f, NEW g, NEW S, NEW R, IsFiniteSet(S), IsFiniteSet(R),
         NEW T \in (SUBSET S) \cap (SUBSET R), \A x \in T : f[x] = g[x]
  PROVE  Subtotals(f, S)[T] = Subtotals(g, R)[T]
<1> DEFINE C == {U \in SUBSET T : Subtotals(f, S)[U] # Subtotals(g, R)[U]}
<1>1. ASSUME C # {} PROVE FALSE
  <2>1. IsFiniteSet(T) /\ C \in SUBSET SUBSET T
    BY FS_Subset
  <2>2. PICK U \in C : \A V \in C : V \subseteq U => V = U
    <3> HIDE DEF C
    <3> QED BY <1>1, <2>1, SmallestSubset
  <2>3. /\ Subtotals(f, S)[U] = SubtotalOf(f, Subtotals(f, S), U)
        /\ Subtotals(g, R)[U] = SubtotalOf(g, Subtotals(g, R), U)
    BY SubtotalStep
  <2>4. CASE U = {}
    BY <2>3, <2>4 DEF SubtotalOf
  <2>5. CASE U # {}
    <3>1. ChosenOf(U) \in U
      BY <2>5, ChosenIn
    <3>2. U \ {ChosenOf(U)} \notin C
      BY <2>2, <3>1
    <3>3. Subtotals(f, S)[U \ {ChosenOf(U)}] = Subtotals(g, R)[U \ {ChosenOf(U)}]
      BY <3>2
    <3> QED BY <2>3, <2>5, <3>1, <3>3 DEF SubtotalOf
  <2> QED BY <2>4, <2>5
<1> QED BY <1>1

\* Sums of integers are integers.
LEMMA SubtotalsType ==
  ASSUME NEW f, NEW S, IsFiniteSet(S), NEW T \in SUBSET S, \A x \in T : f[x] \in Int
  PROVE  Subtotals(f, S)[T] \in Int
<1> DEFINE C == {U \in SUBSET T : Subtotals(f, S)[U] \notin Int}
<1>1. ASSUME C # {} PROVE FALSE
  <2>1. IsFiniteSet(T) /\ C \in SUBSET SUBSET T
    BY FS_Subset
  <2>2. PICK U \in C : \A V \in C : V \subseteq U => V = U
    <3> HIDE DEF C
    <3> QED BY <1>1, <2>1, SmallestSubset
  <2>3. Subtotals(f, S)[U] = SubtotalOf(f, Subtotals(f, S), U)
    BY SubtotalStep
  <2>4. CASE U = {}
    BY <2>3, <2>4 DEF SubtotalOf
  <2>5. CASE U # {}
    <3>1. ChosenOf(U) \in U /\ f[ChosenOf(U)] \in Int
      BY <2>5, ChosenIn
    <3>2. U \ {ChosenOf(U)} \notin C
      BY <2>2, <3>1
    <3>3. Subtotals(f, S)[U \ {ChosenOf(U)}] \in Int
      BY <3>2
    <3> QED BY <2>3, <2>5, <3>1, <3>3 DEF SubtotalOf
  <2> QED BY <2>4, <2>5
<1> QED BY <1>1

\* Any element can be taken first: the order does not matter.
LEMMA SubtotalsTake ==
  ASSUME NEW f, NEW S, IsFiniteSet(S), NEW T \in SUBSET S, \A x \in T : f[x] \in Int,
         NEW y \in T
  PROVE  Subtotals(f, S)[T] = f[y] + Subtotals(f, S)[T \ {y}]
<1> DEFINE At(U) == Subtotals(f, S)[U]
           C == {U \in SUBSET T : \E x \in U : At(U) # f[x] + At(U \ {x})}
<1>1. ASSUME C # {} PROVE FALSE
  <2>1. IsFiniteSet(T) /\ C \in SUBSET SUBSET T
    BY FS_Subset
  <2>2. PICK U \in C : \A V \in C : V \subseteq U => V = U
    <3> HIDE DEF C
    <3> QED BY <1>1, <2>1, SmallestSubset
  <2>3. PICK x \in U : At(U) # f[x] + At(U \ {x})
    OBVIOUS
  <2>4. PICK p \in U : At(U) = f[p] + At(U \ {p})
    <3>1. ChosenOf(U) \in U
      BY ChosenIn
    <3>2. At(U) = SubtotalOf(f, Subtotals(f, S), U)
      BY SubtotalStep
    <3>3. At(U) = f[ChosenOf(U)] + At(U \ {ChosenOf(U)})
      BY <3>1, <3>2 DEF SubtotalOf
    <3> QED BY <3>1, <3>3
  <2>5. p # x
    BY <2>3, <2>4
  <2>6. U \ {p} \notin C /\ U \ {x} \notin C
    BY <2>2, <2>3, <2>4
  <2>7. /\ At(U \ {p}) = f[x] + At((U \ {p}) \ {x})
        /\ At(U \ {x}) = f[p] + At((U \ {x}) \ {p})
    BY <2>3, <2>4, <2>5, <2>6
  <2>8. (U \ {p}) \ {x} = (U \ {x}) \ {p}
    OBVIOUS
  <2>9. f[p] \in Int /\ f[x] \in Int /\ At((U \ {p}) \ {x}) \in Int
    <3>1. (U \ {p}) \ {x} \in SUBSET S /\ \A z \in (U \ {p}) \ {x} : f[z] \in Int
      OBVIOUS
    <3> QED BY <2>3, <2>4, <3>1, SubtotalsType
  <2>10. At(U) = f[x] + At(U \ {x})
    <3> DEFINE rest == At((U \ {p}) \ {x})
    <3>1. At(U) = f[p] + (f[x] + rest)
      BY <2>4, <2>7
    <3>2. At(U \ {x}) = f[p] + rest
      BY <2>7, <2>8
    <3>3. f[p] + (f[x] + rest) = f[x] + (f[p] + rest)
      <4> HIDE DEF rest
      <4> QED BY <2>9 DEF rest
    <3> QED BY <3>1, <3>2, <3>3
  <2> QED BY <2>3, <2>10
<1>2. T \notin C
  BY <1>1
<1> QED BY <1>2

\* The same of whole sums, as the proofs about components cite them.
LEMMA SumType ==
  ASSUME NEW f, NEW S, IsFiniteSet(S), \A x \in S : f[x] \in Int
  PROVE  SumFunctionOnSet(f, S) \in Int
BY SumIsSubtotal, SubtotalsType

\* The sum over no element.
LEMMA SumEmpty == ASSUME NEW f PROVE SumFunctionOnSet(f, {}) = 0
<1>1. Subtotals(f, {})[{}] = SubtotalOf(f, Subtotals(f, {}), {})
  BY SubtotalStep, FS_EmptySet
<1> QED BY <1>1, SumIsSubtotal DEF SubtotalOf

\* Functions that agree on a set have one sum there.
LEMMA SumSame ==
  ASSUME NEW f, NEW g, NEW S, IsFiniteSet(S), \A x \in S : f[x] = g[x]
  PROVE  SumFunctionOnSet(f, S) = SumFunctionOnSet(g, S)
BY SumIsSubtotal, SubtotalsAgree

\* One element more adds its value.
LEMMA SumAdd ==
  ASSUME NEW f, NEW S, IsFiniteSet(S), NEW y, y \notin S,
         \A x \in S \cup {y} : f[x] \in Int
  PROVE  SumFunctionOnSet(f, S \cup {y}) = f[y] + SumFunctionOnSet(f, S)
<1> DEFINE R == S \cup {y}
<1>1. IsFiniteSet(R) /\ S \in SUBSET R /\ y \in R /\ R \ {y} = S /\ R \in SUBSET R
  BY FS_AddElement
<1>2. \A x \in R : f[x] \in Int
  OBVIOUS
<1> HIDE DEF R
<1>3. Subtotals(f, R)[R] = f[y] + Subtotals(f, R)[R \ {y}]
  BY <1>1, <1>2, SubtotalsTake
<1>4. Subtotals(f, R)[S] = Subtotals(f, S)[S]
  BY <1>1, SubtotalsAgree
<1> QED BY <1>1, <1>3, <1>4, SumIsSubtotal DEF R
=============================================================================
