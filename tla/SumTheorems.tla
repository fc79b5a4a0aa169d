---------------------------- MODULE SumTheorems ----------------------------
(***************************************************************************)
(* What the proofs need to know about sums over finite sets, the           *)
(* SumFunctionOnSet of the community modules: their type, the empty sum,   *)
(* the sum with one element taken out, and that only the summands count.   *)
(* The library has no such facts.  They are proved by taking a least       *)
(* counterexample: the naturals are well ordered (Least).                  *)
(***************************************************************************)
EXTENDS Integers, FiniteSets, Sequences, Functions, TLAPS, FiniteSetTheorems, WellFoundedInduction

\* A set of naturals that is not empty has a least element.
LEMMA Least ==
  ASSUME NEW T, T \subseteq Nat, T # {}
  PROVE  \E x \in T : \A y \in T : x <= y
<1> DEFINE R == {ss \in Nat \X Nat : ss[1] < ss[2]}
<1>1. R = OpToRel(<, Nat)
  BY DEF OpToRel
<1>2. IsWellFoundedOn(R, Nat)
  BY <1>1, NatLessThanWellFounded
<1> HIDE DEF R
<1>3. \E x \in T : \A y \in T : ~ (<<y, x>> \in R)
  BY <1>2, WFMin
<1>4. PICK x \in T : \A y \in T : ~ (<<y, x>> \in R)
  BY <1>3
<1>5. \A y \in T : ~ (y < x)
  BY <1>4 DEF R
<1> QED
  BY <1>5

\* Induction over the naturals, the predicate given as the set of those that satisfy it.
LEMMA NatSetInduction ==
  ASSUME NEW G, 0 \in G, \A k \in Nat : k \in G => k + 1 \in G
  PROVE  Nat \subseteq G
<1> SUFFICES ASSUME {k \in Nat : k \notin G} # {} PROVE FALSE
  OBVIOUS
<1>1. PICK k \in {k \in Nat : k \notin G} : \A m \in {m \in Nat : m \notin G} : k <= m
  BY Least
<1>2. k # 0
  BY <1>1
<1>3. k - 1 \in Nat /\ ~ (k <= k - 1)
  BY <1>2
<1>4. k - 1 \in G
  BY <1>1, <1>3
<1>5. k - 1 + 1 \in G /\ k - 1 + 1 = k
  BY <1>3, <1>4
<1> QED
  BY <1>1, <1>5

\* f holds what the first steps, taken one after the other from a, lead to.
Takes(f, a, steps, k) == \A i \in 0..k : f[i] = IF i = 0 THEN a ELSE steps[i][f[i - 1]]

\* Steps that keep to a set can be taken one after the other: the recursive function that
\* counts them exists.
LEMMA Iterates ==
  ASSUME NEW S, NEW a \in S, NEW k \in Nat, NEW steps \in [1..k -> [S -> S]]
  PROVE  \E f \in [0..k -> S] : Takes(f, a, steps, k)
<1> DEFINE Good(f, n) == f \in [0..n -> S] /\ \A i \in 0..n : f[i] = IF i = 0 THEN a ELSE steps[i][f[i - 1]]
           G == {n \in Nat : n <= k => \E f : Good(f, n)}
<1>1. 0 \in G
  <2> DEFINE f == [i \in 0..0 |-> a]
  <2>1. Good(f, 0)
    OBVIOUS
  <2> HIDE DEF f, Good
  <2> QED
    BY <2>1
<1>2. ASSUME NEW n \in Nat, n \in G, n + 1 <= k PROVE \E h : Good(h, n + 1)
  <2>1. PICK f : Good(f, n)
    <3> HIDE DEF Good
    <3>1. n <= k
      BY <1>2
    <3> QED
      BY <1>2, <3>1
  <2> DEFINE h == [i \in 0..(n + 1) |-> IF i = n + 1 THEN steps[n + 1][f[n]] ELSE f[i]]
  <2>2. n + 1 \in 1..k /\ n \in 0..n /\ n + 1 \in 0..(n + 1)
    BY <1>2
  <2>3. steps[n + 1] \in [S -> S] /\ f[n] \in S
    BY <2>1, <2>2
  <2>4. steps[n + 1][f[n]] \in S
    BY <2>3
  <2>5. \A i \in 0..(n + 1) : i # n + 1 => i \in 0..n
    OBVIOUS
  <2>6. h \in [0..(n + 1) -> S]
    BY <2>1, <2>4, <2>5
  <2>7. \A i \in 0..n : h[i] = f[i]
    OBVIOUS
  <2>8. h[n + 1] = steps[n + 1][f[n]]
    OBVIOUS
  <2> HIDE DEF h
  <2>9. ASSUME NEW i \in 0..(n + 1) PROVE h[i] = IF i = 0 THEN a ELSE steps[i][h[i - 1]]
    <3>1. CASE i = n + 1
      <4>1. i # 0 /\ i - 1 = n /\ h[n] = f[n]
        BY <2>2, <2>7, <3>1
      <4> QED
        BY <2>8, <3>1, <4>1
    <3>2. CASE i # n + 1
      <4>1. i \in 0..n /\ h[i] = f[i]
        BY <2>5, <2>7, <3>2
      <4>2. i # 0 => i - 1 \in 0..n
        BY <4>1
      <4> QED
        BY <2>1, <2>7, <4>1, <4>2
    <3> QED
      BY <3>1, <3>2
  <2> QED
    BY <2>6, <2>9
<1>3. k \in G
  <2>1. \A n \in Nat : n \in G => n + 1 \in G
    <3> HIDE DEF Good
    <3> QED
      BY <1>2
  <2> HIDE DEF G
  <2> QED
    BY <1>1, <2>1, NatSetInduction
<1>4. PICK f : Good(f, k)
  <2> HIDE DEF Good
  <2> QED
    BY <1>3
<1> QED
  BY <1>4 DEF Takes

\* Among the finite sets of a collection that is not empty, one has least cardinality.
LEMMA LeastSet ==
  ASSUME NEW C, C # {}, \A s \in C : IsFiniteSet(s)
  PROVE  \E s \in C : \A u \in C : Cardinality(s) <= Cardinality(u)
<1> DEFINE T == {Cardinality(s) : s \in C}
<1>1. T \subseteq Nat /\ T # {}
  BY FS_CardinalityType
<1>2. PICK k \in T : \A m \in T : k <= m
  BY <1>1, Least
<1> QED
  BY <1>2

-----------------------------------------------------------------------------
(* The recursion that SumFunctionOnSet chooses its function for. *)

Pick(s) == CHOOSE x \in s : TRUE
Step(f, g, s) == IF s = {} THEN 0 ELSE f[Pick(s)] + g[s \ {Pick(s)}]
IsSum(f, g, D) == g = [s \in D |-> Step(f, g, s)]

LEMMA PickIn == ASSUME NEW s, s # {} PROVE Pick(s) \in s
  BY DEF Pick

LEMMA Unfold ==
  ASSUME NEW f, NEW S
  PROVE  SumFunctionOnSet(f, S) = (CHOOSE g : IsSum(f, g, SUBSET S))[S]
  BY DEF SumFunctionOnSet, FoldFunctionOnSet, MapThenFoldSet, IsSum, Step, Pick

\* The subsets of S with at most k elements.
UpTo(S, k) == {s \in SUBSET S : Cardinality(s) <= k}

LEMMA UpToRemove ==
  ASSUME NEW S, IsFiniteSet(S), NEW k \in Nat,
         NEW s \in UpTo(S, k + 1), s # {}
  PROVE  s \ {Pick(s)} \in UpTo(S, k)
<1>1. IsFiniteSet(s) /\ Cardinality(s) \in Nat
  BY FS_Subset, FS_CardinalityType DEF UpTo
<1>2. Cardinality(s \ {Pick(s)}) = Cardinality(s) - 1
  BY <1>1, PickIn, FS_RemoveElement
<1> QED
  BY <1>1, <1>2 DEF UpTo

\* The recursion has a solution on the subsets of a finite set.
LEMMA SumExists ==
  ASSUME NEW f, NEW S, IsFiniteSet(S)
  PROVE  \E g : IsSum(f, g, SUBSET S)
<1> DEFINE P(k) == \E g : IsSum(f, g, UpTo(S, k))
<1>1. P(0)
  <2>1. UpTo(S, 0) = {{}}
    BY FS_EmptySet, FS_Subset, FS_CardinalityType DEF UpTo
  <2>2. IsSum(f, [s \in UpTo(S, 0) |-> 0], UpTo(S, 0))
    BY <2>1 DEF IsSum, Step
  <2> QED
    BY <2>2
<1>2. ASSUME NEW k \in Nat, P(k) PROVE P(k + 1)
  <2>1. PICK g : IsSum(f, g, UpTo(S, k))
    BY <1>2
  <2> DEFINE h == [s \in UpTo(S, k + 1) |-> Step(f, g, s)]
  <2>2. UpTo(S, k) \subseteq UpTo(S, k + 1)
    BY FS_Subset, FS_CardinalityType DEF UpTo
  <2>3. ASSUME NEW s \in UpTo(S, k + 1) PROVE Step(f, g, s) = Step(f, h, s)
    <3>1. CASE s = {}
      BY <3>1 DEF Step
    <3>2. CASE s # {}
      <4> DEFINE u == s \ {Pick(s)}
      <4>1. u \in UpTo(S, k)
        BY <3>2, UpToRemove
      <4>2. h[u] = Step(f, g, u)
        BY <4>1, <2>2
      <4>3. g[u] = Step(f, g, u)
        BY <4>1, <2>1 DEF IsSum
      <4> QED
        BY <3>2, <4>2, <4>3 DEF Step
    <3> QED
      BY <3>1, <3>2
  <2>4. h = [s \in UpTo(S, k + 1) |-> Step(f, h, s)]
    <3> HIDE DEF h
    <3>1. h = [s \in UpTo(S, k + 1) |-> Step(f, g, s)]
      BY DEF h
    <3> QED
      BY <2>3, <3>1
  <2> QED
    BY <2>4 DEF IsSum
<1>3. \A k \in Nat : P(k)
  <2> SUFFICES ASSUME {k \in Nat : ~ P(k)} # {} PROVE FALSE
    OBVIOUS
  <2>1. PICK k \in {k \in Nat : ~ P(k)} : \A m \in {m \in Nat : ~ P(m)} : k <= m
    BY Least
  <2>2. k # 0
    BY <1>1, <2>1
  <2>3. k - 1 \in Nat /\ ~ (k <= k - 1)
    BY <2>2
  <2>4. P(k - 1)
    BY <2>1, <2>3
  <2>5. P(k - 1 + 1)
    BY <1>2, <2>3, <2>4
  <2>6. k - 1 + 1 = k
    OBVIOUS
  <2> QED
    BY <2>1, <2>5, <2>6
<1>4. SUBSET S = UpTo(S, Cardinality(S))
  BY FS_Subset DEF UpTo
<1>5. Cardinality(S) \in Nat
  BY FS_CardinalityType
<1>6. P(Cardinality(S))
  <2> HIDE DEF P
  <2> QED
    BY <1>3, <1>5
<1> QED
  BY <1>4, <1>6

-----------------------------------------------------------------------------
SumOver(f, S) == CHOOSE g : IsSum(f, g, SUBSET S)

LEMMA SumOverIsSum ==
  ASSUME NEW f, NEW S, IsFiniteSet(S)
  PROVE  /\ IsSum(f, SumOver(f, S), SUBSET S)
         /\ SumFunctionOnSet(f, S) = SumOver(f, S)[S]
  BY SumExists, Unfold DEF SumOver

\* Two solutions agree where both are defined and their summands agree.
LEMMA SumUnique ==
  ASSUME NEW S, NEW U, IsFiniteSet(S), IsFiniteSet(U), NEW f, NEW e, NEW g, NEW h,
         IsSum(f, g, SUBSET S), IsSum(e, h, SUBSET U),
         \A x \in S \cap U : f[x] = e[x],
         NEW s \in SUBSET (S \cap U)
  PROVE  g[s] = h[s]
<1> DEFINE C == {u \in SUBSET (S \cap U) : g[u] # h[u]}
<1>0. \A u \in SUBSET (S \cap U) : IsFiniteSet(u)
  BY FS_Subset
<1> SUFFICES ASSUME C # {} PROVE FALSE
  OBVIOUS
<1>1. PICK u \in C : \A v \in C : Cardinality(u) <= Cardinality(v)
  BY <1>0, LeastSet
<1>2. g[u] = Step(f, g, u) /\ h[u] = Step(e, h, u)
  BY DEF IsSum
<1>3. u # {}
  BY <1>2 DEF Step
<1>4. Pick(u) \in u
  BY <1>3, PickIn
<1>5. Cardinality(u \ {Pick(u)}) = Cardinality(u) - 1 /\ Cardinality(u) \in Nat
  BY <1>0, <1>4, FS_RemoveElement, FS_CardinalityType
<1>6. g[u \ {Pick(u)}] = h[u \ {Pick(u)}]
  BY <1>1, <1>5
<1> QED
  BY <1>2, <1>3, <1>4, <1>6 DEF Step

\* A sum depends on the summands only.
LEMMA SumCong ==
  ASSUME NEW S, IsFiniteSet(S), NEW f, NEW e, \A x \in S : f[x] = e[x]
  PROVE  SumFunctionOnSet(f, S) = SumFunctionOnSet(e, S)
<1>1. IsSum(f, SumOver(f, S), SUBSET S) /\ IsSum(e, SumOver(e, S), SUBSET S)
  BY SumOverIsSum
<1>2. S \in SUBSET (S \cap S) /\ \A x \in S \cap S : f[x] = e[x]
  OBVIOUS
<1>3. SumOver(f, S)[S] = SumOver(e, S)[S]
  BY <1>1, <1>2, SumUnique
<1> QED
  BY <1>3, SumOverIsSum

\* The sum over a subset is a value of the solution for the whole set.
LEMMA SumSubset ==
  ASSUME NEW S, IsFiniteSet(S), NEW f, NEW s \in SUBSET S
  PROVE  SumFunctionOnSet(f, s) = SumOver(f, S)[s]
<1>1. IsFiniteSet(s)
  BY FS_Subset
<1>2. IsSum(f, SumOver(f, s), SUBSET s) /\ IsSum(f, SumOver(f, S), SUBSET S)
  BY <1>1, SumOverIsSum
<1>3. s \in SUBSET (S \cap s)
  OBVIOUS
<1>4. SumOver(f, s)[s] = SumOver(f, S)[s]
  BY <1>1, <1>2, <1>3, SumUnique
<1> QED
  BY <1>1, <1>4, SumOverIsSum

-----------------------------------------------------------------------------
(* The facts the other modules cite. *)

\* The empty sum.
LEMMA SumEmpty == ASSUME NEW f PROVE SumFunctionOnSet(f, {}) = 0
<1>1. IsFiniteSet({})
  BY FS_EmptySet
<1>2. SumOver(f, {})[{}] = Step(f, SumOver(f, {}), {})
  BY <1>1, SumOverIsSum DEF IsSum
<1> QED
  BY <1>1, <1>2, SumOverIsSum DEF Step

\* A sum of integers is an integer.
LEMMA SumInt ==
  ASSUME NEW S, IsFiniteSet(S), NEW f, \A x \in S : f[x] \in Int
  PROVE  SumFunctionOnSet(f, S) \in Int
<1> DEFINE g == SumOver(f, S)
           C == {u \in SUBSET S : g[u] \notin Int}
<1>0. IsSum(f, g, SUBSET S) /\ \A u \in SUBSET S : IsFiniteSet(u)
  BY SumOverIsSum, FS_Subset
<1> SUFFICES ASSUME C # {} PROVE FALSE
  BY SumOverIsSum
<1> HIDE DEF g
<1>1. PICK u \in C : \A v \in C : Cardinality(u) <= Cardinality(v)
  BY <1>0, LeastSet
<1>2. g[u] = Step(f, g, u)
  BY <1>0 DEF IsSum
<1>3. u # {}
  BY <1>2 DEF Step
<1>4. Pick(u) \in u
  BY <1>3, PickIn
<1>5. Cardinality(u \ {Pick(u)}) = Cardinality(u) - 1 /\ Cardinality(u) \in Nat
  BY <1>0, <1>4, FS_RemoveElement, FS_CardinalityType
<1>6. g[u \ {Pick(u)}] \in Int
  BY <1>1, <1>5
<1> QED
  BY <1>2, <1>3, <1>4, <1>6 DEF Step

\* A sum of naturals is a natural.
LEMMA SumNat ==
  ASSUME NEW S, IsFiniteSet(S), NEW f, \A x \in S : f[x] \in Nat
  PROVE  SumFunctionOnSet(f, S) \in Nat
<1> DEFINE g == SumOver(f, S)
           C == {u \in SUBSET S : g[u] \notin Nat}
<1>0. IsSum(f, g, SUBSET S) /\ \A u \in SUBSET S : IsFiniteSet(u)
  BY SumOverIsSum, FS_Subset
<1> SUFFICES ASSUME C # {} PROVE FALSE
  BY SumOverIsSum
<1> HIDE DEF g
<1>1. PICK u \in C : \A v \in C : Cardinality(u) <= Cardinality(v)
  BY <1>0, LeastSet
<1>2. g[u] = Step(f, g, u)
  BY <1>0 DEF IsSum
<1>3. u # {}
  BY <1>2 DEF Step
<1>4. Pick(u) \in u
  BY <1>3, PickIn
<1>5. Cardinality(u \ {Pick(u)}) = Cardinality(u) - 1 /\ Cardinality(u) \in Nat
  BY <1>0, <1>4, FS_RemoveElement, FS_CardinalityType
<1>6. g[u \ {Pick(u)}] \in Nat
  BY <1>1, <1>5
<1> QED
  BY <1>2, <1>3, <1>4, <1>6 DEF Step

\* Any element may be taken out of a sum, not only the one the recursion picks.
LEMMA SumRemove ==
  ASSUME NEW S, IsFiniteSet(S), NEW f, \A x \in S : f[x] \in Int, NEW a \in S
  PROVE  SumFunctionOnSet(f, S) = f[a] + SumFunctionOnSet(f, S \ {a})
<1> DEFINE g == SumOver(f, S)
           Bad(u) == \E x \in u : g[u] # f[x] + g[u \ {x}]
           C == {u \in SUBSET S : Bad(u)}
<1>0. IsSum(f, g, SUBSET S) /\ \A u \in SUBSET S : IsFiniteSet(u)
  BY SumOverIsSum, FS_Subset
<1>1. \A u \in SUBSET S : g[u] \in Int
  <2> TAKE u \in SUBSET S
  <2>1. SumFunctionOnSet(f, u) \in Int
    BY <1>0, SumInt
  <2> QED
    BY <2>1, SumSubset
<1>2. SumFunctionOnSet(f, S) = g[S] /\ SumFunctionOnSet(f, S \ {a}) = g[S \ {a}]
  BY SumSubset
<1> HIDE DEF g
<1> SUFFICES ASSUME C # {} PROVE FALSE
  <2>1. S \notin C
    OBVIOUS
  <2> QED
    BY <1>2, <2>1
<1>3. PICK u \in C : \A v \in C : Cardinality(u) <= Cardinality(v)
  <2> HIDE DEF C
  <2>1. \A v \in C : IsFiniteSet(v)
    BY <1>0 DEF C
  <2> QED
    BY <2>1, LeastSet
<1>4. PICK x \in u : g[u] # f[x] + g[u \ {x}]
  BY <1>3
<1> DEFINE y == Pick(u)
<1>5. y \in u /\ g[u] = f[y] + g[u \ {y}]
  BY <1>0, <1>4, PickIn DEF IsSum, Step
<1> HIDE DEF y
<1>6. x # y
  BY <1>4, <1>5
<1>7. \A z \in u : Cardinality(u \ {z}) = Cardinality(u) - 1 /\ Cardinality(u) \in Nat
  BY <1>0, FS_RemoveElement, FS_CardinalityType
<1>8. ~ Bad(u \ {x}) /\ ~ Bad(u \ {y})
  BY <1>3, <1>5, <1>7
<1>9. g[u \ {x}] = f[y] + g[(u \ {x}) \ {y}]
  BY <1>5, <1>6, <1>8
<1>10. g[u \ {y}] = f[x] + g[(u \ {y}) \ {x}]
  BY <1>6, <1>8
<1>11. (u \ {x}) \ {y} = (u \ {y}) \ {x}
  OBVIOUS
<1>12. f[x] \in Int /\ f[y] \in Int /\ g[(u \ {x}) \ {y}] \in Int
  BY <1>1, <1>5
<1>13. g[u] = f[y] + (f[x] + g[(u \ {x}) \ {y}])
  BY <1>5, <1>10, <1>11
<1>14. f[x] + g[u \ {x}] = f[x] + (f[y] + g[(u \ {x}) \ {y}])
  BY <1>9
<1> HIDE DEF C
<1> QED
  BY <1>4, <1>12, <1>13, <1>14

-----------------------------------------------------------------------------
(* Sums of sums. *)

\* Induction over the subsets of a finite set, the predicate given as the set of those
\* that satisfy it.
LEMMA SubsetInduction ==
  ASSUME NEW S, IsFiniteSet(S), NEW G, {} \in G,
         \A u \in SUBSET S : \A x \in u : u \ {x} \in G => u \in G
  PROVE  S \in G
<1> DEFINE C == {u \in SUBSET S : u \notin G}
<1>0. \A u \in SUBSET S : IsFiniteSet(u)
  BY FS_Subset
<1> SUFFICES ASSUME C # {} PROVE FALSE
  OBVIOUS
<1>1. PICK u \in C : \A v \in C : Cardinality(u) <= Cardinality(v)
  BY <1>0, LeastSet
<1>2. PICK x \in u : TRUE
  OBVIOUS
<1>3. Cardinality(u \ {x}) = Cardinality(u) - 1 /\ Cardinality(u) \in Nat
  BY <1>0, FS_RemoveElement, FS_CardinalityType
<1>4. u \ {x} \notin C
  BY <1>1, <1>3
<1> QED
  BY <1>4

\* A finite set of naturals that is not empty has a greatest element.
LEMMA Greatest ==
  ASSUME NEW S, IsFiniteSet(S), S \subseteq Nat, S # {}
  PROVE  \E x \in S : \A y \in S : x >= y
<1> DEFINE G == {u \in SUBSET S : u = {} \/ \E x \in u : \A y \in u : x >= y}
<1>1. {} \in G
  OBVIOUS
<1>2. ASSUME NEW u \in SUBSET S, NEW x \in u, u \ {x} \in G PROVE u \in G
  <2>1. CASE u \ {x} = {}
    <3>1. \A y \in u : x >= y
      BY <2>1
    <3> QED
      BY <3>1
  <2>2. CASE u \ {x} # {}
    <3>1. PICK z \in u \ {x} : \A y \in u \ {x} : z >= y
      BY <1>2, <2>2
    <3>2. CASE x >= z
      <4>1. \A y \in u : x >= y
        BY <3>1, <3>2
      <4> QED
        BY <4>1
    <3>3. CASE z >= x
      <4>1. \A y \in u : z >= y
        BY <3>1, <3>3
      <4> QED
        BY <4>1
    <3> QED
      BY <3>2, <3>3
  <2> QED
    BY <2>1, <2>2
<1>3. S \in G
  <2> HIDE DEF G
  <2> QED
    BY <1>1, <1>2, SubsetInduction
<1> QED
  BY <1>3

\* A sequence has finitely many elements.
LEMMA RangeFinite ==
  ASSUME NEW S, NEW s \in Seq(S)
  PROVE  IsFiniteSet(DOMAIN s) /\ IsFiniteSet(Range(s)) /\ Range(s) \subseteq S
<1>1. DOMAIN s = 1..Len(s) /\ Len(s) \in Nat
  OBVIOUS
<1>2. IsFiniteSet(DOMAIN s)
  BY <1>1, FS_Interval
<1>3. s \in Surjection(DOMAIN s, Range(s))
  BY DEF Surjection, Range
<1> QED
  BY <1>1, <1>2, <1>3, FS_Surjection DEF Range

\* What Append does to the elements of a sequence.
LEMMA AppendRange ==
  ASSUME NEW S, NEW s \in Seq(S), NEW x \in S
  PROVE  /\ Append(s, x) \in Seq(S) /\ Range(Append(s, x)) = Range(s) \cup {x}
         /\ x \notin Range(s) /\ IsInjective(s) => IsInjective(Append(s, x))
<1>1. /\ DOMAIN Append(s, x) = 1..(Len(s) + 1) /\ DOMAIN s = 1..Len(s) /\ Len(s) \in Nat
      /\ Append(s, x) \in Seq(S)
      /\ \A i \in 1..Len(s) : Append(s, x)[i] = s[i]
      /\ Append(s, x)[Len(s) + 1] = x
  OBVIOUS
<1>2. Range(Append(s, x)) = Range(s) \cup {x}
  BY <1>1 DEF Range
<1>3. ASSUME x \notin Range(s), IsInjective(s) PROVE IsInjective(Append(s, x))
  BY <1>1, <1>3 DEF IsInjective, Range
<1> QED
  BY <1>1, <1>2, <1>3

\* The sum of pointwise sums.
LEMMA SumAdd ==
  ASSUME NEW S, IsFiniteSet(S), NEW f, NEW g, NEW h,
         \A x \in S : f[x] \in Int /\ g[x] \in Int /\ h[x] = f[x] + g[x]
  PROVE  SumFunctionOnSet(h, S) = SumFunctionOnSet(f, S) + SumFunctionOnSet(g, S)
<1> DEFINE G == {u \in SUBSET S :
                 SumFunctionOnSet(h, u) = SumFunctionOnSet(f, u) + SumFunctionOnSet(g, u)}
<1>1. {} \in G
  BY SumEmpty
<1>2. ASSUME NEW u \in SUBSET S, NEW x \in u, u \ {x} \in G PROVE u \in G
  <2>1. IsFiniteSet(u) /\ IsFiniteSet(u \ {x})
    BY FS_Subset
  <2>2. /\ SumFunctionOnSet(f, u) = f[x] + SumFunctionOnSet(f, u \ {x})
        /\ SumFunctionOnSet(g, u) = g[x] + SumFunctionOnSet(g, u \ {x})
        /\ SumFunctionOnSet(h, u) = h[x] + SumFunctionOnSet(h, u \ {x})
    BY <2>1, SumRemove
  <2>3. SumFunctionOnSet(f, u \ {x}) \in Int /\ SumFunctionOnSet(g, u \ {x}) \in Int
    BY <2>1, SumInt
  <2> QED
    BY <1>2, <2>2, <2>3
<1> HIDE DEF G
<1>3. S \in G
  BY <1>1, <1>2, SubsetInduction
<1> QED
  BY <1>3 DEF G

\* A sum of larger summands is larger.
LEMMA SumMono ==
  ASSUME NEW S, IsFiniteSet(S), NEW f, NEW g,
         \A x \in S : f[x] \in Int /\ g[x] \in Int /\ f[x] <= g[x]
  PROVE  SumFunctionOnSet(f, S) <= SumFunctionOnSet(g, S)
<1> DEFINE d == [x \in S |-> g[x] - f[x]]
<1>1. \A x \in S : d[x] \in Nat /\ g[x] = f[x] + d[x]
  OBVIOUS
<1>2. SumFunctionOnSet(g, S) = SumFunctionOnSet(f, S) + SumFunctionOnSet(d, S)
  BY <1>1, SumAdd
<1>3. SumFunctionOnSet(d, S) \in Nat /\ SumFunctionOnSet(f, S) \in Int
  BY <1>1, SumNat, SumInt
<1> QED
  BY <1>2, <1>3

\* A sum taken fibre by fibre of a map m from T to A.
LEMMA SumFibers ==
  ASSUME NEW T, IsFiniteSet(T), NEW A, IsFiniteSet(A), NEW f, \A t \in T : f[t] \in Int,
         NEW m, \A t \in T : m[t] \in A
  PROVE  SumFunctionOnSet([a \in A |-> SumFunctionOnSet(f, {t \in T : m[t] = a})], A)
         = SumFunctionOnSet(f, T)
<1> DEFINE Fib(u, a) == {t \in u : m[t] = a}
           S(u) == [a \in A |-> SumFunctionOnSet(f, Fib(u, a))]
           G == {u \in SUBSET T : SumFunctionOnSet(S(u), A) = SumFunctionOnSet(f, u)}
<1>1. {} \in G
  <2>1. \A a \in A : S({})[a] = 0
    BY SumEmpty
  <2>2. SumFunctionOnSet(S({}), A) = SumFunctionOnSet(S({}), A) + SumFunctionOnSet(S({}), A)
    BY <2>1, SumAdd
  <2>3. SumFunctionOnSet(S({}), A) \in Int
    BY <2>1, SumInt
  <2>4. SumFunctionOnSet(f, {}) = 0
    BY SumEmpty
  <2> DEFINE z == SumFunctionOnSet(S({}), A)
  <2>5. z = z + z /\ z \in Int
    BY <2>2, <2>3
  <2> HIDE DEF z
  <2>6. z = 0
    BY <2>5
  <2>7. SumFunctionOnSet(S({}), A) = SumFunctionOnSet(f, {})
    BY <2>4, <2>6 DEF z
  <2> HIDE DEF S
  <2> QED
    BY <2>7
<1>2. ASSUME NEW u \in SUBSET T, NEW x \in u, u \ {x} \in G PROVE u \in G
  <2> DEFINE v == u \ {x}
             a0 == m[x]
  <2>1. IsFiniteSet(u) /\ IsFiniteSet(v) /\ a0 \in A
    BY FS_Subset
  <2>2. \A w \in SUBSET T : \A a \in A : IsFiniteSet(Fib(w, a)) /\ S(w)[a] \in Int
    <3> TAKE w \in SUBSET T
    <3> TAKE a \in A
    <3>1. IsFiniteSet(Fib(w, a)) /\ \A t \in Fib(w, a) : f[t] \in Int
      BY FS_Subset
    <3> QED
      BY <3>1, SumInt
  <2>3. Fib(u, a0) \ {x} = Fib(v, a0) /\ x \in Fib(u, a0) /\ \A t \in Fib(u, a0) : f[t] \in Int
    OBVIOUS
  <2>4. SumFunctionOnSet(f, Fib(u, a0)) = f[x] + SumFunctionOnSet(f, Fib(v, a0))
    <3> HIDE DEF Fib, a0, v
    <3>1. IsFiniteSet(Fib(u, a0))
      BY <2>1, <2>2
    <3> QED
      BY <2>3, <3>1, SumRemove
  <2>5. \A a \in A \ {a0} : Fib(u, a) = Fib(v, a)
    OBVIOUS
  <2>6. S(u)[a0] = f[x] + S(v)[a0] /\ \A a \in A \ {a0} : S(u)[a] = S(v)[a]
    BY <2>1, <2>4, <2>5
  <2>7. (\A a \in A : S(u)[a] \in Int) /\ (\A a \in A : S(v)[a] \in Int)
    BY <2>2
  <2>8. SumFunctionOnSet(f, u) = f[x] + SumFunctionOnSet(f, v)
    BY <2>1, SumRemove
  <2>9. SumFunctionOnSet(S(v), A) = SumFunctionOnSet(f, v)
    BY <1>2
  <2> HIDE DEF S, v, a0
  <2>10. SumFunctionOnSet(S(u), A) = S(u)[a0] + SumFunctionOnSet(S(u), A \ {a0})
    BY <2>1, <2>7, SumRemove
  <2>11. SumFunctionOnSet(S(v), A) = S(v)[a0] + SumFunctionOnSet(S(v), A \ {a0})
    BY <2>1, <2>7, SumRemove
  <2>12. IsFiniteSet(A \ {a0})
    BY FS_Subset
  <2>13. SumFunctionOnSet(S(u), A \ {a0}) = SumFunctionOnSet(S(v), A \ {a0})
    BY <2>6, <2>12, SumCong
  <2>14. SumFunctionOnSet(S(v), A \ {a0}) \in Int /\ f[x] \in Int /\ S(v)[a0] \in Int
    BY <2>1, <2>7, <2>12, SumInt
  <2>15. SumFunctionOnSet(S(u), A) = SumFunctionOnSet(f, u)
    BY <2>6, <2>8, <2>9, <2>10, <2>11, <2>13, <2>14
  <2> QED
    BY <2>15
<1> HIDE DEF G
<1>3. T \in G
  BY <1>1, <1>2, SubsetInduction
<1> QED
  BY <1>3 DEF G

\* The sum of a sequence of integers with one more at its end.
LEMMA SumLast ==
  ASSUME NEW L \in Nat, NEW f \in [1 .. L -> Int], NEW g \in [1 .. L + 1 -> Int],
         \A k \in 1 .. L : g[k] = f[k]
  PROVE  SumFunction(g) = SumFunction(f) + g[L + 1]
<1>1. DOMAIN f = 1 .. L /\ DOMAIN g = 1 .. L + 1 /\ (1 .. L + 1) \ {L + 1} = 1 .. L
  OBVIOUS
<1>2. IsFiniteSet(1 .. L) /\ IsFiniteSet(1 .. L + 1)
  BY FS_Interval
<1>3. L + 1 \in 1 .. L + 1 /\ (\A k \in 1 .. L + 1 : g[k] \in Int) /\ (\A k \in 1 .. L : f[k] \in Int)
  OBVIOUS
<1>4. SumFunctionOnSet(g, 1 .. L + 1) = g[L + 1] + SumFunctionOnSet(g, (1 .. L + 1) \ {L + 1})
  BY <1>2, <1>3, SumRemove
<1>5. SumFunctionOnSet(g, 1 .. L) = SumFunctionOnSet(f, 1 .. L)
  BY <1>2, SumCong
<1>6. SumFunctionOnSet(f, 1 .. L) \in Int /\ g[L + 1] \in Int
  BY <1>2, <1>3, SumInt
<1>7. SumFunction(g) = SumFunctionOnSet(g, 1 .. L + 1) /\ SumFunction(f) = SumFunctionOnSet(f, 1 .. L)
  BY <1>1 DEF SumFunction
<1>8. SumFunctionOnSet(g, 1 .. L + 1) = g[L + 1] + SumFunctionOnSet(f, 1 .. L)
  BY <1>1, <1>4, <1>5, Zenon
<1> QED
  BY <1>6, <1>7, <1>8

\* A sum of zeros.
LEMMA SumZero ==
  ASSUME NEW S, IsFiniteSet(S), NEW f, \A x \in S : f[x] = 0
  PROVE  SumFunctionOnSet(f, S) = 0
<1> DEFINE z == SumFunctionOnSet(f, S)
<1>1. z = z + z /\ z \in Int
  BY SumAdd, SumInt
<1> HIDE DEF z
<1>2. z = 0
  BY <1>1
<1> QED
  BY <1>2 DEF z

\* A double sum may be taken in either order.
LEMMA SumSwap ==
  ASSUME NEW A, IsFiniteSet(A), NEW K, IsFiniteSet(K), NEW f,
         \A a \in A : \A k \in K : f[a][k] \in Int
  PROVE  SumFunctionOnSet([a \in A |-> SumFunctionOnSet(f[a], K)], A)
         = SumFunctionOnSet([k \in K |-> SumFunctionOnSet([a \in A |-> f[a][k]], A)], K)
<1> DEFINE Row(u) == [a \in A |-> SumFunctionOnSet(f[a], u)]
           Col == [k \in K |-> SumFunctionOnSet([a \in A |-> f[a][k]], A)]
           G == {u \in SUBSET K : SumFunctionOnSet(Row(u), A) = SumFunctionOnSet(Col, u)}
<1>0. \A k \in K : Col[k] \in Int
  <2> TAKE k \in K
  <2>1. \A a \in A : [b \in A |-> f[b][k]][a] \in Int
    OBVIOUS
  <2> QED
    BY <2>1, SumInt
<1>1. {} \in G
  <2>1. \A a \in A : Row({})[a] = 0
    BY SumEmpty
  <2> HIDE DEF Row
  <2>2. SumFunctionOnSet(Row({}), A) = 0
    BY <2>1, SumZero
  <2>3. SumFunctionOnSet(Col, {}) = 0
    BY SumEmpty
  <2> QED
    BY <2>2, <2>3
<1>2. ASSUME NEW u \in SUBSET K, NEW x \in u, u \ {x} \in G PROVE u \in G
  <2> DEFINE v == u \ {x}
             col == [a \in A |-> f[a][x]]
  <2>1. IsFiniteSet(u) /\ IsFiniteSet(v)
    BY FS_Subset
  <2>2. ASSUME NEW a \in A
        PROVE  col[a] \in Int /\ Row(v)[a] \in Int /\ Row(u)[a] = col[a] + Row(v)[a]
    <3>1. \A k \in u : f[a][k] \in Int
      OBVIOUS
    <3>2. SumFunctionOnSet(f[a], u) = f[a][x] + SumFunctionOnSet(f[a], v)
      BY <2>1, <3>1, SumRemove
    <3>3. SumFunctionOnSet(f[a], v) \in Int
      BY <2>1, <3>1, SumInt
    <3> QED
      BY <3>1, <3>2, <3>3
  <2>3. Col[x] = SumFunctionOnSet(col, A)
    OBVIOUS
  <2>4. SumFunctionOnSet(Row(v), A) = SumFunctionOnSet(Col, v)
    BY <1>2
  <2> HIDE DEF Row, Col, v, col
  <2>5. SumFunctionOnSet(Row(u), A) = SumFunctionOnSet(col, A) + SumFunctionOnSet(Row(v), A)
    BY <2>2, SumAdd
  <2>6. SumFunctionOnSet(Col, u) = Col[x] + SumFunctionOnSet(Col, v)
    BY <1>0, <2>1, SumRemove DEF v
  <2>7. SumFunctionOnSet(Row(u), A) = SumFunctionOnSet(Col, u)
    BY <2>3, <2>4, <2>5, <2>6
  <2> QED
    BY <2>7
<1> HIDE DEF G
<1>3. K \in G
  BY <1>1, <1>2, SubsetInduction
<1> QED
  BY <1>3 DEF G

\* A sum over a part is the sum over the whole with zeros outside the part.
LEMMA SumPart ==
  ASSUME NEW S, IsFiniteSet(S), NEW D, D \subseteq S, NEW f, \A x \in D : f[x] \in Int
  PROVE  SumFunctionOnSet(f, D) = SumFunctionOnSet([x \in S |-> IF x \in D THEN f[x] ELSE 0], S)
<1> DEFINE g == [x \in S |-> IF x \in D THEN f[x] ELSE 0]
           G == {u \in SUBSET S : SumFunctionOnSet(f, u \cap D) = SumFunctionOnSet(g, u)}
<1>0. \A x \in S : g[x] \in Int /\ (x \in D => g[x] = f[x]) /\ (x \notin D => g[x] = 0)
  OBVIOUS
<1> HIDE DEF g
<1>1. {} \in G
  <2>1. {} \cap D = {}
    OBVIOUS
  <2> QED
    BY <2>1, SumEmpty
<1>2. ASSUME NEW u \in SUBSET S, NEW x \in u, u \ {x} \in G PROVE u \in G
  <2>1. IsFiniteSet(u) /\ IsFiniteSet(u \cap D) /\ IsFiniteSet(u \ {x})
    BY FS_Subset
  <2>2. SumFunctionOnSet(g, u) = g[x] + SumFunctionOnSet(g, u \ {x})
    BY <1>0, <2>1, SumRemove
  <2>3. SumFunctionOnSet(f, (u \ {x}) \cap D) = SumFunctionOnSet(g, u \ {x})
    BY <1>2
  <2>4. SumFunctionOnSet(g, u \ {x}) \in Int
    BY <1>0, <2>1, SumInt
  <2>5. CASE x \in D
    <3>1. SumFunctionOnSet(f, u \cap D) = f[x] + SumFunctionOnSet(f, (u \cap D) \ {x})
      BY <2>1, <2>5, SumRemove
    <3>2. (u \cap D) \ {x} = (u \ {x}) \cap D
      OBVIOUS
    <3>3. SumFunctionOnSet(f, u \cap D) = SumFunctionOnSet(g, u)
      BY <1>0, <2>2, <2>3, <2>5, <3>1, <3>2
    <3> QED
      BY <3>3
  <2>6. CASE x \notin D
    <3>1. (u \ {x}) \cap D = u \cap D
      BY <2>6
    <3>2. g[x] = 0
      BY <1>0, <2>6
    <3>3. SumFunctionOnSet(f, u \cap D) = SumFunctionOnSet(g, u \ {x})
      BY <2>3, <3>1, Zenon
    <3>4. SumFunctionOnSet(f, u \cap D) = SumFunctionOnSet(g, u)
      BY <2>2, <2>4, <3>2, <3>3
    <3> QED
      BY <3>4
  <2> QED
    BY <2>5, <2>6
<1> HIDE DEF G
<1>3. S \in G
  BY <1>1, <1>2, SubsetInduction
<1>4. S \cap D = D
  OBVIOUS
<1> QED
  BY <1>3, <1>4 DEF G, g

\* One summand changes.
LEMMA SumUpdate ==
  ASSUME NEW S, IsFiniteSet(S), NEW f, NEW g, NEW a \in S,
         \A x \in S : f[x] \in Int /\ g[x] \in Int,
         \A x \in S \ {a} : g[x] = f[x]
  PROVE  SumFunctionOnSet(g, S) = SumFunctionOnSet(f, S) - f[a] + g[a]
<1>1. IsFiniteSet(S \ {a})
  BY FS_Subset
<1>2. SumFunctionOnSet(f, S) = f[a] + SumFunctionOnSet(f, S \ {a})
  BY SumRemove
<1>3. SumFunctionOnSet(g, S) = g[a] + SumFunctionOnSet(g, S \ {a})
  BY SumRemove
<1>4. SumFunctionOnSet(g, S \ {a}) = SumFunctionOnSet(f, S \ {a})
  BY <1>1, SumCong
<1>5. SumFunctionOnSet(f, S \ {a}) \in Int
  BY <1>1, SumInt
<1> QED
  BY <1>2, <1>3, <1>4, <1>5
=============================================================================
