----------------------------- MODULE SumProofs -----------------------------
(*****************************************************************************)
(* Sums over finite sets.  Sum(f, S) adds the values of the function f over  *)
(* S; its lemmas are stated once, and MapThenSumSet of the community modules *)
(* is shown to be that sum.  Induction is over a set of subsets, never over  *)
(* a predicate.                                                              *)
(*****************************************************************************)
EXTENDS Integers, FiniteSets, FiniteSetsExt, FiniteSetTheorems, WellFoundedInduction, TLAPS

\* g is the sum of f over each subset of S, whatever the order it is taken in.
Sums(g, f, S) ==
  /\ g \in [SUBSET S -> Int]
  /\ g[{}] = 0
  /\ \A T \in SUBSET S : \A x \in T : g[T] = f[x] + g[T \ {x}]

\* h adds one value at each step.
Steps(h, f, S) ==
  /\ h[{}] = 0
  /\ \A T \in SUBSET S : T # {} => \E x \in T : h[T] = f[x] + h[T \ {x}]

Sum(f, S) == (CHOOSE g : Sums(g, f, S))[S]

----------------------------------------------------------------------------
(* Sums exist, and there is one of each *)

\* A family of subsets of a finite set has a smallest member.
LEMMA SmallestSubset ==
  ASSUME NEW S, IsFiniteSet(S), NEW B, B \subseteq SUBSET S, B # {}
  PROVE  \E T \in B : \A x \in T : T \ {x} \notin B
<1>1. B \subseteq FiniteSubsetsOf(S)
  BY FS_FiniteSubsetsOfFinite
<1>2. IsWellFoundedOn(StrictSubsetOrdering(S), FiniteSubsetsOf(S))
  BY FS_StrictSubsetOrderingWellFounded
<1>3. PICK T \in B : \A U \in B : ~ (<<U, T>> \in StrictSubsetOrdering(S))
  BY <1>1, <1>2, WFMin
<1>4. \A x \in T : <<T \ {x}, T>> \in StrictSubsetOrdering(S)
  BY <1>3 DEF StrictSubsetOrdering
<1> QED  BY <1>3, <1>4

\* Induction on the subsets of a finite set.
LEMMA SubsetInduction ==
  ASSUME NEW S, IsFiniteSet(S), NEW G, {} \in G,
         \A T \in SUBSET S : \A x \in T : T \ {x} \in G => T \in G
  PROVE  S \in G
<1> DEFINE B == (SUBSET S) \ G
<1>1. SUFFICES ASSUME S \notin G PROVE FALSE
  OBVIOUS
<1>2. B \subseteq SUBSET S /\ S \in B
  BY <1>1
<1> HIDE DEF B
<1>3. PICK T \in B : \A x \in T : T \ {x} \notin B
  BY <1>2, SmallestSubset
<1>4. T \in SUBSET S /\ T \notin G /\ T # {}
  BY <1>3 DEF B
<1>5. PICK x : x \in T
  BY <1>4
<1>6. T \ {x} \in G
  BY <1>3, <1>4, <1>5 DEF B
<1> QED  BY <1>4, <1>5, <1>6

LEMMA SumsExist ==
  ASSUME NEW S, IsFiniteSet(S), NEW f, \A x \in S : f[x] \in Int
  PROVE  \E g : Sums(g, f, S)
<1> DEFINE G == {T \in SUBSET S : \E g : Sums(g, f, T)}
<1>1. {} \in G
  <2>1. Sums([T \in SUBSET {} |-> 0], f, {})
    BY DEF Sums
  <2> QED  BY <2>1
<1>2. ASSUME NEW T \in SUBSET S, NEW x \in T, T \ {x} \in G
      PROVE  T \in G
  <2>1. PICK h : Sums(h, f, T \ {x})
    BY <1>2
  <2> DEFINE g == [U \in SUBSET T |-> IF x \in U THEN f[x] + h[U \ {x}] ELSE h[U]]
  <2>2. \A U \in SUBSET T : U \ {x} \in SUBSET (T \ {x}) /\ (x \notin U => U \in SUBSET (T \ {x}))
    OBVIOUS
  <2>3. f[x] \in Int
    OBVIOUS
  <2>4. g \in [SUBSET T -> Int]
    <3>1. \A U \in SUBSET (T \ {x}) : h[U] \in Int
      BY <2>1 DEF Sums
    <3> QED  BY <2>2, <2>3, <3>1
  <2>5. g[{}] = 0
    BY <2>1 DEF Sums
  <2>6. ASSUME NEW U \in SUBSET T, NEW y \in U
        PROVE  g[U] = f[y] + g[U \ {y}]
    <3>1. U \ {y} \in SUBSET T /\ g[U \ {y}] = IF x \in U \ {y} THEN f[x] + h[(U \ {y}) \ {x}] ELSE h[U \ {y}]
      OBVIOUS
    <3>2. g[U] = IF x \in U THEN f[x] + h[U \ {x}] ELSE h[U]
      OBVIOUS
    <3> HIDE DEF g
    <3>3. CASE y = x
      BY <3>1, <3>2, <3>3
    <3>4. CASE y # x /\ x \notin U
      <4>1. U \in SUBSET (T \ {x})
        BY <3>4
      <4>2. h[U] = f[y] + h[U \ {y}]
        BY <2>1, <4>1 DEF Sums
      <4> QED  BY <3>1, <3>2, <3>4, <4>2
    <3>5. CASE y # x /\ x \in U
      <4>1. U \ {x} \in SUBSET (T \ {x}) /\ y \in U \ {x} /\ (U \ {x}) \ {y} = (U \ {y}) \ {x}
        BY <3>5
      <4>2. h[U \ {x}] = f[y] + h[(U \ {y}) \ {x}]
        <5>1. h[U \ {x}] = f[y] + h[(U \ {x}) \ {y}]
          BY <2>1, <4>1 DEF Sums
        <5> QED  BY <4>1, <5>1
      <4>3. (U \ {y}) \ {x} \in SUBSET (T \ {x})
        OBVIOUS
      <4>4. h[(U \ {y}) \ {x}] \in Int /\ f[y] \in Int
        BY <2>1, <4>3 DEF Sums
      <4>5. g[U] = f[x] + h[U \ {x}] /\ g[U \ {y}] = f[x] + h[(U \ {y}) \ {x}]
        BY <3>1, <3>2, <3>5
      <4> QED  BY <2>3, <4>2, <4>4, <4>5
    <3> QED  BY <3>3, <3>4, <3>5
  <2> HIDE DEF g
  <2>7. Sums(g, f, T)
    BY <2>4, <2>5, <2>6 DEF Sums
  <2> QED  BY <2>7
<1> HIDE DEF G
<1>3. S \in G
  BY <1>1, <1>2, SubsetInduction
<1> QED  BY <1>3 DEF G

\* What adds one value at each step is the sum, whatever the order it takes.
LEMMA SumsAgree ==
  ASSUME NEW S, IsFiniteSet(S), NEW f, NEW g, Sums(g, f, S), NEW h, Steps(h, f, S)
  PROVE  h[S] = g[S]
<1> DEFINE G == {T \in SUBSET S : h[T] = g[T]}
<1>1. {} \in G
  BY DEF Sums, Steps
<1> DEFINE B == (SUBSET S) \ G
<1>2. SUFFICES ASSUME h[S] # g[S] PROVE FALSE
  OBVIOUS
<1>3. B \subseteq SUBSET S /\ S \in B
  BY <1>2
<1> HIDE DEF B
<1>4. PICK T \in B : \A x \in T : T \ {x} \notin B
  BY <1>3, SmallestSubset
<1>5. T \in SUBSET S /\ h[T] # g[T] /\ T # {}
  BY <1>1, <1>4 DEF B
<1>6. PICK x \in T : h[T] = f[x] + h[T \ {x}]
  BY <1>5 DEF Steps
<1>7. h[T \ {x}] = g[T \ {x}]
  BY <1>4, <1>5, <1>6 DEF B
<1>8. g[T] = f[x] + g[T \ {x}]
  BY <1>5, <1>6 DEF Sums
<1> QED  BY <1>5, <1>6, <1>7, <1>8

\* A sum over a part of the set.
LEMMA SumsPart ==
  ASSUME NEW S, NEW f, NEW g, Sums(g, f, S), NEW T \in SUBSET S
  PROVE  Sums([U \in SUBSET T |-> g[U]], f, T)
BY DEF Sums

LEMMA SumIs ==
  ASSUME NEW S, IsFiniteSet(S), NEW f, NEW g, Sums(g, f, S), NEW T \in SUBSET S
  PROVE  Sum(f, T) = g[T]
<1> DEFINE p == [U \in SUBSET T |-> g[U]]
           q == CHOOSE h : Sums(h, f, T)
<1>1. Sums(p, f, T)
  BY SumsPart
<1>2. Sums(q, f, T)
  BY <1>1
<1>3. IsFiniteSet(T) /\ p[T] = g[T]
  BY FS_Subset
<1> HIDE DEF p, q
<1>4. Steps(q, f, T)
  BY <1>2 DEF Sums, Steps
<1>5. q[T] = p[T]
  BY <1>1, <1>3, <1>4, SumsAgree
<1> QED  BY <1>3, <1>5 DEF Sum, q

----------------------------------------------------------------------------
(* What a sum is *)

LEMMA SumEmpty ==
  ASSUME NEW f
  PROVE  Sum(f, {}) = 0
<1>1. Sums([T \in SUBSET {} |-> 0], f, {})
  BY DEF Sums
<1>2. Sums(CHOOSE g : Sums(g, f, {}), f, {})
  BY <1>1
<1> QED  BY <1>2 DEF Sum, Sums

LEMMA SumIn ==
  ASSUME NEW S, IsFiniteSet(S), NEW f, \A x \in S : f[x] \in Int
  PROVE  Sum(f, S) \in Int
<1>1. PICK g : Sums(g, f, S)
  BY SumsExist
<1>2. Sum(f, S) = g[S]
  BY <1>1, SumIs
<1> QED  BY <1>1, <1>2 DEF Sums

\* One element of the sum taken out of it.
LEMMA SumTake ==
  ASSUME NEW S, IsFiniteSet(S), NEW f, \A x \in S : f[x] \in Int, NEW x \in S
  PROVE  Sum(f, S) = f[x] + Sum(f, S \ {x})
<1>1. PICK g : Sums(g, f, S)
  BY SumsExist
<1>2. Sum(f, S) = g[S]
  BY <1>1, SumIs
<1>3. S \ {x} \in SUBSET S
  OBVIOUS
<1>4. Sum(f, S \ {x}) = g[S \ {x}]
  BY <1>1, <1>3, SumIs
<1> QED  BY <1>1, <1>2, <1>4 DEF Sums

\* One element more.
LEMMA SumAdd ==
  ASSUME NEW S, IsFiniteSet(S), NEW x, x \notin S, NEW f, f[x] \in Int, \A y \in S : f[y] \in Int
  PROVE  Sum(f, S \union {x}) = f[x] + Sum(f, S)
<1> DEFINE T == S \union {x}
<1>1. IsFiniteSet(T)
  BY FS_AddElement
<1>2. x \in T /\ T \ {x} = S /\ \A y \in T : f[y] \in Int
  OBVIOUS
<1> HIDE DEF T
<1>3. Sum(f, T) = f[x] + Sum(f, T \ {x})
  BY <1>1, <1>2, SumTake
<1> QED  BY <1>2, <1>3 DEF T

\* A sum depends on the values of its function over the set, and on nothing else.
LEMMA SumAgree ==
  ASSUME NEW S, IsFiniteSet(S), NEW f, NEW e,
         \A x \in S : f[x] \in Int, \A x \in S : e[x] = f[x]
  PROVE  Sum(e, S) = Sum(f, S)
<1>1. PICK g : Sums(g, f, S)
  BY SumsExist
<1>2. Sums(g, e, S)
  BY <1>1 DEF Sums
<1> QED  BY <1>1, <1>2, SumIs

\* Two sets that have no element in common.
LEMMA SumUnion ==
  ASSUME NEW S, IsFiniteSet(S), NEW R, IsFiniteSet(R), S \intersect R = {},
         NEW f, \A x \in S \union R : f[x] \in Int
  PROVE  Sum(f, S \union R) = Sum(f, S) + Sum(f, R)
<1> DEFINE G == {T \in SUBSET R : Sum(f, S \union T) = Sum(f, S) + Sum(f, T)}
<1>1. {} \in G
  <2>1. Sum(f, S) \in Int /\ Sum(f, {}) = 0 /\ S \union {} = S
    BY SumIn, SumEmpty
  <2> QED  BY <2>1
<1>2. ASSUME NEW T \in SUBSET R, NEW x \in T, T \ {x} \in G
      PROVE  T \in G
  <2> DEFINE U == S \union T
  <2>1. IsFiniteSet(T) /\ IsFiniteSet(U) /\ IsFiniteSet(T \ {x})
    BY FS_Subset, FS_Union, FS_RemoveElement
  <2>2. /\ x \in U /\ U \ {x} = S \union (T \ {x})
        /\ \A y \in U : f[y] \in Int
        /\ \A y \in T : f[y] \in Int
    OBVIOUS
  <2> HIDE DEF U
  <2>3. Sum(f, U) = f[x] + Sum(f, U \ {x})
    BY <2>1, <2>2, SumTake
  <2>4. Sum(f, T) = f[x] + Sum(f, T \ {x})
    BY <2>1, <2>2, SumTake
  <2>5. Sum(f, S \union (T \ {x})) = Sum(f, S) + Sum(f, T \ {x})
    BY <1>2
  <2>6. f[x] \in Int /\ Sum(f, S) \in Int /\ Sum(f, T \ {x}) \in Int
    BY <2>1, <2>2, SumIn
  <2>7. Sum(f, U \ {x}) = Sum(f, S) + Sum(f, T \ {x})
    BY <2>2, <2>5
  <2>8. Sum(f, U) = Sum(f, S) + Sum(f, T)
    BY <2>3, <2>4, <2>6, <2>7
  <2> QED  BY <2>8 DEF U
<1> HIDE DEF G
<1>3. R \in G
  BY <1>1, <1>2, SubsetInduction
<1> QED  BY <1>3 DEF G

\* A sum of zeros.
LEMMA SumZero ==
  ASSUME NEW S, IsFiniteSet(S), NEW f, \A x \in S : f[x] = 0
  PROVE  Sum(f, S) = 0
<1> DEFINE h == [T \in SUBSET S |-> 0]
<1>1. Sums(h, f, S)
  <2>1. h \in [SUBSET S -> Int] /\ h[{}] = 0
    OBVIOUS
  <2>2. ASSUME NEW T \in SUBSET S, NEW x \in T
        PROVE  h[T] = f[x] + h[T \ {x}]
    OBVIOUS
  <2> QED  BY <2>1, <2>2 DEF Sums
<1>2. S \in SUBSET S /\ h[S] = 0
  OBVIOUS
<1> HIDE DEF h
<1> QED  BY <1>1, <1>2, SumIs

\* A sum of numbers of which none is negative.
LEMMA SumNat ==
  ASSUME NEW S, IsFiniteSet(S), NEW f, \A x \in S : f[x] \in Nat
  PROVE  Sum(f, S) \in Nat
<1> DEFINE G == {T \in SUBSET S : Sum(f, T) \in Nat}
<1>1. {} \in G
  BY SumEmpty
<1>2. ASSUME NEW T \in SUBSET S, NEW x \in T, T \ {x} \in G
      PROVE  T \in G
  <2>1. IsFiniteSet(T) /\ \A y \in T : f[y] \in Int
    BY FS_Subset
  <2>2. Sum(f, T) = f[x] + Sum(f, T \ {x})
    BY <2>1, SumTake
  <2>3. f[x] \in Nat /\ Sum(f, T \ {x}) \in Nat
    BY <1>2
  <2> QED  BY <2>2, <2>3
<1> HIDE DEF G
<1>3. S \in G
  BY <1>1, <1>2, SubsetInduction
<1> QED  BY <1>3 DEF G

----------------------------------------------------------------------------
(* The fold of the community modules is that sum *)

\* What MapThenSumSet unfolds to, of an operator with the values of f.
FoldEq(h, f, S) ==
  h = [s \in SUBSET S |-> IF s = {} THEN 0
                          ELSE f[CHOOSE x \in s : TRUE] + h[s \ {CHOOSE x \in s : TRUE}]]

LEMMA FoldExists ==
  ASSUME NEW S, IsFiniteSet(S), NEW f, \A x \in S : f[x] \in Int
  PROVE  \E h : FoldEq(h, f, S)
<1>1. PICK g : Sums(g, f, S)
  BY SumsExist
<1>2. \A s \in SUBSET S : s # {} => (CHOOSE x \in s : TRUE) \in s
  OBVIOUS
<1>3. g = [s \in SUBSET S |-> g[s]]
  BY <1>1 DEF Sums
<1>4. \A s \in SUBSET S : g[s] = IF s = {} THEN 0
                            ELSE f[CHOOSE x \in s : TRUE] + g[s \ {CHOOSE x \in s : TRUE}]
  BY <1>1, <1>2 DEF Sums
<1>5. FoldEq(g, f, S)
  BY <1>3, <1>4 DEF FoldEq
<1> QED  BY <1>5

LEMMA FoldIsSum ==
  ASSUME NEW S, IsFiniteSet(S), NEW f, \A x \in S : f[x] \in Int, NEW h, FoldEq(h, f, S)
  PROVE  h[S] = Sum(f, S)
<1>1. PICK g : Sums(g, f, S)
  BY SumsExist
<1>2. \A s \in SUBSET S : s # {} => (CHOOSE x \in s : TRUE) \in s
  OBVIOUS
<1>3. Steps(h, f, S)
  BY <1>2 DEF FoldEq, Steps
<1> QED  BY <1>1, <1>3, SumsAgree, SumIs

\* The sum of one column of a set of entries.
LEMMA SumOfLegs ==
  ASSUME NEW S, IsFiniteSet(S), NEW a, \A e \in S : e.legs[a] \in Int
  PROVE  MapThenSumSet(LAMBDA e : e.legs[a], S) = Sum([e \in S |-> e.legs[a]], S)
<1> DEFINE f == [e \in S |-> e.legs[a]]
           Eq(h) == h = [s \in SUBSET S |->
                           IF s = {} THEN 0
                           ELSE (CHOOSE x \in s : TRUE).legs[a] + h[s \ {CHOOSE x \in s : TRUE}]]
           q == CHOOSE h : Eq(h)
<1>1. \A e \in S : f[e] = e.legs[a]
  OBVIOUS
<1> HIDE DEF f
<1>2. \A s \in SUBSET S : s # {} => (CHOOSE x \in s : TRUE) \in S
  OBVIOUS
<1>3. \A h : Eq(h) <=> FoldEq(h, f, S)
  BY <1>1, <1>2 DEF FoldEq
<1>4. MapThenSumSet(LAMBDA e : e.legs[a], S) = q[S]
  BY DEF MapThenSumSet, MapThenFoldSet
<1> HIDE DEF Eq
<1>5. \E h : Eq(h)
  BY <1>1, <1>3, FoldExists
<1>6. FoldEq(q, f, S)
  BY <1>3, <1>5
<1> HIDE DEF q
<1>7. q[S] = Sum(f, S)
  BY <1>1, <1>6, FoldIsSum
<1> QED  BY <1>4, <1>7 DEF f
=============================================================================
