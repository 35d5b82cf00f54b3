------------------------------- MODULE SetLemmas -------------------------------
(* What Max and Min of FiniteSetsExt and SumFunctionOnSet of Functions return, *)
(* for any finite set.                                                          *)
EXTENDS Integers, FiniteSets, FiniteSetsExt, FiniteSetTheorems, WellFoundedInduction, TLAPS

\* A set that is minimal among those without a greatest element has an element
\* whose removal leaves a greatest one, and the greater of the two is greatest.
LEMMA GreatestExists ==
  ASSUME NEW S \in SUBSET Int, IsFiniteSet(S), S # {}
  PROVE  \E x \in S : \A y \in S : x >= y
<1> DEFINE Unbounded == {T \in FiniteSubsetsOf(Int) : T # {} /\ ~\E x \in T : \A y \in T : x >= y}
           R == StrictSubsetOrdering(Int)
<1>1. SUFFICES ASSUME Unbounded # {} PROVE FALSE
  BY DEF FiniteSubsetsOf
<1>2. IsWellFoundedOn(R, FiniteSubsetsOf(Int))
  BY FS_StrictSubsetOrderingWellFounded
<1>3. PICK T \in Unbounded : \A U \in Unbounded : <<U, T>> \notin R
  <2>1. Unbounded \subseteq FiniteSubsetsOf(Int)
    OBVIOUS
  <2> HIDE DEF Unbounded, R
  <2>2. QED
    BY <1>1, <1>2, <2>1, WFMin
<1>4. PICK x \in T : TRUE
  OBVIOUS
<1>5. T \in SUBSET Int /\ IsFiniteSet(T) /\ x \in Int
  BY DEF FiniteSubsetsOf
<1>6. T \ {x} \in FiniteSubsetsOf(Int) /\ <<T \ {x}, T>> \in R
  BY <1>4, <1>5, FS_RemoveElement DEF FiniteSubsetsOf, StrictSubsetOrdering
<1>7. T \ {x} \notin Unbounded
  BY <1>3, <1>6
<1>8. CASE T \ {x} = {}
  BY <1>3, <1>4, <1>5, <1>8
<1>9. CASE T \ {x} # {}
  <2>1. PICK z \in T \ {x} : \A y \in T \ {x} : z >= y
    BY <1>6, <1>7, <1>9
  <2>2. z \in Int
    BY <1>5
  <2>3. CASE z >= x
    BY <2>1, <2>3, <1>3
  <2>4. CASE x >= z
    <3>1. \A y \in T : x >= y
      BY <1>5, <2>1, <2>2, <2>4
    <3>2. QED
      BY <3>1, <1>3
  <2>5. QED
    BY <2>2, <2>3, <2>4, <1>5
<1>10. QED
  BY <1>8, <1>9

LEMMA LeastExists ==
  ASSUME NEW S \in SUBSET Int, IsFiniteSet(S), S # {}
  PROVE  \E x \in S : \A y \in S : x <= y
<1> DEFINE N == {0 - x : x \in S}
<1>1. N \in SUBSET Int /\ N # {}
  <2>1. \A x \in S : x \in Int /\ 0 - x \in Int
    OBVIOUS
  <2>2. PICK x \in S : TRUE
    OBVIOUS
  <2>3. 0 - x \in N
    BY <2>2
  <2>4. N \subseteq Int
    BY <2>1, Zenon
  <2>5. QED
    BY <2>3, <2>4
<1>2. IsFiniteSet(N)
  <2> DEFINE f == [x \in S |-> 0 - x]
  <2>1. f \in Surjection(S, N)
    BY DEF Surjection
  <2>2. QED
    BY <2>1, FS_Surjection
<1>3. PICK m \in N : \A y \in N : m >= y
  BY <1>1, <1>2, GreatestExists
<1>4. PICK x \in S : m = 0 - x
  OBVIOUS
<1>5. \A y \in S : x <= y
  <2> TAKE y \in S
  <2>1. m >= 0 - y
    BY <1>3
  <2>2. QED
    BY <1>4, <2>1
<1>6. QED
  BY <1>5

LEMMA MaxProperties ==
  ASSUME NEW S \in SUBSET Int, IsFiniteSet(S), S # {}
  PROVE  Max(S) \in S /\ \A y \in S : Max(S) >= y
BY GreatestExists DEF Max

LEMMA MinProperties ==
  ASSUME NEW S \in SUBSET Int, IsFiniteSet(S), S # {}
  PROVE  Min(S) \in S /\ \A y \in S : Min(S) <= y
BY LeastExists DEF Min

LEMMA MaxOfTwo ==
  ASSUME NEW a \in Int, NEW b \in Int
  PROVE  Max({a, b}) = IF a >= b THEN a ELSE b
BY DEF Max

-----------------------------------------------------------------------------
(* What SumFunctionOnSet of Functions returns.                              *)

\* Induction over the subsets of a finite set: what some subset has, some
\* subset has that is minimal.
LEMMA MinimalSubset ==
  ASSUME NEW S, IsFiniteSet(S), NEW T \in SUBSET (SUBSET S), T # {}
  PROVE  \E U \in T : \A V \in T : V \subseteq U => V = U
<1> DEFINE R == StrictSubsetOrdering(S)
<1>1. IsWellFoundedOn(R, FiniteSubsetsOf(S))
  BY FS_StrictSubsetOrderingWellFounded
<1>2. T \subseteq FiniteSubsetsOf(S)
  BY FS_FiniteSubsetsOfFinite
<1>3. PICK U \in T : \A V \in T : <<V, U>> \notin R
  <2> HIDE DEF R
  <2>1. QED
    BY <1>1, <1>2, WFMin
<1>4. ASSUME NEW V \in T, V \subseteq U, V # U PROVE FALSE
  <2>1. <<V, U>> \in R
    BY <1>4 DEF StrictSubsetOrdering
  <2>2. QED
    BY <2>1, <1>3
<1>5. QED
  BY <1>4

\* The element a fold over s takes first.
First(s) == CHOOSE x \in s : TRUE

\* What a table g gives the subset s, and a table of the sums of f over the
\* subsets of S.
Entry(g, f, s) == IF s = {} THEN 0 ELSE f[First(s)] + g[s \ {First(s)}]
Tabulates(g, f, S) == g = [s \in SUBSET S |-> Entry(g, f, s)]

LEMMA SumIsTabulated ==
  ASSUME NEW f, NEW S
  PROVE  SumFunctionOnSet(f, S) = (CHOOSE g : Tabulates(g, f, S))[S]
BY DEF SumFunctionOnSet, FoldFunctionOnSet, MapThenFoldSet, Tabulates, Entry, First

LEMMA FirstIsIn ==
  ASSUME NEW s, s # {}
  PROVE  First(s) \in s
BY DEF First

\* A table that is right for the sets of at most n elements gives one that is
\* right for those of n + 1.
LEMMA TableExists ==
  ASSUME NEW S, IsFiniteSet(S), NEW f, \A x \in S : f[x] \in Int
  PROVE  \E g : Tabulates(g, f, S)
<1> DEFINE N == Cardinality(S)
           Right(g, n) == \A s \in SUBSET S : Cardinality(s) <= n => g[s] = Entry(g, f, s)
           Bad == {n \in 0 .. N : ~\E g \in [SUBSET S -> Int] : Right(g, n)}
<1>1. /\ N \in Nat
      /\ \A s \in SUBSET S : IsFiniteSet(s) /\ Cardinality(s) \in 0 .. N
  BY FS_Subset, FS_CardinalityType
<1>2. \A s \in SUBSET S : Cardinality(s) = 0 <=> s = {}
  BY <1>1, FS_EmptySet
<1>3. ASSUME NEW s \in SUBSET S, s # {}
      PROVE  /\ First(s) \in s /\ s \ {First(s)} \in SUBSET S
             /\ Cardinality(s \ {First(s)}) = Cardinality(s) - 1
  BY <1>1, <1>3, FirstIsIn, FS_RemoveElement
<1>4. ASSUME NEW g \in [SUBSET S -> Int], NEW s \in SUBSET S PROVE Entry(g, f, s) \in Int
  <2>1. CASE s = {}
    BY <2>1 DEF Entry
  <2>2. CASE s # {}
    <3>1. f[First(s)] \in Int /\ g[s \ {First(s)}] \in Int
      BY <1>3, <2>2
    <3>2. QED
      BY <2>2, <3>1 DEF Entry
  <2>3. QED
    BY <2>1, <2>2
<1>5. Bad = {}
  <2>1. SUFFICES ASSUME Bad # {} PROVE FALSE
    OBVIOUS
  <2>2. Bad \subseteq Int /\ IsFiniteSet(Bad)
    <3>1. Bad \in SUBSET (0 .. N) /\ 0 .. N \subseteq Int
      BY <1>1
    <3>2. IsFiniteSet(0 .. N)
      BY <1>1, FS_Interval
    <3> HIDE DEF Bad, N
    <3>3. QED
      BY <3>1, <3>2, FS_Subset
  <2>3. PICK n \in Bad : \A k \in Bad : n <= k
    BY <2>1, <2>2, LeastExists
  <2>4. CASE n = 0
    <3> DEFINE g == [s \in SUBSET S |-> 0]
    <3>1. g \in [SUBSET S -> Int] /\ Right(g, 0)
      BY <1>1, <1>2 DEF Entry
    <3>2. QED
      BY <2>4, <3>1
  <2>5. CASE n # 0
    <3>1. n - 1 \in 0 .. N /\ n \in 0 .. N /\ n - 1 \notin Bad
      <4>1. n \in 0 .. N
        OBVIOUS
      <4> HIDE DEF Bad
      <4>2. QED
        BY <1>1, <2>3, <2>5, <4>1
    <3>2. PICK g \in [SUBSET S -> Int] : Right(g, n - 1)
      BY <3>1
    <3> DEFINE h == [s \in SUBSET S |-> Entry(g, f, s)]
    <3>3. h \in [SUBSET S -> Int]
      BY <1>4
    <3>4. ASSUME NEW s \in SUBSET S, Cardinality(s) <= n PROVE h[s] = Entry(h, f, s)
      <4>1. CASE s = {}
        BY <4>1 DEF Entry
      <4>2. CASE s # {}
        <5> DEFINE r == s \ {First(s)}
        <5>1. r \in SUBSET S /\ Cardinality(r) <= n - 1
          BY <1>1, <1>3, <3>1, <3>4, <4>2
        <5>2. h[r] = g[r]
          BY <3>2, <5>1
        <5>3. h[s] = f[First(s)] + g[r] /\ Entry(h, f, s) = f[First(s)] + h[r]
          BY <4>2 DEF Entry
        <5>4. QED
          BY <5>2, <5>3
      <4>3. QED
        BY <4>1, <4>2
    <3>5. Right(h, n)
      BY <3>4
    <3>6. QED
      BY <3>3, <3>5
  <2>6. QED
    BY <2>4, <2>5
<1>6. PICK g \in [SUBSET S -> Int] : Right(g, N)
  <2>1. N \in 0 .. N
    BY <1>1
  <2>2. QED
    BY <1>5, <2>1
<1>7. \A s \in SUBSET S : g[s] = Entry(g, f, s)
  BY <1>1, <1>6
<1>8. Tabulates(g, f, S)
  BY <1>7 DEF Tabulates
<1>9. QED
  BY <1>8

\* A table of the subsets of S agrees with one of the subsets of a larger set.
LEMMA TablesAgree ==
  ASSUME NEW S, IsFiniteSet(S), NEW A, NEW B, S \subseteq A, S \subseteq B,
         NEW f, NEW e, \A x \in S : f[x] = e[x],
         NEW g, Tabulates(g, f, A), NEW h, Tabulates(h, e, B)
  PROVE  g[S] = h[S]
<1> DEFINE Bad == {s \in SUBSET S : g[s] # h[s]}
<1>1. SUFFICES ASSUME Bad # {} PROVE FALSE
  OBVIOUS
<1>2. PICK s \in Bad : \A r \in Bad : r \subseteq s => r = s
  <2>1. Bad \in SUBSET (SUBSET S)
    OBVIOUS
  <2> HIDE DEF Bad
  <2>2. QED
    BY <1>1, <2>1, MinimalSubset
<1>3. g[s] = Entry(g, f, s) /\ h[s] = Entry(h, e, s)
  <2>1. s \in SUBSET A /\ s \in SUBSET B
    OBVIOUS
  <2>2. QED
    BY <2>1, Zenon DEF Tabulates
<1>4. s # {}
  BY <1>2, <1>3 DEF Entry
<1>5. First(s) \in s
  BY <1>4, FirstIsIn
<1>6. g[s \ {First(s)}] = h[s \ {First(s)}]
  BY <1>2, <1>5
<1>7. f[First(s)] = e[First(s)]
  BY <1>5
<1>8. QED
  BY <1>2, <1>3, <1>4, <1>6, <1>7 DEF Entry

\* The sum over a finite set, entry by entry.
LEMMA SumUnfolds ==
  ASSUME NEW S, IsFiniteSet(S), NEW f, \A x \in S : f[x] \in Int
  PROVE  SumFunctionOnSet(f, S)
           = IF S = {} THEN 0 ELSE f[First(S)] + SumFunctionOnSet(f, S \ {First(S)})
<1> DEFINE g == CHOOSE g : Tabulates(g, f, S)
           R == S \ {First(S)}
           h == CHOOSE h : Tabulates(h, f, R)
<1>1. Tabulates(g, f, S)
  BY TableExists
<1>2. IsFiniteSet(R) /\ R \subseteq S
  BY FS_RemoveElement
<1>3. Tabulates(h, f, R)
  BY <1>2, TableExists
<1>4. SumFunctionOnSet(f, S) = g[S] /\ SumFunctionOnSet(f, R) = h[R]
  BY SumIsTabulated
<1> HIDE DEF g, h
<1>5. g[R] = h[R]
  BY <1>1, <1>2, <1>3, TablesAgree
<1>6. g[S] = Entry(g, f, S)
  BY <1>1, Zenon DEF Tabulates
<1>7. QED
  BY <1>4, <1>5, <1>6 DEF Entry

LEMMA SumAgrees ==
  ASSUME NEW S, IsFiniteSet(S), NEW f, NEW e, \A x \in S : f[x] \in Int /\ f[x] = e[x]
  PROVE  SumFunctionOnSet(f, S) = SumFunctionOnSet(e, S)
<1> DEFINE g == CHOOSE g : Tabulates(g, f, S)
           h == CHOOSE h : Tabulates(h, e, S)
<1>1. Tabulates(g, f, S) /\ Tabulates(h, e, S)
  BY TableExists
<1>2. SumFunctionOnSet(f, S) = g[S] /\ SumFunctionOnSet(e, S) = h[S]
  BY SumIsTabulated
<1> HIDE DEF g, h
<1>3. QED
  BY <1>1, <1>2, TablesAgree

LEMMA SumType ==
  ASSUME NEW S, IsFiniteSet(S), NEW f, \A x \in S : f[x] \in Int
  PROVE  SumFunctionOnSet(f, S) \in Int
<1> DEFINE Bad == {s \in SUBSET S : SumFunctionOnSet(f, s) \notin Int}
<1>1. SUFFICES ASSUME Bad # {} PROVE FALSE
  OBVIOUS
<1>2. PICK s \in Bad : \A r \in Bad : r \subseteq s => r = s
  <2>1. Bad \in SUBSET (SUBSET S)
    OBVIOUS
  <2> HIDE DEF Bad
  <2>2. QED
    BY <1>1, <2>1, MinimalSubset
<1>3. IsFiniteSet(s) /\ s \subseteq S
  BY FS_Subset
<1>4. s # {} /\ SumFunctionOnSet(f, s) = f[First(s)] + SumFunctionOnSet(f, s \ {First(s)})
  <2>1. SumFunctionOnSet(f, s)
          = IF s = {} THEN 0 ELSE f[First(s)] + SumFunctionOnSet(f, s \ {First(s)})
    BY <1>3, SumUnfolds
  <2>2. QED
    BY <2>1
<1>5. First(s) \in s
  BY <1>4, FirstIsIn
<1>6. SumFunctionOnSet(f, s \ {First(s)}) \in Int
  BY <1>2, <1>5
<1>7. QED
  BY <1>2, <1>3, <1>4, <1>5, <1>6

\* The order a sum is taken in does not matter.
LEMMA SumRemoves ==
  ASSUME NEW S, IsFiniteSet(S), NEW f, \A x \in S : f[x] \in Int, NEW x \in S
  PROVE  SumFunctionOnSet(f, S) = f[x] + SumFunctionOnSet(f, S \ {x})
<1> DEFINE Sum(s) == SumFunctionOnSet(f, s)
           Bad == {s \in SUBSET S : \E y \in s : Sum(s) # f[y] + Sum(s \ {y})}
<1>1. SUFFICES ASSUME Bad # {} PROVE FALSE
  OBVIOUS
<1>2. PICK s \in Bad : \A r \in Bad : r \subseteq s => r = s
  <2>1. Bad \in SUBSET (SUBSET S)
    OBVIOUS
  <2> HIDE DEF Bad
  <2>2. QED
    BY <1>1, <2>1, MinimalSubset
<1>3. PICK y \in s : Sum(s) # f[y] + Sum(s \ {y})
  OBVIOUS
<1>4. /\ IsFiniteSet(s) /\ s \subseteq S
      /\ \A r \in SUBSET s : IsFiniteSet(r)
  BY FS_Subset
<1> DEFINE z == First(s)
<1>5. z \in s
  BY <1>3, FirstIsIn
<1>6. Sum(s) = f[z] + Sum(s \ {z})
  BY <1>3, <1>4, SumUnfolds
<1> HIDE DEF z
<1>7. z # y
  BY <1>3, <1>6
<1>8. s \ {z} \notin Bad /\ s \ {y} \notin Bad
  BY <1>2, <1>3, <1>5
<1>9. Sum(s \ {z}) = f[y] + Sum((s \ {z}) \ {y})
  BY <1>3, <1>4, <1>7, <1>8
<1>10. Sum(s \ {y}) = f[z] + Sum((s \ {y}) \ {z})
  BY <1>4, <1>5, <1>7, <1>8
<1>11. (s \ {z}) \ {y} = (s \ {y}) \ {z}
  OBVIOUS
<1>12. f[y] \in Int /\ f[z] \in Int /\ Sum((s \ {y}) \ {z}) \in Int
  BY <1>3, <1>4, <1>5, SumType
<1>13. Sum(s) = f[z] + (f[y] + Sum((s \ {y}) \ {z}))
  BY <1>6, <1>9, <1>11
<1>14. Sum(s) # f[y] + (f[z] + Sum((s \ {y}) \ {z}))
  BY <1>3, <1>10
<1> HIDE DEF Sum
<1>15. QED
  BY <1>12, <1>13, <1>14

LEMMA SumAdds ==
  ASSUME NEW S, IsFiniteSet(S), NEW x, x \notin S,
         NEW f, \A y \in S \cup {x} : f[y] \in Int
  PROVE  SumFunctionOnSet(f, S \cup {x}) = f[x] + SumFunctionOnSet(f, S)
<1>1. IsFiniteSet(S \cup {x}) /\ (S \cup {x}) \ {x} = S
  BY FS_AddElement
<1>2. SumFunctionOnSet(f, S \cup {x}) = f[x] + SumFunctionOnSet(f, (S \cup {x}) \ {x})
  BY <1>1, SumRemoves
<1>3. QED
  BY <1>1, <1>2

LEMMA SumIsNatural ==
  ASSUME NEW S, IsFiniteSet(S), NEW f, \A x \in S : f[x] \in Nat
  PROVE  SumFunctionOnSet(f, S) \in Nat
<1> DEFINE Bad == {s \in SUBSET S : SumFunctionOnSet(f, s) \notin Nat}
<1>1. SUFFICES ASSUME Bad # {} PROVE FALSE
  OBVIOUS
<1>2. PICK s \in Bad : \A r \in Bad : r \subseteq s => r = s
  <2>1. Bad \in SUBSET (SUBSET S)
    OBVIOUS
  <2> HIDE DEF Bad
  <2>2. QED
    BY <1>1, <2>1, MinimalSubset
<1>3. IsFiniteSet(s) /\ s \subseteq S
  BY FS_Subset
<1>4. s # {} /\ SumFunctionOnSet(f, s) = f[First(s)] + SumFunctionOnSet(f, s \ {First(s)})
  <2>1. SumFunctionOnSet(f, s)
          = IF s = {} THEN 0 ELSE f[First(s)] + SumFunctionOnSet(f, s \ {First(s)})
    BY <1>3, SumUnfolds
  <2>2. QED
    BY <2>1
<1>5. First(s) \in s
  BY <1>4, FirstIsIn
<1>6. SumFunctionOnSet(f, s \ {First(s)}) \in Nat
  BY <1>2, <1>5
<1>7. QED
  BY <1>2, <1>3, <1>4, <1>5, <1>6

LEMMA SumOfNone ==
  ASSUME NEW f
  PROVE  SumFunctionOnSet(f, {}) = 0
BY SumUnfolds, FS_EmptySet
=============================================================================
