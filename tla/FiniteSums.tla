----------------------------- MODULE FiniteSums -----------------------------
(***************************************************************************)
(* Facts about sums over finite sets (MapThenSumSet), which the counters   *)
(* of afl-fuzz are compared with: sum_word adds up a map, the test case    *)
(* cache the lengths of its inputs, create_alias_table the weights of the  *)
(* entries.  The terms are given as a function.                            *)
(***************************************************************************)
EXTENDS FiniteSetsExt, FiniteSetTheorems, WellFoundedInduction, TLAPS

\* The sum of w over S.
SumOf(w, S) == MapThenSumSet(LAMBDA x : w[x], S)

Pick(s) == CHOOSE x \in s : TRUE

\* g adds up w over every subset of S of at most n elements.
Adds(g, w, S, n) ==
  LET D == {s \in SUBSET S : Cardinality(s) <= n}
  IN  /\ g \in [D -> Nat]
      /\ \A s \in D : g[s] = IF s = {} THEN 0 ELSE w[Pick(s)] + g[s \ {Pick(s)}]

\* A set of natural numbers that is not empty has a least element.
LEMMA LeastNat ==
  ASSUME NEW T \in SUBSET Nat, T # {}
  PROVE  \E n \in T : \A m \in T : n <= m
<1> DEFINE R == {ss \in Nat \X Nat : ss[1] < ss[2]}
<1>1. IsWellFoundedOn(R, Nat)
  BY NatLessThanWellFounded, Zenon DEF OpToRel
<1>2. PICK n \in T : \A m \in T : ~(<<m, n>> \in R)
  BY <1>1, WFMin, Zenon
<1>3. \A m \in T : ~(m < n)
  BY <1>2
<1> QED
  BY <1>3

\* Min of such a set is its least element.
LEMMA MinNat ==
  ASSUME NEW T \in SUBSET Nat, T # {}
  PROVE  Min(T) \in T /\ \A m \in T : Min(T) <= m
BY LeastNat DEF Min

\* An element below all others is the minimum.
LEMMA MinIs ==
  ASSUME NEW T \in SUBSET Nat, NEW n \in T, \A m \in T : n <= m
  PROVE  Min(T) = n
<1>1. Min(T) \in T /\ \A m \in T : Min(T) <= m
  BY MinNat
<1>2. Min(T) <= n /\ n <= Min(T) /\ Min(T) \in Nat /\ n \in Nat
  BY <1>1
<1> QED
  BY <1>2

\* A set of naturals with an upper bound has a largest element.
LEMMA MaxNat ==
  ASSUME NEW b \in Nat, NEW T \in SUBSET (0..b), T # {}
  PROVE  Max(T) \in T /\ \A m \in T : m <= Max(T)
<1> DEFINE U == {b - m : m \in T}
<1>1. \A m \in T : m \in Nat /\ m <= b
  OBVIOUS
<1>2. \A m \in T : b - m \in Nat
  BY <1>1
<1>3. U \in SUBSET Nat /\ U # {}
  BY <1>2
<1>4. PICK u \in U : \A k \in U : u <= k
  <2> HIDE DEF U
  <2> QED
    BY <1>3, LeastNat
<1>5. PICK n \in T : u = b - n
  OBVIOUS
<1>6. \A m \in T : b - n <= b - m
  BY <1>4, <1>5
<1>7. \A m \in T : n >= m
  BY <1>1, <1>6
<1>8. \A m \in T : Max(T) >= m /\ Max(T) \in T
  BY <1>7 DEF Max
<1> QED
  BY <1>8

\* Subsets of a finite set up to a given size are added up by some function.
LEMMA AddsExists ==
  ASSUME NEW S, IsFiniteSet(S), NEW w, \A x \in S : w[x] \in Nat
  PROVE  \A n \in Nat : \E g : Adds(g, w, S, n)
<1> DEFINE Bad == {n \in Nat : ~ \E g : Adds(g, w, S, n)}
<1> SUFFICES ASSUME Bad # {} PROVE FALSE
  OBVIOUS
<1>1. PICK n \in Bad : \A m \in Bad : n <= m
  BY LeastNat
<1> DEFINE D(k) == {s \in SUBSET S : Cardinality(s) <= k}
<1>2. \A s \in SUBSET S : IsFiniteSet(s) /\ Cardinality(s) \in Nat
  BY FS_Subset, FS_CardinalityType
<1>3. CASE n = 0
  <2>1. D(0) = {{}}
    BY <1>2, FS_EmptySet
  <2>2. Adds([s \in D(0) |-> 0], w, S, 0)
    BY <2>1 DEF Adds
  <2> QED
    BY <1>1, <1>3, <2>2
<1>4. CASE n # 0
  <2>1. n - 1 \in Nat /\ n - 1 \notin Bad
    BY <1>1, <1>4
  <2>2. PICK g : Adds(g, w, S, n - 1)
    BY <2>1
  <2> DEFINE h == [s \in D(n) |-> IF s = {} THEN 0 ELSE w[Pick(s)] + g[s \ {Pick(s)}]]
  <2>3. g \in [D(n - 1) -> Nat]
    BY <2>2 DEF Adds
  <2>4. ASSUME NEW s \in D(n), s # {}
        PROVE  Pick(s) \in s /\ s \ {Pick(s)} \in D(n - 1)
    <3>1. Pick(s) \in s
      BY <2>4 DEF Pick
    <3>2. Cardinality(s \ {Pick(s)}) = Cardinality(s) - 1
      BY <3>1, <1>2, FS_RemoveElement
    <3> QED
      BY <3>1, <3>2, <1>2, <2>1
  <2>5. h \in [D(n) -> Nat]
    BY <2>3, <2>4
  <2>6. ASSUME NEW s \in D(n - 1) PROVE s \in D(n) /\ h[s] = g[s]
    BY <2>2, <2>1, <1>2 DEF Adds
  <2>7. Adds(h, w, S, n)
    BY <2>4, <2>5, <2>6 DEF Adds
  <2> QED
    BY <2>7, <1>1
<1> QED
  BY <1>3, <1>4

\* g adds up w over all subsets of S.
AddsAll(g, w, S) ==
  /\ g \in [SUBSET S -> Nat]
  /\ \A s \in SUBSET S : g[s] = IF s = {} THEN 0 ELSE w[Pick(s)] + g[s \ {Pick(s)}]

\* The recursion that defines the sum has a solution.
LEMMA AddsAllExists ==
  ASSUME NEW S, IsFiniteSet(S), NEW w, \A x \in S : w[x] \in Nat
  PROVE  \E g : AddsAll(g, w, S)
<1>1. Cardinality(S) \in Nat /\ \A s \in SUBSET S : Cardinality(s) <= Cardinality(S)
  BY FS_Subset, FS_CardinalityType
<1>2. PICK g : Adds(g, w, S, Cardinality(S))
  BY <1>1, AddsExists
<1>3. SUBSET S = {s \in SUBSET S : Cardinality(s) <= Cardinality(S)}
  BY <1>1
<1>4. AddsAll(g, w, S)
  BY <1>2, <1>3 DEF Adds, AddsAll
<1> QED
  BY <1>4

\* A property of the subsets of a finite set that fails somewhere fails for a
\* smallest set.
LEMMA SmallestSubset ==
  ASSUME NEW S, IsFiniteSet(S), NEW B \in SUBSET SUBSET S, B # {}
  PROVE  \E s \in B : \A u \in SUBSET s : u # s => u \notin B
<1> DEFINE N == {Cardinality(s) : s \in B}
<1>1. \A s \in SUBSET S : IsFiniteSet(s) /\ Cardinality(s) \in Nat
  BY FS_Subset, FS_CardinalityType
<1>2. PICK n \in N : \A m \in N : n <= m
  <2>1. N \in SUBSET Nat /\ N # {}
    BY <1>1
  <2> HIDE DEF N
  <2> QED
    BY <2>1, LeastNat
<1>3. PICK s \in B : n = Cardinality(s)
  BY <1>2
<1>4. ASSUME NEW u \in SUBSET s, u # s, u \in B PROVE FALSE
  <2>1. IsFiniteSet(s) /\ Cardinality(u) <= Cardinality(s) /\ Cardinality(u) \in Nat
    BY <1>1, FS_Subset
  <2>2. Cardinality(s) # Cardinality(u)
    BY <1>4, <2>1, FS_Subset
  <2> QED
    BY <1>2, <1>3, <1>4, <1>1, <2>1, <2>2
<1> QED
  BY <1>4

\* h solves the recursion that defines the sum.
Solves(h, w, S) ==
  h = [s \in SUBSET S |-> IF s = {} THEN 0 ELSE w[Pick(s)] + h[s \ {Pick(s)}]]

\* All solutions agree, also for weights that agree on S.
LEMMA AddsAllSame ==
  ASSUME NEW S, IsFiniteSet(S), NEW w, NEW u, \A x \in S : w[x] = u[x],
         NEW g, AddsAll(g, w, S), NEW h, Solves(h, u, S)
  PROVE  g = h
<1> DEFINE B == {s \in SUBSET S : g[s] # h[s]}
<1>1. ASSUME B # {} PROVE FALSE
  <2>1. PICK s \in B : \A v \in SUBSET s : v # s => v \notin B
    BY <1>1, SmallestSubset
  <2>2. s # {}
    BY <2>1 DEF AddsAll, Solves
  <2>3. Pick(s) \in s
    BY <2>2 DEF Pick
  <2>4. g[s \ {Pick(s)}] = h[s \ {Pick(s)}]
    BY <2>1, <2>3
  <2>5. g[s] = w[Pick(s)] + g[s \ {Pick(s)}]
    BY <2>2, <2>1 DEF AddsAll
  <2>6. h[s] = u[Pick(s)] + h[s \ {Pick(s)}]
    BY <2>2, <2>1 DEF Solves
  <2> QED
    BY <2>1, <2>3, <2>4, <2>5, <2>6
<1>2. DOMAIN g = SUBSET S /\ g = [s \in SUBSET S |-> g[s]]
  BY DEF AddsAll
<1>3. DOMAIN h = SUBSET S /\ h = [s \in SUBSET S |-> h[s]]
  BY DEF Solves
<1> QED
  BY <1>1, <1>2, <1>3

\* The sum is the value of a solution.
LEMMA SumIs ==
  ASSUME NEW S, IsFiniteSet(S), NEW w, \A x \in S : w[x] \in Nat,
         NEW g, AddsAll(g, w, S)
  PROVE  SumOf(w, S) = g[S]
<1> DEFINE iter == CHOOSE h : Solves(h, w, S)
<1>1. Solves(g, w, S)
  BY DEF AddsAll, Solves
<1>2. Solves(iter, w, S)
  BY <1>1
<1>3. iter = g
  BY <1>2, AddsAllSame
<1>4. SumOf(w, S) = iter[S]
  BY DEF SumOf, MapThenSumSet, MapThenFoldSet, Pick, Solves
<1> QED
  BY <1>3, <1>4

\* In a solution any element may be taken out.
LEMMA AddsAny ==
  ASSUME NEW S, IsFiniteSet(S), NEW w, \A x \in S : w[x] \in Nat,
         NEW g, AddsAll(g, w, S)
  PROVE  \A s \in SUBSET S : \A x \in s : g[s] = w[x] + g[s \ {x}]
<1> DEFINE B == {s \in SUBSET S : ~ \A x \in s : g[s] = w[x] + g[s \ {x}]}
<1> SUFFICES ASSUME B # {} PROVE FALSE
  OBVIOUS
<1>1. PICK s \in B : \A v \in SUBSET s : v # s => v \notin B
  <2>1. B \in SUBSET SUBSET S
    OBVIOUS
  <2> HIDE DEF B
  <2> QED
    BY <2>1, SmallestSubset
<1>2. PICK x \in s : g[s] # w[x] + g[s \ {x}]
  BY <1>1
<1> DEFINE p == Pick(s)
<1>3. p \in s
  BY <1>2 DEF Pick
<1>4. g[s] = w[p] + g[s \ {p}]
  BY <1>1, <1>2 DEF AddsAll
<1>5. x # p
  BY <1>2, <1>4
<1> HIDE DEF p
<1> DEFINE r == (s \ {p}) \ {x}
<1>6. r \in SUBSET S /\ r = (s \ {x}) \ {p}
  BY <1>1
<1>7. g[s \ {p}] = w[x] + g[r]
  BY <1>1, <1>2, <1>3, <1>5
<1>8. g[s \ {x}] = w[p] + g[r]
  <2>1. g[s \ {x}] = w[p] + g[(s \ {x}) \ {p}]
    BY <1>1, <1>2, <1>3, <1>5
  <2> QED
    BY <2>1, <1>6
<1>9. g[r] \in Nat /\ w[x] \in Nat /\ w[p] \in Nat
  BY <1>1, <1>2, <1>3, <1>6 DEF AddsAll
<1> QED
  BY <1>2, <1>4, <1>7, <1>8, <1>9

----------------------------------------------------------------------------
(* What the other modules use                                              *)

\* A sum of natural numbers is one.
LEMMA SumNat ==
  ASSUME NEW S, IsFiniteSet(S), NEW w, \A x \in S : w[x] \in Nat
  PROVE  SumOf(w, S) \in Nat
<1>1. PICK g : AddsAll(g, w, S)
  BY AddsAllExists
<1>2. SumOf(w, S) = g[S]
  BY <1>1, SumIs
<1> QED
  BY <1>1, <1>2 DEF AddsAll

\* Nothing adds up to zero.
LEMMA SumEmpty == \A w : SumOf(w, {}) = 0
<1> TAKE w
<1>1. PICK g : AddsAll(g, w, {})
  BY AddsAllExists, FS_EmptySet
<1>2. SumOf(w, {}) = g[{}]
  BY <1>1, SumIs, FS_EmptySet
<1> QED
  BY <1>1, <1>2 DEF AddsAll

\* Only the weights of the elements count.
LEMMA SumSame ==
  ASSUME NEW S, IsFiniteSet(S), NEW w, NEW u,
         \A x \in S : w[x] \in Nat /\ w[x] = u[x]
  PROVE  SumOf(w, S) = SumOf(u, S)
<1>1. PICK g : AddsAll(g, w, S)
  BY AddsAllExists
<1>2. \A s \in SUBSET S : s # {} => Pick(s) \in s
  BY DEF Pick
<1>3. AddsAll(g, u, S)
  BY <1>1, <1>2 DEF AddsAll
<1> QED
  BY <1>1, <1>3, SumIs

\* Any element may be taken out of a sum.
LEMMA SumRemove ==
  ASSUME NEW S, IsFiniteSet(S), NEW w, \A x \in S : w[x] \in Nat, NEW x \in S
  PROVE  SumOf(w, S) = w[x] + SumOf(w, S \ {x})
<1>1. PICK g : AddsAll(g, w, S)
  BY AddsAllExists
<1> DEFINE R == S \ {x}
<1> DEFINE h == [s \in SUBSET R |-> g[s]]
<1>2. \A s \in SUBSET R : s # {} => Pick(s) \in s
  BY DEF Pick
<1>3. AddsAll(h, w, R)
  BY <1>1, <1>2 DEF AddsAll
<1>4. SumOf(w, R) = h[R]
  BY <1>3, SumIs, FS_RemoveElement
<1>5. SumOf(w, S) = g[S]
  BY <1>1, SumIs
<1>6. g[S] = w[x] + g[R]
  BY <1>1, AddsAny
<1> QED
  BY <1>4, <1>5, <1>6

\* A new element adds its weight.
LEMMA SumAdd ==
  ASSUME NEW S, IsFiniteSet(S), NEW w, NEW x, x \notin S,
         \A y \in S \cup {x} : w[y] \in Nat
  PROVE  SumOf(w, S \cup {x}) = w[x] + SumOf(w, S)
<1>1. IsFiniteSet(S \cup {x})
  BY FS_AddElement
<1>2. (S \cup {x}) \ {x} = S
  OBVIOUS
<1> QED
  BY <1>1, <1>2, SumRemove

\* Sums compare as their terms do.
LEMMA SumLeq ==
  ASSUME NEW S, IsFiniteSet(S), NEW w, NEW u,
         \A x \in S : w[x] \in Nat /\ u[x] \in Nat /\ w[x] <= u[x]
  PROVE  SumOf(w, S) <= SumOf(u, S)
<1> DEFINE B == {s \in SUBSET S : ~(SumOf(w, s) <= SumOf(u, s))}
<1> SUFFICES ASSUME B # {} PROVE FALSE
  OBVIOUS
<1>1. PICK s \in B : \A v \in SUBSET s : v # s => v \notin B
  <2>1. B \in SUBSET SUBSET S
    OBVIOUS
  <2> HIDE DEF B
  <2> QED
    BY <2>1, SmallestSubset
<1>2. s # {}
  <2>1. SumOf(w, {}) = 0 /\ SumOf(u, {}) = 0
    BY SumEmpty
  <2>2. ~(SumOf(w, s) <= SumOf(u, s))
    BY <1>1
  <2> HIDE DEF B
  <2> QED
    BY <2>1, <2>2
<1>3. PICK x \in s : TRUE
  BY <1>2
<1> DEFINE r == s \ {x}
<1>4. SumOf(w, r) <= SumOf(u, r)
  BY <1>1, <1>3
<1>5. IsFiniteSet(s) /\ IsFiniteSet(r) /\ r \subseteq S /\ s \subseteq S
  BY <1>1, FS_Subset
<1>6. SumOf(w, s) = w[x] + SumOf(w, r) /\ SumOf(u, s) = u[x] + SumOf(u, r)
  BY <1>5, SumRemove
<1>7. SumOf(w, r) \in Nat /\ SumOf(u, r) \in Nat
  BY <1>5, SumNat
<1>8. w[x] \in Nat /\ u[x] \in Nat /\ w[x] <= u[x]
  BY <1>1
<1> QED
  BY <1>1, <1>4, <1>6, <1>7, <1>8

\* One smaller term makes the sum smaller.
LEMMA SumLess ==
  ASSUME NEW S, IsFiniteSet(S), NEW w, NEW u,
         \A x \in S : w[x] \in Nat /\ u[x] \in Nat /\ w[x] <= u[x],
         NEW x \in S, w[x] < u[x]
  PROVE  SumOf(w, S) < SumOf(u, S)
<1> DEFINE r == S \ {x}
<1>1. IsFiniteSet(r)
  BY FS_Subset
<1>2. SumOf(w, S) = w[x] + SumOf(w, r) /\ SumOf(u, S) = u[x] + SumOf(u, r)
  BY SumRemove
<1>3. SumOf(w, r) \in Nat /\ SumOf(u, r) \in Nat
  BY <1>1, SumNat
<1>4. SumOf(w, r) <= SumOf(u, r)
  BY <1>1, SumLeq
<1> QED
  BY <1>2, <1>3, <1>4

\* A common factor may be taken out of a sum.
LEMMA SumScaled ==
  ASSUME NEW S, IsFiniteSet(S), NEW w, NEW u, NEW k \in Nat,
         \A x \in S : w[x] \in Nat /\ u[x] = k * w[x]
  PROVE  SumOf(u, S) = k * SumOf(w, S)
<1> DEFINE B == {s \in SUBSET S : SumOf(u, s) # k * SumOf(w, s)}
<1> SUFFICES ASSUME B # {} PROVE FALSE
  OBVIOUS
<1>1. PICK s \in B : \A v \in SUBSET s : v # s => v \notin B
  <2>1. B \in SUBSET SUBSET S
    OBVIOUS
  <2> HIDE DEF B
  <2> QED
    BY <2>1, SmallestSubset
<1>2. s # {}
  <2>1. SumOf(w, {}) = 0 /\ SumOf(u, {}) = 0
    BY SumEmpty
  <2>2. SumOf(u, s) # k * SumOf(w, s)
    BY <1>1
  <2> HIDE DEF B
  <2> QED
    BY <2>1, <2>2
<1>3. PICK x \in s : TRUE
  BY <1>2
<1> DEFINE r == s \ {x}
<1>4. SumOf(u, r) = k * SumOf(w, r)
  BY <1>1, <1>3
<1>5. IsFiniteSet(s) /\ IsFiniteSet(r) /\ r \subseteq S /\ s \subseteq S
  BY <1>1, FS_Subset
<1>6. \A y \in S : w[y] \in Nat /\ u[y] \in Nat
  OBVIOUS
<1>7. SumOf(w, s) = w[x] + SumOf(w, r) /\ SumOf(u, s) = u[x] + SumOf(u, r)
  BY <1>5, <1>6, SumRemove
<1>8. SumOf(w, r) \in Nat
  BY <1>5, <1>6, SumNat
<1>9. w[x] \in Nat /\ u[x] = k * w[x]
  BY <1>1
<1>10. \A a, b \in Nat : k * a + k * b = k * (a + b)
  OBVIOUS
<1> QED
  BY <1>1, <1>4, <1>7, <1>8, <1>9, <1>10

\* The sum of n equal terms.
LEMMA SumConst ==
  ASSUME NEW S, IsFiniteSet(S), NEW b \in Nat, NEW w, \A x \in S : w[x] = b
  PROVE  SumOf(w, S) = b * Cardinality(S)
<1> DEFINE B == {s \in SUBSET S : SumOf(w, s) # b * Cardinality(s)}
<1> SUFFICES ASSUME B # {} PROVE FALSE
  OBVIOUS
<1>1. PICK s \in B : \A v \in SUBSET s : v # s => v \notin B
  <2>1. B \in SUBSET SUBSET S
    OBVIOUS
  <2> HIDE DEF B
  <2> QED
    BY <2>1, SmallestSubset
<1>2. s # {}
  <2>1. SumOf(w, {}) = 0 /\ Cardinality({}) = 0
    BY SumEmpty, FS_EmptySet
  <2>2. SumOf(w, s) # b * Cardinality(s)
    BY <1>1
  <2> HIDE DEF B
  <2> QED
    BY <2>1, <2>2
<1>3. PICK x \in s : TRUE
  BY <1>2
<1> DEFINE r == s \ {x}
<1>4. SumOf(w, r) = b * Cardinality(r)
  BY <1>1, <1>3
<1>5. IsFiniteSet(s) /\ IsFiniteSet(r) /\ r \subseteq S /\ s \subseteq S
  BY <1>1, FS_Subset
<1>6. SumOf(w, s) = b + SumOf(w, r)
  BY <1>5, SumRemove
<1>7. Cardinality(s) \in Nat /\ Cardinality(r) = Cardinality(s) - 1 /\ Cardinality(r) \in Nat
  BY <1>3, <1>5, FS_RemoveElement, FS_CardinalityType
<1>8. \A n \in Nat : b * (n + 1) = b + b * n
  OBVIOUS
<1>9. Cardinality(s) = Cardinality(r) + 1
  BY <1>7
<1> QED
  BY <1>1, <1>4, <1>6, <1>7, <1>8, <1>9
=============================================================================
