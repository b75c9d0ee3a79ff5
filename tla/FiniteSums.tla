----------------------------- MODULE FiniteSums -----------------------------
(***************************************************************************)
(* Sums over a finite set, for proofs about the totals of the accounts.    *)
(*                                                                         *)
(* The library's induction principles take an operator as a parameter.     *)
(* Here induction is stated over sets and derived from the pigeonhole      *)
(* principle: a set that is closed under successor and misses a number     *)
(* would be mapped injectively into itself without 0.                      *)
(***************************************************************************)
EXTENDS FiniteSetsExt, FiniteSetTheorems, TLAPS

\* The element MapThenSumSet takes next.
Chosen(s) == CHOOSE x \in s : TRUE

\* The sum of f over S.
SumOver(f, S) == MapThenSumSet(LAMBDA x : f[x], S)

\* A set that contains 0 and is closed under successor contains every natural.
LEMMA InductionOverNat ==
    ASSUME NEW N, 0 \in N, \A n \in Nat : n \in N => n + 1 \in N
    PROVE  Nat \subseteq N
<1> SUFFICES ASSUME NEW m \in Nat, m \notin N
             PROVE  FALSE
  OBVIOUS
<1> DEFINE T == {k \in 0 .. m : k \in N}
           U == T \ {0}
           f == [k \in T |-> k + 1]
<1>1. IsFiniteSet(0 .. m) /\ T \in SUBSET (0 .. m)
  BY FS_Interval
<1>2. IsFiniteSet(T)
  BY <1>1, FS_Subset
<1>3. 0 \in T
  OBVIOUS
<1>4. IsFiniteSet(U) /\ Cardinality(U) = Cardinality(T) - 1
  BY <1>2, <1>3, FS_RemoveElement
<1>5. Cardinality(T) \in Nat
  BY <1>2, FS_CardinalityType
<1>6. f \in [T -> U]
  <2>1. ASSUME NEW k \in T PROVE k + 1 \in U
    <3>1. k \in Nat /\ k <= m /\ k \in N /\ k # m
      OBVIOUS
    <3> QED
      BY <3>1
  <2> QED
    BY <2>1
<1>7. \E x, y \in T : x # y /\ f[x] = f[y]
  <2> HIDE DEF T, U, f
  <2>1. Cardinality(U) < Cardinality(T)
    BY <1>4, <1>5
  <2> QED
    BY <2>1, <1>2, <1>4, <1>6, FS_PigeonHole
<1> QED
  BY <1>7

\* The equation that defines the fold behind MapThenSumSet.
SumEq(g, f, S) ==
    g = [s \in SUBSET S |-> IF s = {} THEN 0
                            ELSE f[Chosen(s)] + g[s \ {Chosen(s)}]]

\* The subsets of S with at most n elements, and the equation restricted to them.
SmallSubsets(S, n) == {s \in SUBSET S : Cardinality(s) <= n}

SumTo(g, f, S, n) ==
    g = [s \in SmallSubsets(S, n) |->
           IF s = {} THEN 0 ELSE f[Chosen(s)] + g[s \ {Chosen(s)}]]

\* The recursion goes to a smaller subset.
LEMMA Smaller ==
    ASSUME NEW S, IsFiniteSet(S), NEW n \in Nat, NEW s \in SmallSubsets(S, n + 1), s # {}
    PROVE  s \ {Chosen(s)} \in SmallSubsets(S, n)
<1> DEFINE x == Chosen(s)
<1>1. x \in s
  BY DEF Chosen
<1>2. IsFiniteSet(s) /\ Cardinality(s) <= n + 1
  BY FS_Subset DEF SmallSubsets
<1>3. Cardinality(s \ {x}) = Cardinality(s) - 1 /\ Cardinality(s) \in Nat
  <2> HIDE DEF x
  <2> QED
    BY <1>1, <1>2, FS_RemoveElement, FS_CardinalityType
<1> HIDE DEF x
<1>4. s \ {x} \in SUBSET S /\ Cardinality(s \ {x}) <= n
  BY <1>2, <1>3 DEF SmallSubsets
<1> USE DEF x
<1> QED
  BY <1>4 DEF SmallSubsets

\* The equation has a solution on the subsets of every bounded size.
LEMMA SumToExists ==
    ASSUME NEW f, NEW S, IsFiniteSet(S), NEW n \in Nat
    PROVE  \E g : SumTo(g, f, S, n)
<1> DEFINE N == {k \in Nat : \E g : SumTo(g, f, S, k)}
<1>1. 0 \in N
  <2> DEFINE g == [s \in SmallSubsets(S, 0) |-> 0]
  <2>1. \A s \in SmallSubsets(S, 0) : s = {}
    <3> SUFFICES ASSUME NEW s \in SmallSubsets(S, 0) PROVE s = {}
      OBVIOUS
    <3>1. IsFiniteSet(s) /\ Cardinality(s) <= 0
      BY FS_Subset DEF SmallSubsets
    <3> QED
      BY <3>1, FS_EmptySet, FS_CardinalityType
  <2>2. SumTo(g, f, S, 0)
    BY <2>1 DEF SumTo
  <2> QED
    BY <2>2
<1>2. ASSUME NEW k \in Nat, k \in N PROVE k + 1 \in N
  <2> PICK g : SumTo(g, f, S, k)
    BY <1>2
  <2> DEFINE h == [s \in SmallSubsets(S, k + 1) |->
           IF s = {} THEN 0 ELSE f[Chosen(s)] + g[s \ {Chosen(s)}]]
  <2>1. SmallSubsets(S, k) \subseteq SmallSubsets(S, k + 1)
    <3> SUFFICES ASSUME NEW s \in SmallSubsets(S, k) PROVE s \in SmallSubsets(S, k + 1)
      OBVIOUS
    <3>1. Cardinality(s) \in Nat /\ Cardinality(s) <= k
      BY FS_Subset, FS_CardinalityType DEF SmallSubsets
    <3> QED
      BY <3>1 DEF SmallSubsets
  <2>2. \A s \in SmallSubsets(S, k) : h[s] = g[s]
    BY <2>1 DEF SumTo
  <2>3. \A s \in SmallSubsets(S, k + 1) : s # {} =>
           h[s \ {Chosen(s)}] = g[s \ {Chosen(s)}]
    BY <2>2, Smaller
  <2> DEFINE H == [s \in SmallSubsets(S, k + 1) |->
           IF s = {} THEN 0 ELSE f[Chosen(s)] + h[s \ {Chosen(s)}]]
  <2>4. h = H
    <3>1. \A s \in SmallSubsets(S, k + 1) : h[s] = H[s]
      <4> SUFFICES ASSUME NEW s \in SmallSubsets(S, k + 1) PROVE h[s] = H[s]
        OBVIOUS
      <4>1. s # {} => h[s] = f[Chosen(s)] + g[s \ {Chosen(s)}]
        OBVIOUS
      <4>2. s = {} => h[s] = 0
        OBVIOUS
      <4> HIDE DEF h
      <4> QED
        BY <2>3, <4>1, <4>2
    <3>2. h = [s \in SmallSubsets(S, k + 1) |-> h[s]]
      OBVIOUS
    <3>3. H = [s \in SmallSubsets(S, k + 1) |-> H[s]]
      OBVIOUS
    <3> HIDE DEF h, H
    <3> QED
      BY <3>1, <3>2, <3>3
  <2>5. SumTo(h, f, S, k + 1)
    <3> HIDE DEF h
    <3> QED
      BY <2>4 DEF SumTo
  <2> QED
    BY <2>5
<1>3. Nat \subseteq N
  <2> HIDE DEF N
  <2> QED
    BY <1>1, <1>2, InductionOverNat
<1> QED
  BY <1>3

\* The equation has a solution on all subsets of a finite set.
LEMMA SumExists ==
    ASSUME NEW f, NEW S, IsFiniteSet(S)
    PROVE  \E g : SumEq(g, f, S)
<1>1. Cardinality(S) \in Nat
  BY FS_CardinalityType
<1>2. SmallSubsets(S, Cardinality(S)) = SUBSET S
  BY FS_Subset DEF SmallSubsets
<1>3. PICK g : SumTo(g, f, S, Cardinality(S))
  BY <1>1, SumToExists
<1> QED
  BY <1>2, <1>3 DEF SumTo, SumEq

\* g sums f over the subsets of S.
Sums(g, f, S) ==
    /\ g[{}] = 0
    /\ \A s \in SUBSET S : s # {} => g[s] = f[Chosen(s)] + g[s \ {Chosen(s)}]

\* MapThenSumSet follows the order in which CHOOSE takes the elements: some
\* function sums every subset of S by its recursion.
LEMMA SumRecursion ==
    ASSUME NEW f, NEW S, IsFiniteSet(S)
    PROVE  \E g : SumOver(f, S) = g[S] /\ Sums(g, f, S)
<1> DEFINE iter == CHOOSE g : SumEq(g, f, S)
           G == [s \in SUBSET S |->
                   IF s = {} THEN 0 ELSE f[Chosen(s)] + iter[s \ {Chosen(s)}]]
<1>1. SumEq(iter, f, S)
  BY SumExists
<1>2. SumOver(f, S) = iter[S]
  BY DEF SumOver, MapThenSumSet, MapThenFoldSet, SumEq, Chosen
<1> HIDE DEF iter
<1>3. iter = G
  BY <1>1 DEF SumEq
<1>4. /\ G[{}] = 0
      /\ \A s \in SUBSET S : s # {} => G[s] = f[Chosen(s)] + iter[s \ {Chosen(s)}]
  OBVIOUS
<1> HIDE DEF G
<1>5. Sums(iter, f, S)
  BY <1>3, <1>4 DEF Sums
<1> QED
  BY <1>2, <1>5

\* Induction over the subsets of a finite set, in the order of the fold.
LEMMA InductionOverSubsets ==
    ASSUME NEW S, IsFiniteSet(S), NEW P, {} \in P,
           \A s \in SUBSET S : s # {} /\ s \ {Chosen(s)} \in P => s \in P
    PROVE  S \in P
<1> DEFINE N == {k \in Nat : SmallSubsets(S, k) \subseteq P}
<1>1. 0 \in N
  <2> SUFFICES ASSUME NEW s \in SmallSubsets(S, 0) PROVE s = {}
    OBVIOUS
  <2>1. IsFiniteSet(s) /\ Cardinality(s) <= 0
    BY FS_Subset DEF SmallSubsets
  <2> QED
    BY <2>1, FS_EmptySet, FS_CardinalityType
<1>2. ASSUME NEW k \in Nat, k \in N PROVE k + 1 \in N
  <2> SUFFICES SmallSubsets(S, k + 1) \subseteq P
    OBVIOUS
  <2> SUFFICES ASSUME NEW s \in SmallSubsets(S, k + 1), s # {} PROVE s \in P
    OBVIOUS
  <2>1. s \in SUBSET S
    BY DEF SmallSubsets
  <2>2. s \ {Chosen(s)} \in P
    BY <1>2, Smaller
  <2> QED
    BY <2>1, <2>2
<1>3. Nat \subseteq N
  <2> HIDE DEF N
  <2> QED
    BY <1>1, <1>2, InductionOverNat
<1>4. Cardinality(S) \in Nat /\ S \in SmallSubsets(S, Cardinality(S))
  BY FS_CardinalityType DEF SmallSubsets
<1> QED
  BY <1>3, <1>4

\* A sum of integers is an integer.
LEMMA SumInt ==
    ASSUME NEW S, IsFiniteSet(S), NEW f \in [S -> Int]
    PROVE  SumOver(f, S) \in Int
<1>g. PICK g : SumOver(f, S) = g[S] /\ Sums(g, f, S)
  BY SumRecursion
<1> DEFINE P == {s \in SUBSET S : g[s] \in Int}
<1>1. {} \in P
  BY <1>g DEF Sums
<1>2. ASSUME NEW s \in SUBSET S, s # {}, s \ {Chosen(s)} \in P
      PROVE  s \in P
  <2> DEFINE x == Chosen(s)
  <2>1. x \in S
    BY <1>2 DEF Chosen
  <2>2. g[s] = f[x] + g[s \ {x}]
    BY <1>2, <1>g DEF Sums
  <2> HIDE DEF x
  <2> QED
    BY <1>2, <2>1, <2>2 DEF x
<1>3. S \in P
  <2> HIDE DEF P
  <2> QED
    BY <1>1, <1>2, InductionOverSubsets
<1> QED
  BY <1>3, <1>g

\* A sum of zeros is zero.
LEMMA SumZero ==
    ASSUME NEW S, IsFiniteSet(S), NEW f \in [S -> Int], \A x \in S : f[x] = 0
    PROVE  SumOver(f, S) = 0
<1>g. PICK g : SumOver(f, S) = g[S] /\ Sums(g, f, S)
  BY SumRecursion
<1> DEFINE P == {s \in SUBSET S : g[s] = 0}
<1>1. {} \in P
  BY <1>g DEF Sums
<1>2. ASSUME NEW s \in SUBSET S, s # {}, s \ {Chosen(s)} \in P
      PROVE  s \in P
  <2> DEFINE x == Chosen(s)
  <2>1. x \in S
    BY <1>2 DEF Chosen
  <2>2. g[s] = f[x] + g[s \ {x}]
    BY <1>2, <1>g DEF Sums
  <2> HIDE DEF x
  <2> QED
    BY <1>2, <2>1, <2>2 DEF x
<1>3. S \in P
  <2> HIDE DEF P
  <2> QED
    BY <1>1, <1>2, InductionOverSubsets
<1> QED
  BY <1>3, <1>g

\* A sum of naturals is at least each of its terms.
LEMMA SumBound ==
    ASSUME NEW S, IsFiniteSet(S), NEW f \in [S -> Int], \A x \in S : f[x] >= 0, NEW r \in S
    PROVE  SumOver(f, S) >= f[r]
<1>g. PICK g : SumOver(f, S) = g[S] /\ Sums(g, f, S)
  BY SumRecursion
<1> DEFINE P == {s \in SUBSET S : /\ g[s] \in Int /\ g[s] >= 0
                                  /\ r \in s => g[s] >= f[r]}
<1>1. {} \in P
  BY <1>g DEF Sums
<1>2. ASSUME NEW s \in SUBSET S, s # {}, s \ {Chosen(s)} \in P
      PROVE  s \in P
  <2> DEFINE x == Chosen(s)
  <2>1. x \in s /\ x \in S
    BY <1>2 DEF Chosen
  <2>2. g[s] = f[x] + g[s \ {x}]
    BY <1>2, <1>g DEF Sums
  <2>3. g[s \ {x}] \in Int /\ g[s \ {x}] >= 0 /\ (r \in s \ {x} => g[s \ {x}] >= f[r])
    BY <1>2
  <2> HIDE DEF x
  <2>4. f[x] \in Int /\ f[x] >= 0 /\ f[r] \in Int
    BY <2>1
  <2>5. r \in s => r = x \/ r \in s \ {x}
    OBVIOUS
  <2> QED
    BY <2>2, <2>3, <2>4, <2>5
<1>3. S \in P
  <2> HIDE DEF P
  <2> QED
    BY <1>1, <1>2, InductionOverSubsets
<1> QED
  BY <1>3, <1>g

\* When one term changes the sum changes by the same amount.
LEMMA SumChange ==
    ASSUME NEW S, IsFiniteSet(S), NEW f \in [S -> Int], NEW h \in [S -> Int],
           NEW r \in S, \A x \in S : x # r => h[x] = f[x]
    PROVE  SumOver(h, S) = SumOver(f, S) + h[r] - f[r]
<1>g. PICK g : SumOver(f, S) = g[S] /\ Sums(g, f, S)
  BY SumRecursion
<1>k. PICK k : SumOver(h, S) = k[S] /\ Sums(k, h, S)
  BY SumRecursion
<1> DEFINE P == {s \in SUBSET S : /\ g[s] \in Int /\ k[s] \in Int
                                  /\ k[s] = g[s] + (IF r \in s THEN h[r] - f[r] ELSE 0)}
<1>1. {} \in P
  BY <1>g, <1>k DEF Sums
<1>2. ASSUME NEW s \in SUBSET S, s # {}, s \ {Chosen(s)} \in P
      PROVE  s \in P
  <2> DEFINE x == Chosen(s)
  <2>1. x \in s /\ x \in S
    BY <1>2 DEF Chosen
  <2>2. /\ g[s] = f[x] + g[s \ {x}]
        /\ k[s] = h[x] + k[s \ {x}]
    BY <1>2, <1>g, <1>k DEF Sums
  <2>3. /\ g[s \ {x}] \in Int /\ k[s \ {x}] \in Int
        /\ k[s \ {x}] = g[s \ {x}] + (IF r \in s \ {x} THEN h[r] - f[r] ELSE 0)
    BY <1>2
  <2> HIDE DEF x
  <2>4. f[x] \in Int /\ h[x] \in Int /\ f[r] \in Int /\ h[r] \in Int
    BY <2>1
  <2>5. CASE x = r
    BY <2>1, <2>2, <2>3, <2>4, <2>5
  <2>6. CASE x # r
    <3>1. r \in s \ {x} <=> r \in s
      BY <2>6
    <3>2. h[x] = f[x]
      BY <2>1, <2>6
    <3> QED
      BY <2>2, <2>3, <2>4, <3>1, <3>2
  <2> QED
    BY <2>5, <2>6
<1>3. S \in P
  <2> HIDE DEF P
  <2> QED
    BY <1>1, <1>2, InductionOverSubsets
<1> QED
  BY <1>3, <1>g, <1>k
=============================================================================
