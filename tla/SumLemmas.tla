----------------------------- MODULE SumLemmas -----------------------------
(***************************************************************************)
(* Sums over finite sets.  The contracts keep running totals; what a total *)
(* should be is SumFunctionOnSet(f, S), the sum of f[x] over the x of S.   *)
(* Its library definition is a recursive function, so what it computes is  *)
(* shown by induction on finite sets.  The library's induction theorem     *)
(* takes a predicate as its parameter; SubsetInduction below takes the set *)
(* of the subsets for which the predicate holds instead, and follows from  *)
(* the proper subset order being well-founded.                             *)
(*                                                                         *)
(* The last section is about numbers that wrap around.                     *)
(***************************************************************************)
EXTENDS Integers, Functions, FiniteSets, FiniteSetTheorems, WellFoundedInduction,
        MachineIntegers, TLAPS

\* Every subset of a finite set is in Good when each subset is whose proper
\* subsets all are.
LEMMA SubsetInduction ==
    ASSUME NEW S, IsFiniteSet(S), NEW Good,
           \A T \in SUBSET S : (\A U \in (SUBSET T) \ {T} : U \in Good) => T \in Good
    PROVE  \A T \in SUBSET S : T \in Good
<1> DEFINE Bad == {T \in SUBSET S : T \notin Good}
<1>1. SUFFICES ASSUME Bad # {} PROVE FALSE
    OBVIOUS
<1>2. Bad \subseteq FiniteSubsetsOf(S)
    BY FS_Subset, Zenon DEF FiniteSubsetsOf
<1>3. PICK T \in Bad : \A U \in Bad : ~ (<<U, T>> \in StrictSubsetOrdering(S))
    <2> HIDE DEF Bad
    <2>1. IsWellFoundedOn(StrictSubsetOrdering(S), FiniteSubsetsOf(S))
        BY FS_StrictSubsetOrderingWellFounded
    <2> QED
        BY <1>1, <1>2, <2>1, WFMin
<1>4. \A U \in (SUBSET T) \ {T} : U \in Good
    BY <1>3 DEF StrictSubsetOrdering
<1> QED
    BY <1>3, <1>4

-----------------------------------------------------------------------------
(* The recursion behind SumFunctionOnSet *)

\* The element that the recursion takes first.
Pick(s) == CHOOSE x \in s : TRUE

\* g satisfies the recursion of the sum of f on every subset of S.
Unfolds(g, f, S) ==
    g = [s \in SUBSET S |-> IF s = {} THEN 0 ELSE f[Pick(s)] + g[s \ {Pick(s)}]]

Iter(f, S) == CHOOSE g : Unfolds(g, f, S)

\* What is picked from a set is in it.
LEMMA PickIn == \A s : s # {} => Pick(s) \in s
BY DEF Pick

\* The library sums S with a function on all subsets of S: Iter(f, S).
LEMMA SumIsIter ==
    ASSUME NEW f, NEW S
    PROVE  SumFunctionOnSet(f, S) = Iter(f, S)[S]
BY Zenon DEF SumFunctionOnSet, FoldFunctionOnSet, MapThenFoldSet, Iter, Unfolds, Pick

\* Two functions that unfold the sum agree wherever both are defined.
LEMMA IterUnique ==
    ASSUME NEW S, IsFiniteSet(S), NEW U \in SUBSET S, NEW f, NEW g, NEW h,
           Unfolds(g, f, S), Unfolds(h, f, U)
    PROVE  \A v \in SUBSET U : g[v] = h[v]
<1> DEFINE Good == {v \in SUBSET U : g[v] = h[v]}
<1>1. IsFiniteSet(U)
    BY FS_Subset
<1>2. ASSUME NEW T \in SUBSET U, \A v \in (SUBSET T) \ {T} : v \in Good
      PROVE  T \in Good
    <2>1. CASE T = {}
        BY <2>1 DEF Unfolds
    <2>2. CASE T # {}
        <3>1. Pick(T) \in T
            BY <2>2, PickIn
        <3>2. T \ {Pick(T)} \in (SUBSET T) \ {T}
            BY <3>1
        <3>3. g[T \ {Pick(T)}] = h[T \ {Pick(T)}]
            BY <1>2, <3>2
        <3>4. /\ g[T] = f[Pick(T)] + g[T \ {Pick(T)}]
              /\ h[T] = f[Pick(T)] + h[T \ {Pick(T)}]
            BY <2>2 DEF Unfolds
        <3> QED
            BY <3>3, <3>4
    <2> QED
        BY <2>1, <2>2
<1>3. \A T \in SUBSET U : T \in Good
    <2> HIDE DEF Good
    <2> QED BY <1>1, <1>2, SubsetInduction
<1> QED
    BY <1>3

\* There is one: it gives each subset the sum of the subset without one element,
\* which induction provides, and that element's value.
LEMMA IterExists ==
    ASSUME NEW S, IsFiniteSet(S), NEW f
    PROVE  Unfolds(Iter(f, S), f, S)
<1> DEFINE Good == {T \in SUBSET S : Unfolds(Iter(f, T), f, T)}
<1>1. ASSUME NEW T \in SUBSET S, \A U \in (SUBSET T) \ {T} : U \in Good
      PROVE  T \in Good
    <2> DEFINE rest(s) == s \ {Pick(s)}
               h == [s \in SUBSET T |->
                        IF s = {} THEN 0 ELSE f[Pick(s)] + Iter(f, rest(s))[rest(s)]]
    <2>1. \A s \in SUBSET T : s # {} => /\ rest(s) \in (SUBSET T) \ {T}
                                        /\ rest(s) \in SUBSET S
                                        /\ IsFiniteSet(rest(s))
                                        /\ Unfolds(Iter(f, rest(s)), f, rest(s))
        BY <1>1, PickIn, FS_Subset, Zenon
    <2>2. ASSUME NEW s \in SUBSET T, s # {}
          PROVE  h[rest(s)] = Iter(f, rest(s))[rest(s)]
        <3> DEFINE r == rest(s)
                   J == Iter(f, r)
        <3>1. r \in SUBSET T /\ IsFiniteSet(r) /\ Unfolds(J, f, r)
            BY <2>1, <2>2
        <3>2. CASE r = {}
            BY <3>1, <3>2 DEF Unfolds
        <3>3. CASE r # {}
            <4> DEFINE q == rest(r)
            <4>1. J[r] = f[Pick(r)] + J[q]
                BY <3>1, <3>3, Zenon DEF Unfolds
            <4>2. h[r] = f[Pick(r)] + Iter(f, q)[q]
                BY <3>1, <3>3, Zenon
            <4>3. q \in SUBSET r /\ Unfolds(Iter(f, q), f, q)
                BY <2>1, <3>1, <3>3, Zenon
            <4>4. J[q] = Iter(f, q)[q]
                <5> HIDE DEF J, q, r
                <5> QED BY <3>1, <4>3, IterUnique
            <4> QED
                BY <4>1, <4>2, <4>4
        <3> QED
            BY <3>2, <3>3
    <2>3. Unfolds(h, f, T)
        <3>1. \A s \in SUBSET T : h[s] = IF s = {} THEN 0 ELSE f[Pick(s)] + h[rest(s)]
            BY <2>2
        <3> QED
            BY <3>1, Zenon DEF Unfolds
    <2> QED
        <3> HIDE DEF h
        <3> QED BY <2>3, Zenon DEF Iter
<1>2. \A T \in SUBSET S : T \in Good
    <2> HIDE DEF Good
    <2> QED BY <1>1, SubsetInduction
<1> QED
    BY <1>2

-----------------------------------------------------------------------------
(* What a sum does *)

\* The sum is one element's value and the sum of the others.
LEMMA SumStep ==
    ASSUME NEW S, IsFiniteSet(S), S # {}, NEW f
    PROVE  SumFunctionOnSet(f, S) = f[Pick(S)] + SumFunctionOnSet(f, S \ {Pick(S)})
<1> DEFINE I == Iter(f, S)
           rest == S \ {Pick(S)}
<1>1. Unfolds(I, f, S)
    BY IterExists
<1>2. I[S] = f[Pick(S)] + I[rest]
    BY <1>1, Zenon DEF Unfolds
<1>3. rest \in SUBSET S /\ Unfolds(Iter(f, rest), f, rest)
    BY IterExists, FS_Subset
<1>4. I[rest] = Iter(f, rest)[rest]
    <2> HIDE DEF I, rest
    <2> QED BY <1>1, <1>3, IterUnique
<1> QED
    BY <1>2, <1>4, SumIsIter

\* Nothing adds up to zero.
LEMMA SumEmpty ==
    ASSUME NEW f
    PROVE  SumFunctionOnSet(f, {}) = 0
<1>1. Unfolds(Iter(f, {}), f, {})
    BY IterExists, FS_EmptySet
<1> QED
    BY <1>1, SumIsIter DEF Unfolds

\* Integers add up to an integer.
LEMMA SumInt ==
    ASSUME NEW S, IsFiniteSet(S), NEW f, \A x \in S : f[x] \in Int
    PROVE  SumFunctionOnSet(f, S) \in Int
<1> DEFINE Good == {T \in SUBSET S : SumFunctionOnSet(f, T) \in Int}
<1>1. ASSUME NEW T \in SUBSET S, \A U \in (SUBSET T) \ {T} : U \in Good
      PROVE  T \in Good
    <2>1. CASE T = {}
        BY <2>1, SumEmpty
    <2>2. CASE T # {}
        <3>1. Pick(T) \in T
            BY <2>2, PickIn
        <3>2. SumFunctionOnSet(f, T \ {Pick(T)}) \in Int
            BY <1>1, <3>1
        <3>3. SumFunctionOnSet(f, T) = f[Pick(T)] + SumFunctionOnSet(f, T \ {Pick(T)})
            BY <2>2, SumStep, FS_Subset
        <3> QED
            BY <3>1, <3>2, <3>3
    <2> QED
        BY <2>1, <2>2
<1>2. \A T \in SUBSET S : T \in Good
    <2> HIDE DEF Good
    <2> QED BY <1>1, SubsetInduction
<1> QED
    BY <1>2

\* Any element may be the one that is taken out, not only the one picked.
LEMMA SumTakeOut ==
    ASSUME NEW S, IsFiniteSet(S), NEW f, \A x \in S : f[x] \in Int, NEW a \in S
    PROVE  SumFunctionOnSet(f, S) = f[a] + SumFunctionOnSet(f, S \ {a})
<1> DEFINE Without(T, x) == SumFunctionOnSet(f, T \ {x})
           Good == {T \in SUBSET S : \A x \in T : SumFunctionOnSet(f, T) = f[x] + Without(T, x)}
<1>1. ASSUME NEW T \in SUBSET S, \A U \in (SUBSET T) \ {T} : U \in Good, NEW x \in T
      PROVE  SumFunctionOnSet(f, T) = f[x] + Without(T, x)
    <2> DEFINE p == Pick(T)
    <2>1. p \in T
        BY PickIn
    <2>2. SumFunctionOnSet(f, T) = f[p] + Without(T, p)
        BY SumStep, FS_Subset
    <2>3. CASE p = x
        BY <2>2, <2>3
    <2>4. CASE p # x
        <3> DEFINE A == SumFunctionOnSet(f, (T \ {p}) \ {x})
                   B == SumFunctionOnSet(f, (T \ {x}) \ {p})
        <3>1. Without(T, p) = f[x] + A
            BY <1>1, <2>1, <2>4
        <3>2. Without(T, x) = f[p] + B
            BY <1>1, <2>1, <2>4
        <3>3. A = B
            <4>1. (T \ {p}) \ {x} = (T \ {x}) \ {p}
                OBVIOUS
            <4> QED BY <4>1
        <3>4. A \in Int
            <4>1. IsFiniteSet((T \ {p}) \ {x})
                BY FS_Subset
            <4> QED BY <4>1, SumInt
        <3>5. f[p] \in Int /\ f[x] \in Int
            BY <2>1
        <3> HIDE DEF p, Without, A, B
        <3> QED
            BY <2>2, <3>1, <3>2, <3>3, <3>4, <3>5
    <2> QED
        BY <2>3, <2>4
<1>2. \A T \in SUBSET S : T \in Good
    <2>1. ASSUME NEW T \in SUBSET S, \A U \in (SUBSET T) \ {T} : U \in Good
          PROVE  T \in Good
        BY <1>1, <2>1
    <2> HIDE DEF Good
    <2> QED BY <2>1, SubsetInduction
<1> QED
    BY <1>2

\* The sum of pointwise sums is the sum of the two sums.
LEMMA SumPointwise ==
    ASSUME NEW S, IsFiniteSet(S), NEW f, NEW g, NEW h,
           \A x \in S : f[x] \in Int /\ g[x] \in Int /\ h[x] = f[x] + g[x]
    PROVE  SumFunctionOnSet(h, S) = SumFunctionOnSet(f, S) + SumFunctionOnSet(g, S)
<1> DEFINE Sum(k, T) == SumFunctionOnSet(k, T)
           Good == {T \in SUBSET S : Sum(h, T) = Sum(f, T) + Sum(g, T)}
<1>1. ASSUME NEW T \in SUBSET S, \A U \in (SUBSET T) \ {T} : U \in Good
      PROVE  T \in Good
    <2>1. CASE T = {}
        BY <2>1, SumEmpty
    <2>2. CASE T # {}
        <3> DEFINE p == Pick(T)
                   r == T \ {p}
        <3>1. p \in T
            BY <2>2, PickIn
        <3>2. Sum(h, r) = Sum(f, r) + Sum(g, r)
            BY <1>1, <3>1
        <3>3. IsFiniteSet(T) /\ IsFiniteSet(r)
            BY FS_Subset
        <3>4. Sum(f, r) \in Int /\ Sum(g, r) \in Int
            BY <3>3, SumInt
        <3>5. /\ Sum(f, T) = f[p] + Sum(f, r)
              /\ Sum(g, T) = g[p] + Sum(g, r)
              /\ Sum(h, T) = h[p] + Sum(h, r)
            BY <2>2, <3>3, SumStep
        <3>6. f[p] \in Int /\ g[p] \in Int /\ h[p] = f[p] + g[p]
            BY <3>1
        <3>7. Sum(h, T) = Sum(f, T) + Sum(g, T)
            <4> HIDE DEF Sum, p, r
            <4> QED BY <3>2, <3>4, <3>5, <3>6
        <3> QED
            BY <3>7
    <2> QED
        BY <2>1, <2>2
<1>2. \A T \in SUBSET S : T \in Good
    <2> HIDE DEF Good
    <2> QED BY <1>1, SubsetInduction
<1> QED
    BY <1>2

\* Larger values have a larger sum.
LEMMA SumMonotonic ==
    ASSUME NEW S, IsFiniteSet(S), NEW f, NEW g,
           \A x \in S : f[x] \in Int /\ g[x] \in Int /\ f[x] <= g[x]
    PROVE  SumFunctionOnSet(f, S) <= SumFunctionOnSet(g, S)
<1> DEFINE Sum(k, T) == SumFunctionOnSet(k, T)
           Good == {T \in SUBSET S : Sum(f, T) <= Sum(g, T)}
<1>1. ASSUME NEW T \in SUBSET S, \A U \in (SUBSET T) \ {T} : U \in Good
      PROVE  T \in Good
    <2>1. CASE T = {}
        BY <2>1, SumEmpty
    <2>2. CASE T # {}
        <3> DEFINE p == Pick(T)
                   r == T \ {p}
        <3>1. p \in T
            BY <2>2, PickIn
        <3>2. Sum(f, r) <= Sum(g, r)
            BY <1>1, <3>1
        <3>3. IsFiniteSet(T) /\ IsFiniteSet(r)
            BY FS_Subset
        <3>4. Sum(f, r) \in Int /\ Sum(g, r) \in Int
            BY <3>3, SumInt
        <3>5. /\ Sum(f, T) = f[p] + Sum(f, r)
              /\ Sum(g, T) = g[p] + Sum(g, r)
            BY <2>2, <3>3, SumStep
        <3>6. f[p] \in Int /\ g[p] \in Int /\ f[p] <= g[p]
            BY <3>1
        <3>7. Sum(f, T) <= Sum(g, T)
            <4> HIDE DEF Sum, p, r
            <4> QED BY <3>2, <3>4, <3>5, <3>6
        <3> QED
            BY <3>7
    <2> QED
        BY <2>1, <2>2
<1>2. \A T \in SUBSET S : T \in Good
    <2> HIDE DEF Good
    <2> QED BY <1>1, SubsetInduction
<1> QED
    BY <1>2

\* Zeros add up to zero.
LEMMA SumZero ==
    ASSUME NEW S, IsFiniteSet(S), NEW f, \A x \in S : f[x] = 0
    PROVE  SumFunctionOnSet(f, S) = 0
<1> DEFINE Good == {T \in SUBSET S : SumFunctionOnSet(f, T) = 0}
<1>1. ASSUME NEW T \in SUBSET S, \A U \in (SUBSET T) \ {T} : U \in Good
      PROVE  T \in Good
    <2>1. CASE T = {}
        BY <2>1, SumEmpty
    <2>2. CASE T # {}
        <3>1. Pick(T) \in T
            BY <2>2, PickIn
        <3>2. SumFunctionOnSet(f, T \ {Pick(T)}) = 0
            BY <1>1, <3>1
        <3>3. SumFunctionOnSet(f, T) = f[Pick(T)] + SumFunctionOnSet(f, T \ {Pick(T)})
            BY <2>2, SumStep, FS_Subset
        <3> QED
            BY <3>1, <3>2, <3>3
    <2> QED
        BY <2>1, <2>2
<1>2. \A T \in SUBSET S : T \in Good
    <2> HIDE DEF Good
    <2> QED BY <1>1, SubsetInduction
<1> QED
    BY <1>2

\* The sum depends on the values on S alone.
LEMMA SumAgree ==
    ASSUME NEW S, IsFiniteSet(S), NEW f, NEW g, \A x \in S : f[x] \in Int /\ f[x] = g[x]
    PROVE  SumFunctionOnSet(f, S) = SumFunctionOnSet(g, S)
<1>1. /\ SumFunctionOnSet(f, S) \in Int
      /\ SumFunctionOnSet(g, S) \in Int
    BY SumInt
<1>2. /\ SumFunctionOnSet(f, S) <= SumFunctionOnSet(g, S)
      /\ SumFunctionOnSet(g, S) <= SumFunctionOnSet(f, S)
    BY SumMonotonic
<1> QED
    BY <1>1, <1>2

\* A total that is updated by the change of one entry stays the sum.
LEMMA SumChangeOne ==
    ASSUME NEW S, IsFiniteSet(S), NEW a \in S, NEW f, NEW g,
           \A x \in S : f[x] \in Int /\ g[x] \in Int /\ (x # a => g[x] = f[x])
    PROVE  SumFunctionOnSet(g, S) = SumFunctionOnSet(f, S) + g[a] - f[a]
<1> DEFINE r == S \ {a}
<1>1. IsFiniteSet(r)
    BY FS_Subset
<1>2. SumFunctionOnSet(f, r) \in Int /\ SumFunctionOnSet(g, r) = SumFunctionOnSet(f, r)
    BY <1>1, SumInt, SumAgree
<1>3. /\ SumFunctionOnSet(f, S) = f[a] + SumFunctionOnSet(f, r)
      /\ SumFunctionOnSet(g, S) = g[a] + SumFunctionOnSet(g, r)
    BY SumTakeOut
<1> HIDE DEF r
<1> QED
    BY <1>2, <1>3

\* Natural numbers add up to one that none of them exceeds.
LEMMA SumNat ==
    ASSUME NEW S, IsFiniteSet(S), NEW f, \A x \in S : f[x] \in Nat
    PROVE  /\ SumFunctionOnSet(f, S) \in Nat
           /\ \A x \in S : f[x] <= SumFunctionOnSet(f, S)
<1> DEFINE zero == [x \in S |-> 0]
<1>1. SumFunctionOnSet(f, S) \in Int
    BY SumInt
<1>2. \A T \in SUBSET S : SumFunctionOnSet(f, T) \in Nat
    <2>1. ASSUME NEW T \in SUBSET S
          PROVE  SumFunctionOnSet(f, T) \in Nat
        <3>1. IsFiniteSet(T)
            BY FS_Subset
        <3>2. SumFunctionOnSet(f, T) \in Int
            BY <3>1, SumInt
        <3>3. SumFunctionOnSet(zero, T) = 0
            BY <3>1, SumZero
        <3>4. SumFunctionOnSet(zero, T) <= SumFunctionOnSet(f, T)
            BY <3>1, SumMonotonic
        <3> QED
            BY <3>2, <3>3, <3>4
    <2> QED
        BY <2>1
<1>3. ASSUME NEW x \in S
      PROVE  f[x] <= SumFunctionOnSet(f, S)
    <2>1. SumFunctionOnSet(f, S) = f[x] + SumFunctionOnSet(f, S \ {x})
        BY SumTakeOut
    <2>2. SumFunctionOnSet(f, S \ {x}) \in Nat
        BY <1>2
    <2> QED
        BY <2>1, <2>2
<1> QED
    BY <1>2, <1>3

\* A factor common to all values is a factor of their sum.
LEMMA SumScale ==
    ASSUME NEW S, IsFiniteSet(S), NEW c \in Int, NEW f, NEW g,
           \A x \in S : f[x] \in Int /\ g[x] = c * f[x]
    PROVE  SumFunctionOnSet(g, S) = c * SumFunctionOnSet(f, S)
<1> DEFINE Sum(k, T) == SumFunctionOnSet(k, T)
           Good == {T \in SUBSET S : Sum(g, T) = c * Sum(f, T)}
<1>1. ASSUME NEW T \in SUBSET S, \A U \in (SUBSET T) \ {T} : U \in Good
      PROVE  T \in Good
    <2>1. CASE T = {}
        BY <2>1, SumEmpty
    <2>2. CASE T # {}
        <3> DEFINE p == Pick(T)
                   r == T \ {p}
        <3>1. p \in T
            BY <2>2, PickIn
        <3>2. Sum(g, r) = c * Sum(f, r)
            BY <1>1, <3>1
        <3>3. IsFiniteSet(T) /\ IsFiniteSet(r)
            BY FS_Subset
        <3>4. Sum(f, r) \in Int
            BY <3>3, SumInt
        <3>5. /\ Sum(f, T) = f[p] + Sum(f, r)
              /\ Sum(g, T) = g[p] + Sum(g, r)
            BY <2>2, <3>3, SumStep
        <3>6. f[p] \in Int /\ g[p] = c * f[p]
            BY <3>1
        <3>7. Sum(g, T) = c * Sum(f, T)
            <4> HIDE DEF Sum, p, r
            <4> QED BY <3>2, <3>4, <3>5, <3>6
        <3> QED
            BY <3>7
    <2> QED
        BY <2>1, <2>2
<1>2. \A T \in SUBSET S : T \in Good
    <2> HIDE DEF Good
    <2> QED BY <1>1, SubsetInduction
<1> QED
    BY <1>2

\* A sum with one value that is not zero is that value.
LEMMA SumSingle ==
    ASSUME NEW S, IsFiniteSet(S), NEW a \in S, NEW f,
           \A x \in S : f[x] \in Int /\ (x # a => f[x] = 0)
    PROVE  SumFunctionOnSet(f, S) = f[a]
<1> DEFINE r == S \ {a}
<1>1. SumFunctionOnSet(f, S) = f[a] + SumFunctionOnSet(f, r)
    BY SumTakeOut
<1>2. SumFunctionOnSet(f, r) = 0
    <2>1. IsFiniteSet(r)
        BY FS_Subset
    <2> QED
        BY <2>1, SumZero
<1> HIDE DEF r
<1> QED
    BY <1>1, <1>2

\* The sum of a whole function.
LEMMA SumWhole ==
    ASSUME NEW S, NEW f, DOMAIN f = S
    PROVE  SumFunction(f) = SumFunctionOnSet(f, S)
BY DEF SumFunction
-----------------------------------------------------------------------------
(* Numbers that wrap around *)

\* What a quotient and its remainder are.
LEMMA DivMod ==
  ASSUME NEW a \in Int, NEW m \in Nat \ {0}
  PROVE  /\ a % m \in 0..(m - 1) /\ a \div m \in Int
         /\ a = m * (a \div m) + (a % m)
OBVIOUS

\* A number is decomposed in one way.
LEMMA ModUnique ==
  ASSUME NEW m \in Nat \ {0}, NEW k \in Int, NEW r \in 0..(m - 1)
  PROVE  (m * k + r) % m = r
<1> DEFINE a == m * k + r
           q == a \div m
           s == a % m
<1>1. a \in Int /\ a = m * k + r /\ r \in Int /\ 0 <= r /\ r < m /\ m \in Int
  OBVIOUS
<1>2. s \in 0..(m - 1) /\ q \in Int /\ a = m * q + s
  <2> HIDE DEF a
  <2> QED BY <1>1, DivMod
<1>3. SUFFICES s = r
  OBVIOUS
<1> HIDE DEF a, q, s
<1>4. m * (q - k) = r - s /\ s \in Int /\ 0 <= s /\ s < m
  BY <1>1, <1>2
<1>5. q - k = 0
  <2>1. \A d \in Int : d >= 1 => m * d >= m
    BY <1>1
  <2>2. m * (k - q) = s - r
    BY <1>1, <1>2
  <2>3. q - k \in Int /\ k - q \in Int
    BY <1>2
  <2>4. ~(q - k >= 1)
    BY <1>1, <1>4, <2>1, <2>3
  <2>5. ~(k - q >= 1)
    BY <1>1, <1>4, <2>1, <2>2, <2>3
  <2> QED BY <2>4, <2>5, <1>2
<1>6. m * 0 = 0
  BY <1>1
<1> QED BY <1>1, <1>4, <1>5, <1>6

\* What is kept fits the word, and is the number itself if that fits.
LEMMA WrappedRange ==
  ASSUME NEW max \in Nat, NEW x \in Int
  PROVE  /\ Wrapped(x, max) \in IntegersUpTo(max)
         /\ x \in IntegersUpTo(max) => Wrapped(x, max) = x
<1> DEFINE m == 2 * (max + 1)
           y == x + max + 1
<1>1. m \in Nat \ {0} /\ y \in Int
  OBVIOUS
<1>2. y % m \in 0..(m - 1)
  BY <1>1, DivMod
<1>3. Wrapped(x, max) = (y % m) - (max + 1)
  BY DEF Wrapped
<1>4. (y % m) - (max + 1) \in IntegersUpTo(max)
  <2> DEFINE s == y % m
  <2>1. s \in 0..(m - 1)
    BY <1>2
  <2> HIDE DEF s
  <2> QED BY <2>1 DEF IntegersUpTo
<1>5. ASSUME x \in IntegersUpTo(max) PROVE y % m = y
  <2>1. y \in 0..(m - 1)
    BY <1>5 DEF IntegersUpTo
  <2> HIDE DEF m, y
  <2>2. m * 0 + y = y
    BY <1>1
  <2>3. (m * 0 + y) % m = y
    BY <1>1, <2>1, ModUnique
  <2> QED BY <2>2, <2>3
<1>6. y - (max + 1) = x
  OBVIOUS
<1> QED
  BY <1>3, <1>4, <1>5, <1>6

\* Adding to what was kept keeps the same as adding to the number itself.
LEMMA WrappedAdd ==
  ASSUME NEW max \in Nat, NEW x \in Int, NEW d \in Int
  PROVE  Wrapped(Wrapped(x, max) + d, max) = Wrapped(x + d, max)
<1> DEFINE m == 2 * (max + 1)
           y == x + max + 1
           k == y \div m
           z == (y % m) + d
           r == z % m
           l == z \div m
<1>1. m \in Nat \ {0} /\ y \in Int
  OBVIOUS
<1>2. y % m \in Int /\ k \in Int /\ y = m * k + (y % m)
  <2> HIDE DEF m, y
  <2> QED BY <1>1, DivMod
<1>3. z \in Int
  BY <1>2
<1>4. r \in 0..(m - 1) /\ l \in Int /\ z = m * l + r
  <2> HIDE DEF z, m
  <2> QED BY <1>1, <1>3, DivMod
<1>5. y + d = m * (k + l) + r
  <2> HIDE DEF m, y, k, r, l
  <2>1. m * (k + l) = m * k + m * l /\ m * k \in Int /\ m * l \in Int
    BY <1>1, <1>2, <1>4
  <2> QED BY <1>1, <1>2, <1>4, <2>1
<1>6. (y + d) % m = r
  <2> HIDE DEF m, y, k, r, l
  <2>1. k + l \in Int
    BY <1>2, <1>4
  <2> QED BY <1>1, <1>4, <1>5, <2>1, ModUnique
<1>7. Wrapped(x, max) + d + max + 1 = z
  <2>1. Wrapped(x, max) = (y % m) - (max + 1)
    BY DEF Wrapped
  <2> HIDE DEF m, y
  <2> QED BY <1>2, <2>1
<1>8. Wrapped(Wrapped(x, max) + d, max) = r - (max + 1)
  <2> DEFINE w == Wrapped(x, max) + d
  <2>1. Wrapped(w, max) = ((w + max + 1) % m) - (max + 1)
    BY DEF Wrapped
  <2> QED BY <1>7, <2>1
<1>9. Wrapped(x + d, max) = ((y + d) % m) - (max + 1)
  <2>1. Wrapped(x + d, max) = ((x + d + max + 1) % m) - (max + 1)
    BY DEF Wrapped
  <2>2. x + d + max + 1 = y + d
    OBVIOUS
  <2> QED BY <2>1, <2>2
<1> QED
  BY <1>6, <1>8, <1>9
=============================================================================
