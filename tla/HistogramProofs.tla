--------------------------- MODULE HistogramProofs ---------------------------
(* Lemmas about the operators of Histogram.                                *)
EXTENDS Histogram, FiniteSetTheorems, WellFoundedInduction, TLAPS

(* CHOOSE finds what it looks for: a nonempty set of naturals has a least  *)
(* member (the bucket walks of compute_percentile and of min_ns).          *)
LEMMA SmallestIsMinimum ==
  ASSUME NEW S \in SUBSET Nat, S # {}
  PROVE  Smallest(S) \in S /\ \A y \in S : Smallest(S) <= y
<1>1. PICK x \in S : \A y \in S : ~(<<y, x>> \in OpToRel(<, Nat))
  BY NatLessThanWellFounded, WFMin, Zenon
<1>2. \A a, b \in Nat : a < b => <<a, b>> \in OpToRel(<, Nat)
  BY SMT DEF OpToRel
<1>3. \A y \in S : ~(y < x)
  BY <1>1, <1>2
<1>4. \A y \in S : x <= y
  BY <1>3
<1> QED BY <1>4, Zenon DEF Smallest

(* A nonempty set of naturals that is bounded has a greatest member (the   *)
(* downward bucket walk of max_ns).                                        *)
LEMMA LargestIsMaximum ==
  ASSUME NEW n \in Nat, NEW S \in SUBSET (0 .. n), S # {}
  PROVE  Largest(S) \in S /\ \A y \in S : y <= Largest(S)
<1> DEFINE T == {n - x : x \in S}
<1>1. T \in SUBSET Nat /\ T # {}
  <2>1. \A x \in S : x \in 0 .. n
    OBVIOUS
  <2>2. \A x \in 0 .. n : n - x \in Nat
    OBVIOUS
  <2> QED BY <2>1, <2>2
<1>2. Smallest(T) \in T /\ \A y \in T : Smallest(T) <= y
  BY <1>1, SmallestIsMinimum
<1>3. PICK x \in S : Smallest(T) = n - x
  BY <1>2
<1>4. \A y \in S : n - x <= n - y
  BY <1>2, <1>3
<1>5. \A y \in S : y <= x
  BY <1>4
<1> QED BY <1>5, Zenon DEF Largest

(* Counting the samples of a sequence that have some property gives a      *)
(* natural number.                                                         *)
LEMMA CountIsNat ==
  ASSUME NEW V, NEW s \in Seq(V), NEW D \in SUBSET DOMAIN s
  PROVE  Cardinality(D) \in Nat
<1>1. DOMAIN s = 1 .. Len(s) /\ Len(s) \in Nat
  OBVIOUS
<1>2. IsFiniteSet(DOMAIN s)
  BY <1>1, FS_Interval
<1> QED BY <1>2, FS_Subset, FS_CardinalityType

(* Adding a window keeps the histogram well formed and adds its length to  *)
(* total_accepted (vis_histogram_add in vis_measure's accept loop).        *)
LEMMA AddAllAdds ==
  ASSUME NEW h \in HistogramType, NEW V, NEW s \in Seq(V)
  PROVE  /\ AddAll(h, s) \in HistogramType
         /\ AddAll(h, s).total = h.total + Len(s)
<1>1. \A b \in Bucket : HitsOf(s, {b}) \in Nat
  BY CountIsNat DEF HitsOf
<1>2. Cardinality({i \in DOMAIN s : BucketIndex(s[i]) >= Buckets}) \in Nat
  BY CountIsNat
<1>3. Cardinality({i \in DOMAIN s : BucketIndex(s[i]) < 0}) \in Nat
  BY CountIsNat
<1>4. Len(s) \in Nat
  OBVIOUS
<1> QED BY <1>1, <1>2, <1>3, <1>4 DEF AddAll, HistogramType

(* Whatever the histogram holds, a percentile is a midpoint of a bucket or *)
(* the saturated edge, and never outside the range (compute_percentile).   *)
LEMMA PercentileInRange ==
  ASSUME HistogramAssumption, NEW h, NEW p
  PROVE  Percentile(h, p) \in 0 .. Ceiling
<1> DEFINE target == RankInDoubles(p, h.total)
           reached == {b \in Bucket : Cumulative(h, b) >= target}
<1> USE HistogramAssumption
<1>1. Ceiling \in Nat
  BY DEF Ceiling
<1>2. CASE h.total = 0
  BY <1>1, <1>2 DEF Percentile, TargetRank
<1>3. CASE h.total # 0 /\ reached = {}
  <2>1. Percentile(h, p) = Ceiling
    BY <1>3, Zenon DEF Percentile, TargetRank
  <2> QED BY <1>1, <2>1
<1>4. CASE h.total # 0 /\ reached # {}
  <2>1. reached \in SUBSET Nat
    BY DEF Bucket
  <2>2. Smallest(reached) \in Bucket
    BY <1>4, <2>1, SmallestIsMinimum
  <2>3. Percentile(h, p) = Smallest(reached) * Width + Width \div 2
    BY <1>4, Zenon DEF Percentile, TargetRank
  <2> DEFINE m == Smallest(reached)
  <2>4. m \in Nat /\ m + 1 <= Buckets
    BY <2>2 DEF Bucket
  <2> HIDE DEF m
  <2>5. (m + 1) * Width <= Buckets * Width
    BY <2>4
  <2>6. Width \div 2 \in 0 .. Width
    OBVIOUS
  <2>7. m * Width + Width \div 2 \in 0 .. Ceiling
    BY <2>4, <2>5, <2>6 DEF Ceiling
  <2> QED BY <2>3, <2>7 DEF m
<1> QED BY <1>2, <1>3, <1>4

(* A bucket's edges are inside the range.                                  *)
LEMMA EdgesInRange ==
  ASSUME HistogramAssumption, NEW b \in Bucket
  PROVE  b * Width \in 0 .. Ceiling /\ b * Width + Width \in 0 .. Ceiling
<1>1. b \in Nat /\ b + 1 <= Buckets /\ Width \in Nat /\ Buckets \in Nat
  BY HistogramAssumption DEF Bucket
<1>2. (b + 1) * Width <= Buckets * Width
  BY <1>1
<1> QED BY <1>1, <1>2 DEF Ceiling

(* Every figure of the summary lies in the histogram's range               *)
(* (vis_histogram_compute).                                                *)
LEMMA SummaryInRange ==
  ASSUME HistogramAssumption, NEW h
  PROVE  Summary(h) \in [min : 0 .. Ceiling, p50 : 0 .. Ceiling, p99 : 0 .. Ceiling,
                         p999 : 0 .. Ceiling, p9999 : 0 .. Ceiling, max : 0 .. Ceiling]
<1>1. 0 \in 0 .. Ceiling /\ Ceiling \in 0 .. Ceiling
  BY HistogramAssumption DEF Ceiling
<1>2. NonEmpty(h) \in SUBSET Bucket
  BY DEF NonEmpty
<1>3. MinLatency(h) \in 0 .. Ceiling
  <2>1. NonEmpty(h) # {} => Smallest(NonEmpty(h)) \in Bucket
    BY <1>2, SmallestIsMinimum DEF Bucket
  <2> QED BY <1>1, <2>1, EdgesInRange, HistogramAssumption DEF MinLatency
<1>4. MaxLatency(h) \in 0 .. Ceiling
  <2>1. Buckets - 1 \in Nat
    BY HistogramAssumption
  <2>2. NonEmpty(h) # {} => Largest(NonEmpty(h)) \in Bucket
    BY <1>2, <2>1, LargestIsMaximum DEF Bucket
  <2> QED BY <1>1, <2>2, EdgesInRange, HistogramAssumption DEF MaxLatency
<1>5. \A p : Percentile(h, p) \in 0 .. Ceiling
  BY PercentileInRange, HistogramAssumption
<1> QED BY <1>3, <1>4, <1>5 DEF Summary

----------------------------------------------------------------------------
(* Induction over the subsets of a finite set: a set of subsets that holds *)
(* each one all of whose proper subsets it holds, holds all of them.       *)
LEMMA SubsetInduction ==
  ASSUME NEW S, IsFiniteSet(S), NEW G,
         ASSUME NEW T \in SUBSET S, \A U \in SUBSET T : U # T => U \in G
         PROVE  T \in G
  PROVE  \A T \in SUBSET S : T \in G
<1>. DEFINE Bad == {n \in Nat : \E T \in SUBSET S : T \notin G /\ Cardinality(T) = n}
<1>1. \A T \in SUBSET S : IsFiniteSet(T) /\ Cardinality(T) \in Nat
  BY FS_Subset, FS_CardinalityType
<1>2. ASSUME Bad # {}
      PROVE  FALSE
  <2>1. Smallest(Bad) \in Bad /\ \A n \in Bad : Smallest(Bad) <= n
    BY <1>2, SmallestIsMinimum
  <2>2. PICK T \in SUBSET S : T \notin G /\ Cardinality(T) = Smallest(Bad)
    BY <2>1
  <2>3. ASSUME NEW U \in SUBSET T, U # T
        PROVE  U \in G
    <3>1. Cardinality(U) < Cardinality(T) /\ Cardinality(U) \in Nat
      BY <1>1, <2>3, FS_Subset
    <3>2. Cardinality(U) \notin Bad
      BY <1>1, <2>1, <2>2, <3>1
    <3>. QED BY <3>1, <3>2
  <2>. QED BY <2>2, <2>3
<1>. QED BY <1>1, <1>2

(* The recursion that SumFunctionOnSet is defined by.                      *)
SumStep(f, g, s) ==
  IF s = {} THEN 0
  ELSE f[CHOOSE x \in s : TRUE] + g[s \ {CHOOSE x \in s : TRUE}]

IsSum(f, g, S) == g = [s \in SUBSET S |-> SumStep(f, g, s)]

LEMMA SumIsRecursive ==
  ASSUME NEW f, NEW S
  PROVE  SumFunctionOnSet(f, S) = (CHOOSE g : IsSum(f, g, S))[S]
BY DEF SumFunctionOnSet, FoldFunctionOnSet, MapThenFoldSet, IsSum, SumStep

(* Up to any size, there is a function that satisfies the recursion.       *)
LEMMA SumExists ==
  ASSUME NEW f, NEW S, IsFiniteSet(S)
  PROVE  \E g : IsSum(f, g, S)
<1>. DEFINE UpTo(n) == {s \in SUBSET S : Cardinality(s) <= n}
            Good(n) == \E g : g = [s \in UpTo(n) |-> SumStep(f, g, s)]
            Bad == {n \in Nat : ~Good(n)}
<1>1. \A T \in SUBSET S : IsFiniteSet(T) /\ Cardinality(T) \in Nat
  BY FS_Subset, FS_CardinalityType
<1>2. Good(0)
  <2>. DEFINE g == [s \in UpTo(0) |-> 0]
  <2>1. \A s \in UpTo(0) : s = {}
    BY <1>1, FS_EmptySet
  <2>2. \A s \in UpTo(0) : SumStep(f, g, s) = 0
    BY <2>1 DEF SumStep
  <2>3. g = [s \in UpTo(0) |-> SumStep(f, g, s)]
    BY <2>2
  <2>. QED BY <2>3
<1>3. ASSUME NEW n \in Nat, Good(n)
      PROVE  Good(n + 1)
  <2>1. PICK g : g = [s \in UpTo(n) |-> SumStep(f, g, s)]
    BY <1>3
  <2>. DEFINE h == [s \in UpTo(n + 1) |-> SumStep(f, g, s)]
  <2>2. \A s \in UpTo(n) : s \in UpTo(n + 1) /\ h[s] = g[s]
    <3>1. \A s \in UpTo(n) : s \in UpTo(n + 1)
      BY <1>1
    <3>. HIDE DEF UpTo
    <3>2. \A s \in UpTo(n) : h[s] = SumStep(f, g, s)
      BY <3>1
    <3>3. \A s \in UpTo(n) : g[s] = SumStep(f, g, s)
      BY <2>1
    <3>. QED BY <3>1, <3>2, <3>3
  <2>3. ASSUME NEW s \in UpTo(n + 1), s # {}
        PROVE  s \ {CHOOSE x \in s : TRUE} \in UpTo(n)
    <3>. DEFINE x == CHOOSE x \in s : TRUE
    <3>1. x \in s
      BY <2>3
    <3>2. IsFiniteSet(s)
      BY <1>1
    <3>. HIDE DEF x
    <3>3. Cardinality(s \ {x}) = Cardinality(s) - 1
      BY <3>1, <3>2, FS_RemoveElement
    <3>4. s \ {x} \in UpTo(n)
      BY <1>1, <3>3
    <3>. QED BY <3>4 DEF x
  <2>4. \A s \in UpTo(n + 1) : SumStep(f, g, s) = SumStep(f, h, s)
    <3>. HIDE DEF UpTo, h
    <3>. QED BY <2>2, <2>3 DEF SumStep
  <2>. HIDE DEF UpTo
  <2>5. h = [s \in UpTo(n + 1) |-> SumStep(f, h, s)]
    BY <2>4
  <2>. QED BY <2>5
<1>4. \A n \in Nat : Good(n)
  <2>1. SUFFICES ASSUME Bad # {} PROVE FALSE
    OBVIOUS
  <2>. HIDE DEF Good
  <2>2. Smallest(Bad) \in Bad /\ \A n \in Bad : Smallest(Bad) <= n
    BY <2>1, SmallestIsMinimum
  <2>3. Smallest(Bad) # 0 /\ Smallest(Bad) \in Nat
    BY <1>2, <2>2
  <2>4. Good(Smallest(Bad) - 1)
    BY <2>2, <2>3
  <2>5. Good(Smallest(Bad))
    BY <1>3, <2>3, <2>4
  <2>. QED BY <2>2, <2>5
<1>5. UpTo(Cardinality(S)) = SUBSET S
  BY <1>1, FS_Subset
<1>6. Cardinality(S) \in Nat
  BY <1>1
<1>7. PICK g : g = [s \in UpTo(Cardinality(S)) |-> SumStep(f, g, s)]
  BY <1>4, <1>6
<1>. HIDE DEF UpTo
<1>8. g = [s \in SUBSET S |-> SumStep(f, g, s)]
  BY <1>5, <1>7
<1>. QED BY <1>8 DEF IsSum

(* The function is unique, whatever finite set it is defined over.         *)
LEMMA SumIsUnique ==
  ASSUME NEW f, NEW S, IsFiniteSet(S), NEW T \in SUBSET S, NEW g, NEW h,
         IsSum(f, g, S), IsSum(f, h, T)
  PROVE  \A s \in SUBSET T : g[s] = h[s]
<1>. DEFINE G == {s \in SUBSET T : g[s] = h[s]}
<1>1. IsFiniteSet(T)
  BY FS_Subset
<1>2. ASSUME NEW s \in SUBSET T, \A U \in SUBSET s : U # s => U \in G
      PROVE  s \in G
  <2>1. g[s] = SumStep(f, g, s) /\ h[s] = SumStep(f, h, s)
    BY DEF IsSum
  <2>2. CASE s = {}
    BY <2>1, <2>2 DEF SumStep
  <2>3. CASE s # {}
    <3>. DEFINE x == CHOOSE x \in s : TRUE
    <3>1. x \in s
      BY <2>3
    <3>2. s \ {x} \in SUBSET s /\ s \ {x} # s
      BY <3>1
    <3>3. g[s \ {x}] = h[s \ {x}]
      BY <1>2, <3>2
    <3>. QED BY <2>1, <2>3, <3>3 DEF SumStep
  <2>. QED BY <2>2, <2>3
<1>. HIDE DEF G
<1>3. \A s \in SUBSET T : s \in G
  BY <1>1, <1>2, SubsetInduction
<1>. QED BY <1>3 DEF G

LEMMA SumOfEmpty ==
  ASSUME NEW f
  PROVE  SumFunctionOnSet(f, {}) = 0
<1>1. PICK g : IsSum(f, g, {}) /\ SumFunctionOnSet(f, {}) = g[{}]
  BY FS_EmptySet, SumExists, SumIsRecursive
<1>. QED BY <1>1 DEF IsSum, SumStep

(* The sum over a set, in terms of the sum over all but the member that    *)
(* the fold picks.                                                         *)
LEMMA SumUnfolds ==
  ASSUME NEW f, NEW S, IsFiniteSet(S)
  PROVE  S # {} => LET x == CHOOSE x \in S : TRUE IN
                   SumFunctionOnSet(f, S) = f[x] + SumFunctionOnSet(f, S \ {x})
<1>1. ASSUME NEW T \in SUBSET S
      PROVE  /\ IsFiniteSet(T)
             /\ \E g : IsSum(f, g, T) /\ SumFunctionOnSet(f, T) = g[T]
  BY FS_Subset, SumExists, SumIsRecursive
<1>2. ASSUME S # {}, NEW x, x = CHOOSE y \in S : TRUE
      PROVE  SumFunctionOnSet(f, S) = f[x] + SumFunctionOnSet(f, S \ {x})
  <2>1. PICK g : IsSum(f, g, S) /\ SumFunctionOnSet(f, S) = g[S]
    BY <1>1
  <2>2. PICK h : IsSum(f, h, S \ {x}) /\ SumFunctionOnSet(f, S \ {x}) = h[S \ {x}]
    BY <1>1
  <2>3. g[S \ {x}] = h[S \ {x}]
    BY <2>1, <2>2, SumIsUnique
  <2>4. g[S] = f[x] + g[S \ {x}]
    BY <1>2, <2>1 DEF IsSum, SumStep
  <2>. QED BY <2>1, <2>2, <2>3, <2>4
<1>. QED BY <1>2

----------------------------------------------------------------------------
(* Sums of natural numbers: the type, and that the order does not matter.  *)
LEMMA SumIsNat ==
  ASSUME NEW S, IsFiniteSet(S), NEW f, \A x \in S : f[x] \in Nat
  PROVE  \A T \in SUBSET S : SumFunctionOnSet(f, T) \in Nat
<1>. DEFINE G == {T \in SUBSET S : SumFunctionOnSet(f, T) \in Nat}
<1>1. ASSUME NEW T \in SUBSET S, \A U \in SUBSET T : U # T => U \in G
      PROVE  T \in G
  <2>1. IsFiniteSet(T)
    BY FS_Subset
  <2>2. CASE T = {}
    BY <2>2, SumOfEmpty
  <2>3. CASE T # {}
    <3>. DEFINE x == CHOOSE x \in T : TRUE
    <3>1. x \in T
      BY <2>3
    <3>2. SumFunctionOnSet(f, T) = f[x] + SumFunctionOnSet(f, T \ {x})
      BY <2>1, <2>3, SumUnfolds
    <3>. HIDE DEF x
    <3>3. SumFunctionOnSet(f, T \ {x}) \in Nat
      BY <1>1, <3>1
    <3>. QED BY <3>1, <3>2, <3>3
  <2>. QED BY <2>2, <2>3
<1>. HIDE DEF G
<1>2. \A T \in SUBSET S : T \in G
  BY <1>1, SubsetInduction
<1>. QED BY <1>2 DEF G

LEMMA SumRemoves ==
  ASSUME NEW S, IsFiniteSet(S), NEW f, \A x \in S : f[x] \in Nat
  PROVE  \A x \in S : SumFunctionOnSet(f, S) = f[x] + SumFunctionOnSet(f, S \ {x})
<1>. DEFINE Sum(T) == SumFunctionOnSet(f, T)
            G == {T \in SUBSET S : \A x \in T : Sum(T) = f[x] + Sum(T \ {x})}
<1>1. \A T \in SUBSET S : IsFiniteSet(T) /\ Sum(T) \in Nat
  BY FS_Subset, SumIsNat
<1>2. ASSUME NEW T \in SUBSET S, \A U \in SUBSET T : U # T => U \in G
      PROVE  T \in G
  <2>1. SUFFICES ASSUME NEW x \in T PROVE Sum(T) = f[x] + Sum(T \ {x})
    OBVIOUS
  <2>. DEFINE c == CHOOSE y \in T : TRUE
  <2>2. c \in T
    BY <2>1
  <2>3. Sum(T) = f[c] + Sum(T \ {c})
    BY <1>1, <2>1, SumUnfolds
  <2>. HIDE DEF c
  <2>4. CASE c # x
    <3>1. T \ {c} \in G /\ T \ {x} \in G
      BY <1>2, <2>1, <2>2
    <3>2. Sum(T \ {c}) = f[x] + Sum((T \ {c}) \ {x})
      BY <2>1, <2>4, <3>1
    <3>3. Sum(T \ {x}) = f[c] + Sum((T \ {x}) \ {c})
      BY <2>2, <2>4, <3>1
    <3>4. (T \ {c}) \ {x} = (T \ {x}) \ {c}
      OBVIOUS
    <3>5. Sum((T \ {x}) \ {c}) \in Nat /\ f[x] \in Nat /\ f[c] \in Nat
      BY <1>1, <2>1, <2>2
    <3>. QED BY <2>3, <3>2, <3>3, <3>4, <3>5
  <2>. QED BY <2>3, <2>4
<1>. HIDE DEF G
<1>3. S \in G
  BY <1>2, SubsetInduction
<1>. QED BY <1>3 DEF G

(* Sums depend on nothing but the values summed.                           *)
LEMMA SumIsExtensional ==
  ASSUME NEW S, IsFiniteSet(S), NEW f, NEW g, \A x \in S : f[x] = g[x]
  PROVE  SumFunctionOnSet(f, S) = SumFunctionOnSet(g, S)
<1>. DEFINE G == {T \in SUBSET S : SumFunctionOnSet(f, T) = SumFunctionOnSet(g, T)}
<1>1. ASSUME NEW T \in SUBSET S, \A U \in SUBSET T : U # T => U \in G
      PROVE  T \in G
  <2>1. IsFiniteSet(T)
    BY FS_Subset
  <2>2. CASE T = {}
    BY <2>2, SumOfEmpty
  <2>3. CASE T # {}
    <3>. DEFINE x == CHOOSE x \in T : TRUE
    <3>1. x \in T
      BY <2>3
    <3>2. /\ SumFunctionOnSet(f, T) = f[x] + SumFunctionOnSet(f, T \ {x})
          /\ SumFunctionOnSet(g, T) = g[x] + SumFunctionOnSet(g, T \ {x})
      BY <2>1, <2>3, SumUnfolds
    <3>. HIDE DEF x
    <3>3. SumFunctionOnSet(f, T \ {x}) = SumFunctionOnSet(g, T \ {x}) /\ f[x] = g[x]
      BY <1>1, <3>1
    <3>. QED BY <3>2, <3>3
  <2>. QED BY <2>2, <2>3
<1>. HIDE DEF G
<1>2. S \in G
  BY <1>1, SubsetInduction
<1>. QED BY <1>2 DEF G

(* Sums over disjoint sets add up; of a larger set they are no smaller.    *)
LEMMA SumSplits ==
  ASSUME NEW S, IsFiniteSet(S), NEW f, \A x \in S : f[x] \in Nat,
         NEW A \in SUBSET S
  PROVE  /\ SumFunctionOnSet(f, S) = SumFunctionOnSet(f, A) + SumFunctionOnSet(f, S \ A)
         /\ SumFunctionOnSet(f, A) <= SumFunctionOnSet(f, S)
<1>. DEFINE Sum(T) == SumFunctionOnSet(f, T)
            G == {T \in SUBSET A : Sum(T \cup (S \ A)) = Sum(T) + Sum(S \ A)}
<1>1. \A T \in SUBSET S : IsFiniteSet(T) /\ Sum(T) \in Nat
  BY FS_Subset, SumIsNat
<1>2. ASSUME NEW T \in SUBSET A, \A U \in SUBSET T : U # T => U \in G
      PROVE  T \in G
  <2>1. CASE T = {}
    <3>1. Sum({}) = 0 /\ T \cup (S \ A) = S \ A
      BY <2>1, SumOfEmpty
    <3>2. Sum(S \ A) \in Nat
      BY <1>1
    <3>. QED BY <2>1, <3>1, <3>2
  <2>2. CASE T # {}
    <3>1. PICK x \in T : TRUE
      BY <2>2
    <3>2. Sum(T) = f[x] + Sum(T \ {x})
      BY <1>1, <3>1, SumRemoves
    <3>3. Sum(T \cup (S \ A)) = f[x] + Sum((T \cup (S \ A)) \ {x})
      <4>1. T \cup (S \ A) \in SUBSET S /\ x \in T \cup (S \ A)
        BY <3>1
      <4>2. \A y \in T \cup (S \ A) : f[y] \in Nat
        BY <4>1
      <4>. QED BY <1>1, <4>1, <4>2, SumRemoves DEF Sum
    <3>4. (T \cup (S \ A)) \ {x} = (T \ {x}) \cup (S \ A)
      BY <3>1
    <3>5. T \ {x} \in G
      BY <1>2, <3>1
    <3>6. Sum((T \ {x}) \cup (S \ A)) = Sum(T \ {x}) + Sum(S \ A)
      BY <3>5
    <3>7. f[x] \in Nat /\ Sum(T \ {x}) \in Nat /\ Sum(S \ A) \in Nat
      BY <1>1, <3>1
    <3>8. Sum(T \cup (S \ A)) = Sum(T) + Sum(S \ A)
      BY <3>2, <3>3, <3>4, <3>6, <3>7
    <3>. QED BY <3>8
  <2>. QED BY <2>1, <2>2
<1>3. A \in G
  <2>1. IsFiniteSet(A)
    BY <1>1
  <2>. HIDE DEF G
  <2>. QED BY <1>2, <2>1, SubsetInduction
<1>4. A \cup (S \ A) = S
  OBVIOUS
<1>5. Sum(A) \in Nat /\ Sum(S \ A) \in Nat
  BY <1>1
<1>6. Sum(S) = Sum(A) + Sum(S \ A)
  BY <1>3, <1>4
<1>7. Sum(A) <= Sum(S)
  BY <1>5, <1>6
<1>. QED BY <1>6, <1>7 DEF Sum

(* Nothing but zeros.                                                      *)
LEMMA SumOfZeros ==
  ASSUME NEW S, IsFiniteSet(S), NEW f, \A x \in S : f[x] = 0
  PROVE  SumFunctionOnSet(f, S) = 0
<1>. DEFINE G == {T \in SUBSET S : SumFunctionOnSet(f, T) = 0}
<1>1. ASSUME NEW T \in SUBSET S, \A U \in SUBSET T : U # T => U \in G
      PROVE  T \in G
  <2>1. IsFiniteSet(T)
    BY FS_Subset
  <2>2. CASE T = {}
    BY <2>2, SumOfEmpty
  <2>3. CASE T # {}
    <3>. DEFINE x == CHOOSE x \in T : TRUE
    <3>1. x \in T
      BY <2>3
    <3>2. SumFunctionOnSet(f, T) = f[x] + SumFunctionOnSet(f, T \ {x})
      BY <2>1, <2>3, SumUnfolds
    <3>. HIDE DEF x
    <3>3. SumFunctionOnSet(f, T \ {x}) = 0
      BY <1>1, <3>1
    <3>. QED BY <3>1, <3>2, <3>3
  <2>. QED BY <2>2, <2>3
<1>. HIDE DEF G
<1>2. S \in G
  BY <1>1, SubsetInduction
<1>. QED BY <1>2 DEF G

(* One value grows by k: so does every sum that counts it, and no other.   *)
LEMMA SumGrows ==
  ASSUME NEW S, IsFiniteSet(S), NEW f, NEW g, NEW x, NEW k \in Nat,
         \A y \in S : f[y] \in Nat,
         \A y \in S : g[y] = IF y = x THEN f[y] + k ELSE f[y]
  PROVE  SumFunctionOnSet(g, S) =
           IF x \in S THEN SumFunctionOnSet(f, S) + k ELSE SumFunctionOnSet(f, S)
<1>1. CASE x \in S
  <2>1. \A y \in S : g[y] \in Nat
    OBVIOUS
  <2>2. SumFunctionOnSet(g, S) = g[x] + SumFunctionOnSet(g, S \ {x})
    BY <1>1, <2>1, SumRemoves
  <2>3. SumFunctionOnSet(f, S) = f[x] + SumFunctionOnSet(f, S \ {x})
    BY <1>1, SumRemoves
  <2>4. SumFunctionOnSet(g, S \ {x}) = SumFunctionOnSet(f, S \ {x})
    <3>1. \A y \in S \ {x} : g[y] = f[y]
      OBVIOUS
    <3>2. IsFiniteSet(S \ {x})
      BY FS_Subset
    <3>. QED BY <3>1, <3>2, SumIsExtensional
  <2>5. SumFunctionOnSet(f, S \ {x}) \in Nat
    BY SumIsNat
  <2>6. g[x] = f[x] + k /\ f[x] \in Nat
    BY <1>1
  <2>. QED BY <1>1, <2>2, <2>3, <2>4, <2>5, <2>6
<1>2. CASE x \notin S
  BY <1>2, SumIsExtensional
<1>. QED BY <1>1, <1>2

----------------------------------------------------------------------------
(* Division by the width of a bucket.                                      *)
LEMMA DivisionBounds ==
  ASSUME NEW v \in Nat, NEW w \in Nat \ {0}
  PROVE  v \div w \in Nat /\ (v \div w) * w <= v /\ v < (v \div w) * w + w
OBVIOUS

LEMMA DivisionCompares ==
  ASSUME NEW v \in Nat, NEW w \in Nat \ {0}, NEW b \in Nat
  PROVE  v \div w < b <=> v < b * w
<1>. DEFINE q == v \div w
<1>1. q \in Nat /\ q * w <= v /\ v < q * w + w
  BY DivisionBounds
<1>. HIDE DEF q
<1>2. CASE q < b
  <2>1. q + 1 <= b
    BY <1>1, <1>2
  <2>2. (q + 1) * w <= b * w
    BY <1>1, <2>1
  <2>. QED BY <1>1, <1>2, <2>2 DEF q
<1>3. CASE ~(q < b)
  <2>1. b <= q
    BY <1>1, <1>3
  <2>2. b * w <= q * w
    BY <1>1, <2>1
  <2>. QED BY <1>1, <1>3, <2>2 DEF q
<1>. QED BY <1>2, <1>3

(* The ranks of the four percentiles are ranks of samples, in their order, *)
(* also where the product in doubles is one too high.                      *)
LEMMA RanksInOrder ==
  ASSUME NEW n \in Nat \ {0}
  PROVE  /\ RankInDoubles(P50, n) \in 1 .. n /\ RankInDoubles(P99, n) \in 1 .. n
         /\ RankInDoubles(P999, n) \in 1 .. n /\ RankInDoubles(P9999, n) \in 1 .. n
         /\ RankInDoubles(P50, n) <= RankInDoubles(P99, n)
         /\ RankInDoubles(P99, n) <= RankInDoubles(P999, n)
         /\ RankInDoubles(P999, n) <= RankInDoubles(P9999, n)
<1>1. P50 # P999 /\ P99 # P999 /\ P9999 # P999
  BY DEF P50, P99, P999, P9999
<1>2. /\ RankInDoubles(P50, n) = (n + 1) \div 2
      /\ RankInDoubles(P99, n) = (99 * n + 99) \div 100
      /\ RankInDoubles(P9999, n) = (9999 * n + 9999) \div 10000
  BY <1>1 DEF RankInDoubles, NearestRank, P50, P99, P9999
<1>3. \/ RankInDoubles(P999, n) = (999 * n + 999) \div 1000
      \/ n % 1000 = 0 /\ RankInDoubles(P999, n) = (999 * n + 999) \div 1000 + 1
  BY DEF RankInDoubles, NearestRank, P999
<1>. QED BY <1>2, <1>3

LEMMA RankOf99 ==
  ASSUME NEW n \in Nat \ {0}
  PROVE  /\ 99 * n <= 100 * RankInDoubles(P99, n)
         /\ 100 * RankInDoubles(P99, n) <= 99 * n + 99
<1>1. RankInDoubles(P99, n) = (99 * n + 99) \div 100
  BY DEF RankInDoubles, NearestRank, P99, P999
<1>. QED BY <1>1

----------------------------------------------------------------------------
(* Cumulative counts are numbers, and grow with the bucket.                *)
LEMMA CumulativeGrows ==
  ASSUME HistogramAssumption, NEW h \in HistogramType
  PROVE  /\ IsFiniteSet(Bucket)
         /\ \A V \in SUBSET Bucket : SumFunctionOnSet(h.buckets, V) \in Nat
         /\ \A b \in Bucket : 0 .. b \in SUBSET Bucket /\ Cumulative(h, b) \in Nat
         /\ \A b, c \in Bucket : b <= c => Cumulative(h, b) <= Cumulative(h, c)
<1>1. IsFiniteSet(Bucket)
  BY HistogramAssumption, FS_Interval DEF Bucket
<1>2. h.buckets \in [Bucket -> Nat]
  BY DEF HistogramType
<1>3. \A V \in SUBSET Bucket : SumFunctionOnSet(h.buckets, V) \in Nat
  BY <1>1, <1>2, SumIsNat
<1>4. \A b \in Bucket : 0 .. b \in SUBSET Bucket
  BY HistogramAssumption DEF Bucket
<1>5. ASSUME NEW b \in Bucket, NEW c \in Bucket, b <= c
      PROVE  Cumulative(h, b) <= Cumulative(h, c)
  <2>1. 0 .. b \in SUBSET (0 .. c) /\ 0 .. c \in SUBSET Bucket
    BY <1>4, <1>5 DEF Bucket
  <2>2. IsFiniteSet(0 .. c) /\ \A x \in 0 .. c : h.buckets[x] \in Nat
    BY <1>1, <1>2, <2>1, FS_Subset
  <2>. QED BY <2>1, <2>2, SumSplits DEF Cumulative
<1>. QED BY <1>1, <1>3, <1>4, <1>5 DEF Cumulative

(* A percentile is the midpoint of the first bucket that reaches its rank, *)
(* or the upper edge if none does (compute_percentile).                    *)
PercentileBucket(h, target, m) ==
  \/ \E b \in Bucket :
       /\ m = b * Width + Width \div 2
       /\ Cumulative(h, b) >= target
       /\ \A c \in Bucket : c < b => Cumulative(h, c) < target
  \/ /\ m = Ceiling
     /\ \A b \in Bucket : Cumulative(h, b) < target

LEMMA PercentileIsOfBucket ==
  ASSUME HistogramAssumption, NEW h \in HistogramType, NEW p, h.total # 0,
         RankInDoubles(p, h.total) \in Nat
  PROVE  PercentileBucket(h, RankInDoubles(p, h.total), Percentile(h, p))
<1>. DEFINE target == RankInDoubles(p, h.total)
            reached == {b \in Bucket : Cumulative(h, b) >= target}
<1>1. \A b \in Bucket : Cumulative(h, b) \in Nat
  BY CumulativeGrows
<1>2. target \in Nat
  OBVIOUS
<1>. HIDE DEF target
<1>3. CASE reached = {}
  <2>1. Percentile(h, p) = Ceiling
    BY <1>3, Zenon DEF Percentile, TargetRank, target
  <2>2. \A b \in Bucket : Cumulative(h, b) < target
    BY <1>1, <1>2, <1>3
  <2>. QED BY <2>1, <2>2 DEF PercentileBucket, target
<1>4. CASE reached # {}
  <2>1. reached \in SUBSET Nat
    BY DEF Bucket
  <2>2. Smallest(reached) \in reached /\ \A b \in reached : Smallest(reached) <= b
    BY <1>4, <2>1, SmallestIsMinimum
  <2>3. Percentile(h, p) = Smallest(reached) * Width + Width \div 2
    BY <1>4, Zenon DEF Percentile, TargetRank, target
  <2>4. PICK b \in reached : b = Smallest(reached)
    BY <2>2
  <2>5. \A c \in Bucket : c < b => Cumulative(h, c) < target
    BY <1>1, <1>2, <2>1, <2>2, <2>4 DEF Bucket
  <2>6. b \in Bucket /\ Cumulative(h, b) >= target
    OBVIOUS
  <2>7. Percentile(h, p) = b * Width + Width \div 2
    BY <2>3, <2>4
  <2>. HIDE DEF reached
  <2>. QED BY <2>5, <2>6, <2>7 DEF PercentileBucket, target
<1>. QED BY <1>3, <1>4
=============================================================================
