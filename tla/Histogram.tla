------------------------------ MODULE Histogram ------------------------------
(***************************************************************************)
(* The latency histogram of vis-jitter (src/vis-jitter/src/histogram.cpp)  *)
(* as pure operators: a fixed array of buckets, an overflow counter, and   *)
(* the summary computed from them.  Latencies are natural numbers of       *)
(* nanoseconds.                                                            *)
(***************************************************************************)
EXTENDS Integers, FiniteSets, Sequences, Functions

CONSTANTS
  Buckets,   \* VIS_HISTOGRAM_BUCKETS
  Width,     \* VIS_BUCKET_WIDTH_NS
  IntMax     \* the largest value of a C++ int

ASSUME HistogramAssumption ==
  /\ Buckets \in Nat \ {0}
  /\ Width \in Nat \ {0}
  /\ IntMax \in Nat
  /\ Buckets <= IntMax

Bucket == 0 .. Buckets - 1
Ceiling == Buckets * Width          \* the upper edge of the last bucket

(***************************************************************************)
(* "stray" is no field of the program: it counts the increments that hit   *)
(* neither a bucket nor the overflow counter, but memory below the array.  *)
(***************************************************************************)
HistogramType ==
  [buckets : [Bucket -> Nat], overflow : Nat, total : Nat, stray : Nat]

(* Mutant: an array of one bucket too many.                                *)
EmptyHistogramTooLong ==
  [buckets |-> [b \in 0 .. Buckets |-> 0], overflow |-> 0, total |-> 0, stray |-> 0]

EmptyHistogram ==
  [buckets |-> [b \in Bucket |-> 0], overflow |-> 0, total |-> 0, stray |-> 0]

(***************************************************************************)
(* static_cast<int>(value / WIDTH).  Out of int's range the conversion is  *)
(* undefined; the x86-64 instruction the build uses yields the smallest    *)
(* int, which is no bucket and is below the overflow limit.                *)
(***************************************************************************)
BucketIndex(v) ==
  IF v \div Width <= IntMax THEN v \div Width ELSE -(IntMax + 1)

HitsOf(s, I) == Cardinality({i \in DOMAIN s : BucketIndex(s[i]) \in I})

(* Mutant: a latency just above the range is in neither.                   *)
AddAllLosingOne(h, s) ==
  [buckets  |-> [b \in Bucket |-> h.buckets[b] + HitsOf(s, {b})],
   overflow |-> h.overflow + Cardinality({i \in DOMAIN s : BucketIndex(s[i]) > Buckets}),
   total    |-> h.total + Len(s),
   stray    |-> h.stray]

(***************************************************************************)
(* vis_histogram_add called for each latency of the sequence s in turn.    *)
(***************************************************************************)
AddAll(h, s) ==
  [buckets  |-> [b \in Bucket |-> h.buckets[b] + HitsOf(s, {b})],
   overflow |-> h.overflow + Cardinality({i \in DOMAIN s : BucketIndex(s[i]) >= Buckets}),
   total    |-> h.total + Len(s),
   stray    |-> h.stray + Cardinality({i \in DOMAIN s : BucketIndex(s[i]) < 0})]

----------------------------------------------------------------------------
P50   == [num |-> 1,    den |-> 2]
P99   == [num |-> 99,   den |-> 100]
P999  == [num |-> 999,  den |-> 1000]
P9999 == [num |-> 9999, den |-> 10000]

(***************************************************************************)
(* The 1-based nearest rank of quantile p among n samples.                 *)
(***************************************************************************)
NearestRank(p, n) == (p.num * n + p.den - 1) \div p.den

(***************************************************************************)
(* What the code computes in doubles.  99.9 / 100.0 as a double is         *)
(* (999 + 992 / 2^53) / 1000, a little above 0.999, so that for n = 1000*m *)
(* the exact product is 999 * m + 992 * m / 2^53: ceil() goes one rank too *)
(* far, unless the product is rounded back down to the integer, for it is  *)
(* no more than half a unit in the last place above it (53 bits, the       *)
(* highest of value 2^e).  The quotients of the other three percentiles    *)
(* are exact or a little below, and every product that is not nearly an    *)
(* integer is far enough from one, up to 4 * 10^11 samples.                *)
(***************************************************************************)
HighestBit(k) == CHOOSE e \in 0 .. 52 : 2^e <= k /\ k < 2^(e + 1)
RoundedBackDown(m) == 992 * m <= 2^HighestBit(999 * m)
RankInDoubles(p, n) ==
  IF p = P999 /\ n % 1000 = 0 /\ ~RoundedBackDown(n \div 1000)
  THEN NearestRank(p, n) + 1
  ELSE NearestRank(p, n)

Smallest(S) == CHOOSE x \in S : \A y \in S : x <= y
Largest(S)  == CHOOSE x \in S : \A y \in S : y <= x

Cumulative(h, b) == SumFunctionOnSet(h.buckets, 0 .. b)

(* Mutant: the rank is not rounded up.                                     *)
TargetRoundedDown(h, p) == (p.num * h.total) \div p.den

TargetRank(h, p) == RankInDoubles(p, h.total)

(* compute_percentile *)
Percentile(h, p) ==
  LET target  == TargetRank(h, p)
      reached == {b \in Bucket : Cumulative(h, b) >= target}
  IN  IF h.total = 0 THEN 0
      ELSE IF reached # {} THEN Smallest(reached) * Width + Width \div 2
      ELSE Ceiling

NonEmpty(h) == {b \in Bucket : h.buckets[b] > 0}

(* the min_ns and max_ns of vis_histogram_compute *)
MinLatency(h) ==
  IF NonEmpty(h) # {} THEN Smallest(NonEmpty(h)) * Width
  ELSE IF h.overflow > 0 THEN Ceiling ELSE 0

(* Mutant: the maximum forgets the overflow.                               *)
MaxInRange(h) ==
  IF NonEmpty(h) # {} THEN Largest(NonEmpty(h)) * Width + Width ELSE 0

MaxLatency(h) ==
  IF h.overflow > 0 THEN Ceiling
  ELSE IF NonEmpty(h) # {} THEN Largest(NonEmpty(h)) * Width + Width ELSE 0

(* The percentiles vis_histogram_compute fills in; an empty histogram      *)
(* leaves the zeroed struct as it is.                                      *)
Summary(h) ==
  [min   |-> MinLatency(h),
   p50   |-> Percentile(h, P50),
   p99   |-> Percentile(h, P99),
   p999  |-> Percentile(h, P999),
   p9999 |-> Percentile(h, P9999),
   max   |-> MaxLatency(h)]

(* Mutant: the threshold itself fails.                                     *)
DeterminismBelow(h, threshold) == Percentile(h, P99) < threshold

(* determinism_pass *)
DeterminismPass(h, threshold) == Percentile(h, P99) <= threshold
=============================================================================
