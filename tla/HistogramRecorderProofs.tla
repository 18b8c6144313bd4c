----------------------- MODULE HistogramRecorderProofs -----------------------
(***************************************************************************)
(* What the histogram's summary says of the samples, for every size of the *)
(* histogram, every set of latencies and every sequence of samples.        *)
(***************************************************************************)
EXTENDS HistogramRecorder, HistogramProofs

(* Every latency has a bucket index that is an int.  Where one has not,    *)
(* samples are lost (module MCHistogram has a run that shows it).          *)
LatenciesFitInt == \A v \in Latencies : v \div Width <= IntMax

(* The samples up to the end of a bucket are those that the buckets up to  *)
(* it count.                                                               *)
UpToBucket(b) == {v \in Latencies : v \div Width <= b}
TooLong == {v \in Latencies : v >= Ceiling}

IInv ==
  /\ TypeOK
  /\ hist.total = Samples
  /\ \A b \in Bucket : Cumulative(hist, b) = SeenIn(UpToBucket(b))
  /\ LatenciesFitInt => hist.overflow = SeenIn(TooLong)

----------------------------------------------------------------------------
(* What the proofs need of the constants.                                  *)
LEMMA RecorderFacts ==
  /\ Latencies \in SUBSET Nat /\ IsFiniteSet(Latencies)
  /\ Batches \in SUBSET Nat /\ MaxRecords \in Nat
BY RecorderAssumption, SMT

(* vis_histogram_add, k times for one latency.                             *)
LEMMA AddRepeated ==
  ASSUME HistogramAssumption, NEW h \in HistogramType, NEW v \in Nat, NEW k \in Nat,
         NEW g, g = AddAll(h, [i \in 1 .. k |-> v])
  PROVE  /\ g \in HistogramType /\ g.total = h.total + k
         /\ \A b \in Bucket :
              g.buckets[b] = IF b = v \div Width THEN h.buckets[b] + k ELSE h.buckets[b]
         /\ g.overflow = IF v >= Ceiling /\ v \div Width <= IntMax
                         THEN h.overflow + k ELSE h.overflow
<1>. DEFINE s == [i \in 1 .. k |-> v]
<1>1. s \in Seq(Nat) /\ Len(s) = k /\ DOMAIN s = 1 .. k
  OBVIOUS
<1>2. g \in HistogramType /\ g.total = h.total + k
  BY <1>1, AddAllAdds
<1>3. Cardinality({}) = 0 /\ Cardinality(1 .. k) = k
  BY FS_EmptySet, FS_Interval
<1>4. v \div Width \in Nat /\ (v \div Width < Buckets <=> v < Ceiling)
  BY HistogramAssumption, DivisionBounds, DivisionCompares DEF Ceiling
<1>5. ASSUME NEW b \in Bucket
      PROVE  HitsOf(s, {b}) = IF b = v \div Width THEN k ELSE 0
  <2>1. BucketIndex(v) = b <=> b = v \div Width
    BY <1>4, HistogramAssumption DEF BucketIndex, Bucket
  <2>2. {i \in DOMAIN s : BucketIndex(s[i]) \in {b}} = IF b = v \div Width THEN 1 .. k ELSE {}
    BY <1>1, <2>1
  <2>. QED BY <1>3, <2>2 DEF HitsOf
<1>6. Cardinality({i \in DOMAIN s : BucketIndex(s[i]) >= Buckets}) =
        IF v >= Ceiling /\ v \div Width <= IntMax THEN k ELSE 0
  <2>1. BucketIndex(v) >= Buckets <=> v >= Ceiling /\ v \div Width <= IntMax
    <3>1. Ceiling \in Nat
      BY HistogramAssumption DEF Ceiling
    <3>. QED BY <1>4, <3>1, HistogramAssumption DEF BucketIndex
  <2>2. {i \in DOMAIN s : BucketIndex(s[i]) >= Buckets} =
          IF v >= Ceiling /\ v \div Width <= IntMax THEN 1 .. k ELSE {}
    BY <1>1, <2>1
  <2>. QED BY <1>3, <2>2
<1>7. ASSUME NEW b \in Bucket
      PROVE  g.buckets[b] = IF b = v \div Width THEN h.buckets[b] + k ELSE h.buckets[b]
  <2>1. g.buckets[b] = h.buckets[b] + HitsOf(s, {b})
    BY DEF AddAll
  <2>2. h.buckets[b] \in Nat
    BY DEF HistogramType
  <2>. QED BY <1>5, <2>1, <2>2
<1>8. g.overflow = IF v >= Ceiling /\ v \div Width <= IntMax
                   THEN h.overflow + k ELSE h.overflow
  <2>1. g.overflow = h.overflow + Cardinality({i \in DOMAIN s : BucketIndex(s[i]) >= Buckets})
    BY DEF AddAll
  <2>2. h.overflow \in Nat
    BY DEF HistogramType
  <2>. QED BY <1>6, <2>1, <2>2
<1>. QED BY <1>2, <1>7, <1>8

(* Of the samples of some latencies: their number, and how it grows.       *)
LEMMA SeenIsNat ==
  ASSUME TypeOK, NEW V \in SUBSET Latencies
  PROVE  IsFiniteSet(V) /\ SeenIn(V) \in Nat
<1>1. IsFiniteSet(V)
  BY RecorderFacts, FS_Subset
<1>2. \A v \in V : seen[v] \in Nat
  BY DEF TypeOK
<1>. QED BY <1>1, <1>2, SumIsNat DEF SeenIn

LEMMA SeenSplits ==
  ASSUME TypeOK, NEW V \in SUBSET Latencies, NEW W \in SUBSET V
  PROVE  SeenIn(V) = SeenIn(W) + SeenIn(V \ W) /\ SeenIn(W) <= SeenIn(V)
<1>1. IsFiniteSet(V)
  BY SeenIsNat
<1>2. \A v \in V : seen[v] \in Nat
  BY DEF TypeOK
<1>. QED BY <1>1, <1>2, SumSplits DEF SeenIn

LEMMA SamplesAreSeen ==
  TypeOK => Samples = SeenIn(Latencies)
BY DEF TypeOK, Samples, SumFunction, SeenIn

LEMMA SeenGrows ==
  ASSUME TypeOK, NEW v \in Latencies, NEW k \in Batches, Record(v, k),
         NEW V \in SUBSET Latencies
  PROVE  SeenIn(V)' = IF v \in V THEN SeenIn(V) + k ELSE SeenIn(V)
<1>1. IsFiniteSet(V) /\ k \in Nat
  BY SeenIsNat, RecorderFacts
<1>2. \A w \in V : seen[w] \in Nat
  BY DEF TypeOK
<1>3. \A w \in V : seen'[w] = IF w = v THEN seen[w] + k ELSE seen[w]
  BY DEF Record, TypeOK
<1>. QED BY <1>1, <1>2, <1>3, SumGrows DEF SeenIn

----------------------------------------------------------------------------
(* The invariant is established and kept.                                  *)
LEMMA InitHolds == Init => IInv
<1>. SUFFICES ASSUME Init PROVE IInv
  OBVIOUS
<1>1. TypeOK
  <2>1. hist \in HistogramType
    BY DEF Init, EmptyHistogram, HistogramType
  <2>2. seen \in [Latencies -> Nat] /\ records \in 0 .. MaxRecords
    BY RecorderFacts DEF Init
  <2>. QED BY <2>1, <2>2 DEF TypeOK
<1>2. \A V \in SUBSET Latencies : SeenIn(V) = 0
  <2>1. ASSUME NEW V \in SUBSET Latencies
        PROVE  SeenIn(V) = 0
    <3>1. IsFiniteSet(V)
      BY RecorderFacts, FS_Subset
    <3>2. \A v \in V : seen[v] = 0
      BY DEF Init
    <3>. QED BY <3>1, <3>2, SumOfZeros DEF SeenIn
  <2>. QED BY <2>1
<1>3. hist.total = 0 /\ hist.overflow = 0 /\ hist.buckets = [b \in Bucket |-> 0]
  BY DEF Init, EmptyHistogram
<1>4. ASSUME NEW b \in Bucket
      PROVE  Cumulative(hist, b) = 0
  <2>1. 0 .. b \in SUBSET Bucket /\ IsFiniteSet(0 .. b)
    BY <1>1, HistogramAssumption, CumulativeGrows, FS_Subset DEF TypeOK
  <2>2. \A c \in 0 .. b : hist.buckets[c] = 0
    BY <1>3, <2>1
  <2>. QED BY <2>1, <2>2, SumOfZeros DEF Cumulative
<1>5. /\ Latencies \in SUBSET Latencies /\ TooLong \in SUBSET Latencies
      /\ \A b \in Bucket : UpToBucket(b) \in SUBSET Latencies
  BY DEF TooLong, UpToBucket
<1>6. hist.total = Samples
  BY <1>1, <1>2, <1>3, <1>5, SamplesAreSeen
<1>7. hist.overflow = SeenIn(TooLong)
  BY <1>2, <1>3, <1>5
<1>8. \A b \in Bucket : Cumulative(hist, b) = SeenIn(UpToBucket(b))
  BY <1>2, <1>4, <1>5
<1>. QED BY <1>1, <1>6, <1>7, <1>8 DEF IInv

LEMMA RecordKeeps ==
  ASSUME IInv, NEW v \in Latencies, NEW k \in Batches, Record(v, k)
  PROVE  IInv'
<1>. USE DEF IInv
<1>1. v \in Nat /\ k \in Nat
  BY RecorderFacts
<1>2. hist \in HistogramType /\ hist' = AddAll(hist, [i \in 1 .. k |-> v])
  BY DEF TypeOK, Record
<1>3. /\ hist' \in HistogramType /\ hist'.total = hist.total + k
      /\ \A b \in Bucket : hist'.buckets[b] =
           IF b = v \div Width THEN hist.buckets[b] + k ELSE hist.buckets[b]
      /\ hist'.overflow = IF v >= Ceiling /\ v \div Width <= IntMax
                          THEN hist.overflow + k ELSE hist.overflow
  BY <1>1, <1>2, HistogramAssumption, AddRepeated
<1>4. TypeOK'
  <2>1. seen' \in [Latencies -> Nat]
    BY <1>1 DEF Record, TypeOK
  <2>2. records' \in 0 .. MaxRecords
    BY RecorderFacts DEF Record, TypeOK
  <2>. QED BY <1>3, <2>1, <2>2 DEF TypeOK
<1>5. hist'.total = Samples'
  <2>1. Samples' = SeenIn(Latencies)'
    BY <1>4 DEF TypeOK, Samples, SumFunction, SeenIn
  <2>2. SeenIn(Latencies)' = SeenIn(Latencies) + k
    BY SeenGrows
  <2>. QED BY <1>3, <2>1, <2>2, SamplesAreSeen
<1>6. ASSUME NEW b \in Bucket
      PROVE  Cumulative(hist', b) = SeenIn(UpToBucket(b))'
  <2>1. /\ 0 .. b \in SUBSET Bucket /\ IsFiniteSet(0 .. b)
        /\ \A c \in 0 .. b : hist.buckets[c] \in Nat
    BY <1>2, HistogramAssumption, CumulativeGrows, FS_Subset DEF HistogramType
  <2>2. Cumulative(hist', b) = IF v \div Width \in 0 .. b
                               THEN Cumulative(hist, b) + k ELSE Cumulative(hist, b)
    <3>1. \A c \in 0 .. b : hist'.buckets[c] =
            IF c = v \div Width THEN hist.buckets[c] + k ELSE hist.buckets[c]
      BY <1>3, <2>1
    <3>. DEFINE f == hist.buckets
                g == hist'.buckets
                x == v \div Width
                S == 0 .. b
    <3>2. /\ IsFiniteSet(S) /\ \A c \in S : f[c] \in Nat
          /\ \A c \in S : g[c] = IF c = x THEN f[c] + k ELSE f[c]
      BY <2>1, <3>1
    <3>. HIDE DEF f, g, x, S
    <3>3. SumFunctionOnSet(g, S) = IF x \in S THEN SumFunctionOnSet(f, S) + k
                                   ELSE SumFunctionOnSet(f, S)
      BY <1>1, <3>2, SumGrows
    <3>. QED BY <3>3 DEF Cumulative, f, g, x, S
  <2>3. SeenIn(UpToBucket(b))' = IF v \in UpToBucket(b) THEN SeenIn(UpToBucket(b)) + k
                                 ELSE SeenIn(UpToBucket(b))
    <3>1. UpToBucket(b) \in SUBSET Latencies
      BY DEF UpToBucket
    <3>. QED BY <3>1, SeenGrows
  <2>4. v \div Width \in 0 .. b <=> v \in UpToBucket(b)
    <3>1. v \div Width \in Nat /\ b \in Nat
      BY <1>1, HistogramAssumption, DivisionBounds DEF Bucket
    <3>. QED BY <3>1 DEF UpToBucket
  <2>. QED BY <2>2, <2>3, <2>4
<1>7. ASSUME LatenciesFitInt
      PROVE  hist'.overflow = SeenIn(TooLong)'
  <2>1. SeenIn(TooLong)' = IF v \in TooLong THEN SeenIn(TooLong) + k ELSE SeenIn(TooLong)
    <3>1. TooLong \in SUBSET Latencies
      BY DEF TooLong
    <3>. QED BY <3>1, SeenGrows
  <2>. QED BY <1>3, <1>7, <2>1 DEF LatenciesFitInt, TooLong
<1>8. LatenciesFitInt' = LatenciesFitInt
  BY DEF LatenciesFitInt
<1>. QED BY <1>4, <1>5, <1>6, <1>7, <1>8

LEMMA InvariantHolds == Spec => []IInv
<1>1. IInv /\ [Next]_vars => IInv'
  <2>1. IInv /\ UNCHANGED vars => IInv'
    BY DEF IInv, vars, TypeOK, Samples, SeenIn, LatenciesFitInt, UpToBucket, TooLong
  <2>. QED BY <2>1, RecordKeeps DEF Next
<1>. QED BY <1>1, InitHolds, PTL DEF Spec

(* The types are kept, and the histogram with them (vis_histogram_add).    *)
THEOREM RecorderTypeCorrect == Spec => []TypeOK
<1>1. IInv => TypeOK
  BY DEF IInv
<1>. QED BY <1>1, InvariantHolds, PTL

----------------------------------------------------------------------------
(* Buckets and overflow share out the samples.                             *)
LEMMA BucketsAndLatencies ==
  /\ Ceiling \in Nat /\ Buckets - 1 \in Bucket /\ 0 \in Bucket
  /\ \A b \in Bucket : b \in Nat /\ b < Buckets
  /\ \A b \in Bucket : UpToBucket(b) = {v \in Latencies : v < (b + 1) * Width}
  /\ Latencies \ UpToBucket(Buckets - 1) = TooLong
  /\ TooLong \in SUBSET Latencies
<1>. USE HistogramAssumption
<1>1. /\ Ceiling \in Nat /\ Buckets - 1 \in Bucket /\ 0 \in Bucket
      /\ \A b \in Bucket : b \in Nat /\ b < Buckets
  BY DEF Ceiling, Bucket
<1>2. ASSUME NEW b \in Bucket, NEW v \in Latencies
      PROVE  v \div Width <= b <=> v < (b + 1) * Width
  <2>1. v \in Nat /\ b + 1 \in Nat
    BY <1>1, RecorderFacts
  <2>2. v \div Width < b + 1 <=> v < (b + 1) * Width
    BY <2>1, DivisionCompares
  <2>3. v \div Width \in Nat
    BY <2>1, DivisionBounds
  <2>. QED BY <1>1, <2>2, <2>3
<1>3. \A b \in Bucket : UpToBucket(b) = {v \in Latencies : v < (b + 1) * Width}
  BY <1>2 DEF UpToBucket
<1>4. Latencies \ UpToBucket(Buckets - 1) = TooLong
  <2>1. (Buckets - 1) + 1 = Buckets
    OBVIOUS
  <2>2. UpToBucket(Buckets - 1) = {v \in Latencies : v < Ceiling}
    BY <1>1, <1>3, <2>1 DEF Ceiling
  <2>3. \A v \in Latencies : ~(v < Ceiling) <=> v >= Ceiling
    BY <1>1, RecorderFacts
  <2>. QED BY <2>2, <2>3 DEF TooLong
<1>. QED BY <1>1, <1>3, <1>4 DEF TooLong

LEMMA BucketsShareSamples ==
  ASSUME IInv
  PROVE  /\ SumFunction(hist.buckets) = SeenIn(UpToBucket(Buckets - 1))
         /\ Samples = SeenIn(UpToBucket(Buckets - 1)) + SeenIn(TooLong)
         /\ \A b \in Bucket : SeenIn(UpToBucket(b)) \in Nat
         /\ SeenIn(TooLong) \in Nat /\ Samples \in Nat
<1>1. TypeOK /\ hist.buckets \in [Bucket -> Nat]
  BY DEF IInv, TypeOK, HistogramType
<1>2. \A b \in Bucket : UpToBucket(b) \in SUBSET Latencies
  BY DEF UpToBucket
<1>3. SumFunction(hist.buckets) = Cumulative(hist, Buckets - 1)
  BY <1>1 DEF SumFunction, Cumulative, Bucket
<1>4. SumFunction(hist.buckets) = SeenIn(UpToBucket(Buckets - 1))
  BY <1>3, BucketsAndLatencies DEF IInv
<1>5. SeenIn(Latencies) =
        SeenIn(UpToBucket(Buckets - 1)) + SeenIn(Latencies \ UpToBucket(Buckets - 1))
  BY <1>1, <1>2, BucketsAndLatencies, SeenSplits
<1>. QED BY <1>1, <1>2, <1>4, <1>5, BucketsAndLatencies, SamplesAreSeen, SeenIsNat

(* If every latency has a bucket index that is an int, every sample is in  *)
(* one bucket or in the overflow (vis_histogram_add).                      *)
THEOREM NoSampleIsLost ==
  ASSUME LatenciesFitInt
  PROVE  Spec => []SamplesAccounted
<1>1. IInv => SamplesAccounted
  <2>. SUFFICES ASSUME IInv PROVE SamplesAccounted
    OBVIOUS
  <2>1. hist.total = Samples /\ hist.overflow = SeenIn(TooLong)
    BY DEF IInv
  <2>2. SumFunction(hist.buckets) + hist.overflow = hist.total
    BY <2>1, BucketsShareSamples
  <2>. QED BY <2>1, <2>2 DEF SamplesAccounted, TooLong
<1>. QED BY <1>1, InvariantHolds, PTL

----------------------------------------------------------------------------
(* The sample of a rank, found among the samples themselves.               *)
UpTo(v) == {w \in Latencies : w <= v}

LEMMA FiniteHasLargest ==
  ASSUME NEW S \in SUBSET Nat, IsFiniteSet(S), S # {}
  PROVE  \E m \in S : \A y \in S : y <= m
<1>. DEFINE G == {T \in SUBSET S : T # {} => \E m \in T : \A y \in T : y <= m}
<1>1. ASSUME NEW T \in SUBSET S, \A U \in SUBSET T : U # T => U \in G
      PROVE  T \in G
  <2>1. SUFFICES ASSUME NEW x \in T PROVE \E m \in T : \A y \in T : y <= m
    OBVIOUS
  <2>2. CASE T = {x}
    BY <2>2
  <2>3. CASE T # {x}
    <3>1. T \ {x} \in G /\ T \ {x} # {}
      BY <1>1, <2>1, <2>3
    <3>2. PICK m \in T \ {x} : \A y \in T \ {x} : y <= m
      BY <3>1
    <3>3. CASE x <= m
      BY <3>2, <3>3
    <3>4. CASE ~(x <= m)
      BY <3>2, <3>4
    <3>. QED BY <3>3, <3>4
  <2>. QED BY <2>2, <2>3
<1>. HIDE DEF G
<1>2. S \in G
  BY <1>1, SubsetInduction
<1>. QED BY <1>2 DEF G

LEMMA SampleHasRank ==
  ASSUME IInv, NEW r \in 1 .. Samples
  PROVE  /\ SampleOfRank(r) \in Latencies
         /\ SeenIn(UpTo(SampleOfRank(r))) >= r
         /\ \A V \in SUBSET Latencies :
              SeenIn(V) >= r => \E v \in V : SampleOfRank(r) <= v
<1>. DEFINE Reaching == {v \in Latencies : SeenIn(UpTo(v)) >= r}
<1>1. TypeOK
  BY DEF IInv
<1>2. /\ SampleOfRank(r) = Smallest(Reaching)
      /\ \A v \in Latencies : UpTo(v) \in SUBSET Latencies
  BY DEF SampleOfRank, UpTo
<1>3. ASSUME NEW V \in SUBSET Latencies, SeenIn(V) >= r
      PROVE  \E v \in V : v \in Reaching
  <2>1. V # {}
    <3>1. SeenIn({}) = 0
      BY SumOfEmpty DEF SeenIn
    <3>2. r \in Nat /\ r > 0
      BY BucketsShareSamples
    <3>3. ~(SeenIn({}) >= r)
      BY <3>1, <3>2
    <3>. QED BY <1>3, <3>3
  <2>2. IsFiniteSet(V) /\ V \in SUBSET Nat
    BY <1>1, RecorderFacts, SeenIsNat
  <2>3. PICK m \in V : \A y \in V : y <= m
    BY <2>1, <2>2, FiniteHasLargest
  <2>4. V \in SUBSET UpTo(m) /\ UpTo(m) \in SUBSET Latencies
    BY <2>3 DEF UpTo
  <2>5. SeenIn(V) <= SeenIn(UpTo(m))
    BY <1>1, <2>4, SeenSplits
  <2>6. SeenIn(V) \in Nat /\ SeenIn(UpTo(m)) \in Nat /\ r \in Nat
    BY <1>1, <2>4, SeenIsNat, BucketsShareSamples
  <2>7. SeenIn(UpTo(m)) >= r
    BY <1>3, <2>5, <2>6
  <2>. QED BY <2>7
<1>4. Reaching # {}
  <2>1. SeenIn(Latencies) >= r
    BY <1>1, SamplesAreSeen, BucketsShareSamples
  <2>. QED BY <1>3, <2>1
<1>5. Reaching \in SUBSET Nat
  BY RecorderFacts
<1>6. Smallest(Reaching) \in Reaching /\ \A v \in Reaching : Smallest(Reaching) <= v
  BY <1>4, <1>5, SmallestIsMinimum
<1>. QED BY <1>2, <1>3, <1>6

(* The bucket that reaches a rank holds the sample of that rank.           *)
LEMMA BucketStandsFor ==
  ASSUME IInv, NEW r \in 1 .. Samples, NEW m, PercentileBucket(hist, r, m)
  PROVE  StandsFor(m, SampleOfRank(r))
<1>. DEFINE x == SampleOfRank(r)
<1>1. TypeOK /\ \A b \in Bucket : Cumulative(hist, b) = SeenIn(UpToBucket(b))
  BY DEF IInv
<1>2. x \in Latencies /\ x \in Nat /\ r \in Nat /\ SeenIn(UpTo(x)) >= r
  <2>1. r \in Nat
    BY BucketsShareSamples
  <2>2. x \in Latencies /\ SeenIn(UpTo(x)) >= r
    BY SampleHasRank
  <2>3. x \in Nat
    BY <2>2, RecorderFacts
  <2>. QED BY <2>1, <2>2, <2>3
<1>3. \A V \in SUBSET Latencies : SeenIn(V) >= r => \E v \in V : x <= v
  BY SampleHasRank
<1>. HIDE DEF x
<1>4. ASSUME NEW b \in Bucket, x < (b + 1) * Width
      PROVE  Cumulative(hist, b) >= r
  <2>1. UpTo(x) \in SUBSET UpToBucket(b) /\ UpToBucket(b) \in SUBSET Latencies
    <3>1. UpToBucket(b) = {v \in Latencies : v < (b + 1) * Width}
      BY BucketsAndLatencies
    <3>2. (b + 1) * Width \in Nat
      BY BucketsAndLatencies, HistogramAssumption
    <3>3. \A v \in Latencies : v <= x => v < (b + 1) * Width
      BY <1>2, <1>4, <3>2, RecorderFacts
    <3>. QED BY <3>1, <3>3 DEF UpTo
  <2>2. SeenIn(UpTo(x)) <= SeenIn(UpToBucket(b))
    BY <1>1, <2>1, SeenSplits
  <2>3. SeenIn(UpTo(x)) \in Nat /\ SeenIn(UpToBucket(b)) \in Nat
    BY <1>1, <2>1, SeenIsNat
  <2>. QED BY <1>1, <1>2, <2>2, <2>3
<1>5. Width \in Nat \ {0} /\ Width \div 2 \in Nat /\ Width \div 2 < Width
  BY HistogramAssumption
<1>6. ASSUME NEW b \in Bucket, m = b * Width + Width \div 2, Cumulative(hist, b) >= r,
             \A c \in Bucket : c < b => Cumulative(hist, c) < r
      PROVE  StandsFor(m, x)
  <2>1. b \in Nat /\ b + 1 <= Buckets
    BY BucketsAndLatencies, HistogramAssumption
  <2>2. x < (b + 1) * Width
    <3>1. PICK v \in UpToBucket(b) : x <= v
      BY <1>1, <1>3, <1>6 DEF UpToBucket
    <3>2. v \in Nat /\ v < (b + 1) * Width
      BY <3>1, BucketsAndLatencies, RecorderFacts
    <3>. QED BY <1>2, <1>5, <2>1, <3>1, <3>2
  <2>3. b * Width <= x
    <3>1. CASE b = 0
      BY <1>2, <1>5, <3>1
    <3>2. CASE b > 0
      <4>1. b - 1 \in Bucket /\ (b - 1) + 1 = b
        BY <2>1, <3>2, HistogramAssumption DEF Bucket
      <4>2. Cumulative(hist, b - 1) < r /\ Cumulative(hist, b - 1) \in Nat
        BY <1>1, <1>6, <2>1, <4>1, BucketsShareSamples
      <4>3. ~(x < b * Width)
        BY <1>2, <1>4, <4>1, <4>2
      <4>. QED BY <1>2, <1>5, <2>1, <4>3
    <3>. QED BY <2>1, <3>1, <3>2
  <2>. DEFINE e == b * Width
  <2>4. e \in Nat /\ (b + 1) * Width = e + Width
    BY <1>5, <2>1
  <2>5. e + Width <= Ceiling
    <3>1. (b + 1) * Width <= Buckets * Width
      BY <1>5, <2>1, HistogramAssumption
    <3>. QED BY <2>4, <3>1 DEF Ceiling
  <2>. HIDE DEF e
  <2>6. m = e + Width \div 2 /\ e <= x /\ x < e + Width
    BY <1>6, <2>2, <2>3, <2>4 DEF e
  <2>. QED BY <1>2, <1>5, <2>4, <2>5, <2>6, BucketsAndLatencies DEF StandsFor
<1>7. ASSUME m = Ceiling, \A b \in Bucket : Cumulative(hist, b) < r
      PROVE  StandsFor(m, x)
  <2>1. Buckets - 1 \in Bucket /\ (Buckets - 1) + 1 = Buckets
    BY BucketsAndLatencies, HistogramAssumption
  <2>2. Cumulative(hist, Buckets - 1) < r /\ Cumulative(hist, Buckets - 1) \in Nat
    BY <1>1, <1>7, <2>1, BucketsShareSamples
  <2>3. ~(x < Ceiling)
    BY <1>2, <1>4, <2>1, <2>2 DEF Ceiling
  <2>. QED BY <1>2, <1>7, <2>3, BucketsAndLatencies DEF StandsFor
<1>. QED BY <1>6, <1>7 DEF PercentileBucket, x

----------------------------------------------------------------------------
(* The bucket reported for p is that of the sample whose rank doubles give *)
(* (compute_percentile).                                                   *)
LEMMA PercentileReports ==
  ASSUME IInv, Samples > 0, NEW p \in {P50, P99, P999, P9999}
  PROVE  /\ RankInDoubles(p, Samples) \in 1 .. Samples
         /\ PercentileBucket(hist, RankInDoubles(p, Samples), Percentile(hist, p))
         /\ Reports(p, RankInDoubles(p, Samples))
<1>1. Samples \in Nat \ {0} /\ hist.total = Samples /\ hist \in HistogramType
  BY BucketsShareSamples DEF IInv, TypeOK
<1>2. RankInDoubles(p, Samples) \in 1 .. Samples
  BY <1>1, RanksInOrder
<1>3. RankInDoubles(p, Samples) \in Nat /\ hist.total # 0
  BY <1>1, <1>2
<1>4. PercentileBucket(hist, RankInDoubles(p, Samples), Percentile(hist, p))
  BY <1>1, <1>3, HistogramAssumption, PercentileIsOfBucket
<1>5. StandsFor(Percentile(hist, p), SampleOfRank(RankInDoubles(p, Samples)))
  BY <1>2, <1>4, BucketStandsFor
<1>. QED BY <1>2, <1>4, <1>5 DEF Reports

(* Each percentile is, to a bucket, the sample of nearest rank, and P99.9  *)
(* of a multiple of 1000 samples may be the one of the next rank; up to    *)
(* the 4 * 10^11 samples of RecorderAssumption (compute_percentile).       *)
THEOREM PercentilesNearestRank == Spec => []PercentilesAreNearestRank
<1>1. ASSUME IInv, Samples > 0
      PROVE  /\ \A p \in {P50, P99, P9999} : Reports(p, NearestRank(p, Samples))
             /\ \/ Reports(P999, NearestRank(P999, Samples))
                \/ Samples % 1000 = 0 /\ Reports(P999, NearestRank(P999, Samples) + 1)
  <2>1. P50 # P999 /\ P99 # P999 /\ P9999 # P999
    BY DEF P50, P99, P999, P9999
  <2>2. \A p \in {P50, P99, P9999} : RankInDoubles(p, Samples) = NearestRank(p, Samples)
    BY <2>1 DEF RankInDoubles
  <2>3. \/ RankInDoubles(P999, Samples) = NearestRank(P999, Samples)
        \/ /\ Samples % 1000 = 0
           /\ RankInDoubles(P999, Samples) = NearestRank(P999, Samples) + 1
    BY DEF RankInDoubles
  <2>4. \A p \in {P50, P99, P999, P9999} : Reports(p, RankInDoubles(p, Samples))
    BY <1>1, PercentileReports
  <2>. QED BY <2>2, <2>3, <2>4
<1>2. IInv => PercentilesAreNearestRank
  BY <1>1 DEF PercentilesAreNearestRank
<1>. QED BY <1>2, InvariantHolds, PTL

----------------------------------------------------------------------------
(* A threshold inside the range: what passes, and what fails.              *)
LEMMA CountsAbove ==
  ASSUME IInv, NEW b \in Bucket, NEW e \in Int, e >= (b + 1) * Width
  PROVE  SeenIn(Latencies \ Below(e)) <= Samples - Cumulative(hist, b)
<1>. DEFINE V == Latencies \ UpToBucket(b)
            A == Latencies \ Below(e)
<1>1. TypeOK /\ Cumulative(hist, b) = SeenIn(UpToBucket(b))
  BY DEF IInv
<1>2. A \in SUBSET V /\ V \in SUBSET Latencies /\ UpToBucket(b) \in SUBSET Latencies
  <2>1. (b + 1) * Width \in Nat
    BY BucketsAndLatencies, HistogramAssumption
  <2>2. \A v \in Latencies : v < (b + 1) * Width => v < e
    BY <2>1, RecorderFacts
  <2>. QED BY <2>2, BucketsAndLatencies DEF Below, UpToBucket
<1>3. SeenIn(Latencies) = SeenIn(UpToBucket(b)) + SeenIn(V)
  BY <1>1, <1>2, SeenSplits
<1>4. SeenIn(A) <= SeenIn(V)
  BY <1>1, <1>2, SeenSplits
<1>5. /\ SeenIn(A) \in Nat /\ SeenIn(V) \in Nat /\ SeenIn(UpToBucket(b)) \in Nat
      /\ Samples = SeenIn(Latencies)
  BY <1>1, <1>2, SeenIsNat, SamplesAreSeen
<1>. QED BY <1>1, <1>3, <1>4, <1>5

LEMMA CountsFrom ==
  ASSUME IInv, NEW b \in Bucket, NEW e \in Int, e <= (b + 1) * Width
  PROVE  SeenIn(Latencies \ Below(e)) >= Samples - Cumulative(hist, b)
<1>. DEFINE V == Latencies \ UpToBucket(b)
            A == Latencies \ Below(e)
<1>1. TypeOK /\ Cumulative(hist, b) = SeenIn(UpToBucket(b))
  BY DEF IInv
<1>2. V \in SUBSET A /\ A \in SUBSET Latencies /\ UpToBucket(b) \in SUBSET Latencies
  <2>1. (b + 1) * Width \in Nat
    BY BucketsAndLatencies, HistogramAssumption
  <2>2. \A v \in Latencies : v < e => v < (b + 1) * Width
    BY <2>1, RecorderFacts
  <2>. QED BY <2>2, BucketsAndLatencies DEF Below, UpToBucket
<1>3. SeenIn(Latencies) = SeenIn(UpToBucket(b)) + SeenIn(V)
  BY <1>1, <1>2, SeenSplits
<1>4. SeenIn(V) <= SeenIn(A)
  BY <1>1, <1>2, SeenSplits
<1>5. /\ SeenIn(A) \in Nat /\ SeenIn(V) \in Nat /\ SeenIn(UpToBucket(b)) \in Nat
      /\ Samples = SeenIn(Latencies)
  BY <1>1, <1>2, SeenIsNat, SamplesAreSeen
<1>. QED BY <1>1, <1>3, <1>4, <1>5

THEOREM VerdictsAreSound == Spec => []VerdictIsSound
<1>1. ASSUME IInv, NEW t \in Thresholds, Samples > 0, t < Ceiling
      PROVE  IF DeterminismPass(hist, t)
             THEN 100 * SeenIn(Latencies \ Below(t + Width - Width \div 2)) <= Samples
             ELSE 100 * SeenIn(Latencies \ Below(t - Width \div 2 + 1)) > Samples
  <2>. DEFINE n == Samples
              target == RankInDoubles(P99, n)
              m == Percentile(hist, P99)
              half == Width \div 2
  <2>1. /\ n \in Nat \ {0} /\ Width \in Nat \ {0} /\ half \in Nat /\ half < Width
        /\ Ceiling \in Nat /\ t \in Nat
    BY <1>1, BucketsShareSamples, HistogramAssumption, BucketsAndLatencies,
       RecorderAssumption, SMT
  <2>2. PercentileBucket(hist, target, m) /\ target \in 1 .. n
    BY <1>1, PercentileReports
  <2>3. 99 * n <= 100 * target /\ 100 * target <= 99 * n + 99
    BY <2>1, RankOf99
  <2>4. \A b \in Bucket : Cumulative(hist, b) \in Nat
    BY <1>1, BucketsShareSamples DEF IInv
  <2>5. \A e \in Int : SeenIn(Latencies \ Below(e)) \in Nat
    BY <1>1, SeenIsNat DEF IInv
  <2>6. DeterminismPass(hist, t) <=> m <= t
    BY DEF DeterminismPass
  <2>. HIDE DEF target, m, half, n
  <2>7. CASE m <= t
    <3>1. PICK b \in Bucket : m = b * Width + half /\ Cumulative(hist, b) >= target
      BY <1>1, <2>1, <2>2, <2>7 DEF PercentileBucket, half
    <3>2. b * Width \in Nat /\ (b + 1) * Width = b * Width + Width
      BY <2>1, BucketsAndLatencies
    <3>. DEFINE e == t + Width - half
    <3>3. e \in Int /\ e >= (b + 1) * Width
      BY <2>1, <2>7, <3>1, <3>2
    <3>. HIDE DEF e
    <3>4. SeenIn(Latencies \ Below(e)) <= n - Cumulative(hist, b)
      BY <1>1, <3>3, CountsAbove DEF n
    <3>5. 100 * SeenIn(Latencies \ Below(e)) <= n
      BY <2>1, <2>2, <2>3, <2>4, <2>5, <3>1, <3>3, <3>4
    <3>. QED BY <2>6, <2>7, <3>5 DEF e, half, n
  <2>8. CASE ~(m <= t)
    <3>. DEFINE e == t - half + 1
    <3>1. e \in Int
      BY <2>1
    <3>2. SeenIn(Latencies \ Below(e)) >= n - (target - 1)
      <4>1. CASE m = Ceiling /\ \A b \in Bucket : Cumulative(hist, b) < target
        <5>1. Buckets - 1 \in Bucket /\ (Buckets - 1) + 1 = Buckets
          BY BucketsAndLatencies, HistogramAssumption
        <5>2. e <= ((Buckets - 1) + 1) * Width
          BY <1>1, <2>1, <5>1 DEF Ceiling
        <5>3. SeenIn(Latencies \ Below(e)) >= n - Cumulative(hist, Buckets - 1)
          BY <1>1, <3>1, <5>1, <5>2, CountsFrom DEF n
        <5>. QED BY <2>1, <2>2, <2>4, <2>5, <3>1, <4>1, <5>1, <5>3
      <4>2. ASSUME NEW b \in Bucket, m = b * Width + half,
                   \A c \in Bucket : c < b => Cumulative(hist, c) < target
            PROVE  SeenIn(Latencies \ Below(e)) >= n - (target - 1)
        <5>1. b \in Nat /\ b * Width \in Nat /\ e <= b * Width
          BY <2>1, <2>8, <4>2, BucketsAndLatencies
        <5>2. CASE b > 0
          <6>1. b - 1 \in Bucket /\ (b - 1) + 1 = b /\ b - 1 < b
            BY <5>1, <5>2, HistogramAssumption DEF Bucket
          <6>2. SeenIn(Latencies \ Below(e)) >= n - Cumulative(hist, b - 1)
            BY <1>1, <3>1, <5>1, <6>1, CountsFrom DEF n
          <6>. QED BY <2>1, <2>2, <2>4, <2>5, <3>1, <4>2, <6>1, <6>2
        <5>3. CASE b = 0
          <6>1. e <= 0
            BY <2>1, <5>1, <5>3
          <6>2. Latencies \ Below(e) = Latencies
            <7>. HIDE DEF e
            <7>1. \A v \in Latencies : ~(v < e)
              BY <3>1, <6>1, RecorderFacts
            <7>. QED BY <7>1 DEF Below
          <6>3. SeenIn(Latencies \ Below(e)) = n
            BY <1>1, <6>2, SamplesAreSeen DEF n, IInv
          <6>. QED BY <2>1, <2>2, <6>3
        <5>. QED BY <5>1, <5>2, <5>3
      <4>. QED BY <2>2, <4>1, <4>2 DEF PercentileBucket, half
    <3>3. SeenIn(Latencies \ Below(e)) \in Nat
      BY <2>5, <3>1
    <3>. HIDE DEF e
    <3>4. 100 * SeenIn(Latencies \ Below(e)) > n
      BY <2>1, <2>2, <2>3, <3>2, <3>3
    <3>. QED BY <2>6, <2>8, <3>4 DEF e, half, n
  <2>. QED BY <2>7, <2>8
<1>2. IInv => VerdictIsSound
  BY <1>1 DEF VerdictIsSound
<1>. QED BY <1>2, InvariantHolds, PTL

----------------------------------------------------------------------------
(* The summary of no samples is all zeros.                                 *)
LEMMA EmptySummary ==
  ASSUME IInv, LatenciesFitInt, Samples = 0
  PROVE  SummaryIsOrdered
<1>1. hist.total = 0 /\ hist \in HistogramType
  BY DEF IInv, TypeOK
<1>2. SeenIn(TooLong) = 0 /\ SumFunction(hist.buckets) = 0
  BY BucketsShareSamples, BucketsAndLatencies
<1>3. hist.overflow = 0
  BY <1>2 DEF IInv
<1>4. NonEmpty(hist) = {}
  <2>1. ASSUME NEW b \in Bucket
        PROVE  hist.buckets[b] = 0
    <3>1. hist.buckets \in [Bucket -> Nat]
      BY <1>1 DEF HistogramType
    <3>2. IsFiniteSet(Bucket) /\ SumFunctionOnSet(hist.buckets, Bucket) = 0
      BY <1>1, <1>2, <3>1, HistogramAssumption, CumulativeGrows DEF SumFunction
    <3>3. SumFunctionOnSet(hist.buckets, Bucket) =
            hist.buckets[b] + SumFunctionOnSet(hist.buckets, Bucket \ {b})
      BY <3>1, <3>2, SumRemoves
    <3>4. SumFunctionOnSet(hist.buckets, Bucket \ {b}) \in Nat /\ hist.buckets[b] \in Nat
      BY <1>1, <3>1, HistogramAssumption, CumulativeGrows
    <3>. QED BY <3>2, <3>3, <3>4
  <2>. QED BY <2>1 DEF NonEmpty
<1>5. MinLatency(hist) = 0 /\ MaxLatency(hist) = 0
  BY <1>3, <1>4 DEF MinLatency, MaxLatency
<1>6. \A p : Percentile(hist, p) = 0
  BY <1>1, Zenon DEF Percentile, TargetRank
<1>7. Summary(hist) = [min |-> 0, p50 |-> 0, p99 |-> 0, p999 |-> 0, p9999 |-> 0, max |-> 0]
  BY <1>5, <1>6 DEF Summary
<1>8. SeenIn(Below(0)) = 0
  <2>1. \A v \in Latencies : ~(v < 0)
    BY RecorderFacts
  <2>2. Below(0) = {}
    BY <2>1 DEF Below
  <2>. QED BY <2>2, SumOfEmpty DEF SeenIn
<1>. QED BY <1>7, <1>8 DEF SummaryIsOrdered

(* The buckets below the first nonempty one and above the last count       *)
(* nothing.                                                                *)
LEMMA EdgeBuckets ==
  ASSUME IInv, NonEmpty(hist) # {}
  PROVE  /\ Smallest(NonEmpty(hist)) \in Bucket /\ Largest(NonEmpty(hist)) \in Bucket
         /\ \A b \in Bucket : b < Smallest(NonEmpty(hist)) => Cumulative(hist, b) = 0
         /\ Cumulative(hist, Largest(NonEmpty(hist))) = Cumulative(hist, Buckets - 1)
<1>. DEFINE lo == Smallest(NonEmpty(hist))
            hi == Largest(NonEmpty(hist))
<1>1. hist \in HistogramType /\ hist.buckets \in [Bucket -> Nat]
  BY DEF IInv, TypeOK, HistogramType
<1>2. NonEmpty(hist) \in SUBSET Nat /\ NonEmpty(hist) \in SUBSET (0 .. Buckets - 1)
  BY DEF NonEmpty, Bucket
<1>3. lo \in NonEmpty(hist) /\ \A b \in NonEmpty(hist) : lo <= b
  BY <1>2, SmallestIsMinimum
<1>4. hi \in NonEmpty(hist) /\ \A b \in NonEmpty(hist) : b <= hi
  <2>1. Buckets - 1 \in Nat
    BY HistogramAssumption
  <2>. QED BY <1>2, <2>1, LargestIsMaximum
<1>5. lo \in Bucket /\ hi \in Bucket
  BY <1>3, <1>4 DEF NonEmpty
<1>. HIDE DEF lo, hi
<1>6. \A b \in Bucket : b < lo \/ b > hi => hist.buckets[b] = 0
  <2>1. ASSUME NEW b \in Bucket, b < lo \/ b > hi
        PROVE  hist.buckets[b] = 0
    <3>1. b \notin NonEmpty(hist)
      BY <1>3, <1>4, <1>5, <2>1, BucketsAndLatencies
    <3>2. hist.buckets[b] \in Nat
      BY <1>1
    <3>. QED BY <3>1, <3>2 DEF NonEmpty
  <2>. QED BY <2>1
<1>7. ASSUME NEW b \in Bucket, b < lo
      PROVE  Cumulative(hist, b) = 0
  <2>1. 0 .. b \in SUBSET Bucket /\ IsFiniteSet(0 .. b)
    BY <1>1, HistogramAssumption, CumulativeGrows, FS_Subset
  <2>2. \A c \in 0 .. b : hist.buckets[c] = 0
    BY <1>5, <1>6, <1>7, <2>1, BucketsAndLatencies
  <2>. QED BY <2>1, <2>2, SumOfZeros DEF Cumulative
<1>8. Cumulative(hist, hi) = Cumulative(hist, Buckets - 1)
  <2>1. /\ IsFiniteSet(Bucket) /\ 0 .. hi \in SUBSET Bucket
        /\ SumFunctionOnSet(hist.buckets, 0 .. hi) \in Nat
    BY <1>1, <1>5, HistogramAssumption, CumulativeGrows
  <2>2. \A c \in Bucket \ (0 .. hi) : hist.buckets[c] = 0
    BY <1>5, <1>6, BucketsAndLatencies
  <2>3. SumFunctionOnSet(hist.buckets, Bucket \ (0 .. hi)) = 0
    BY <2>1, <2>2, FS_Subset, SumOfZeros
  <2>4. SumFunctionOnSet(hist.buckets, Bucket) =
          SumFunctionOnSet(hist.buckets, 0 .. hi)
            + SumFunctionOnSet(hist.buckets, Bucket \ (0 .. hi))
    BY <1>1, <2>1, SumSplits
  <2>. QED BY <2>1, <2>3, <2>4 DEF Cumulative, Bucket
<1>. QED BY <1>5, <1>7, <1>8 DEF lo, hi

LEMMA NoBuckets ==
  ASSUME IInv, NonEmpty(hist) = {}
  PROVE  \A b \in Bucket : Cumulative(hist, b) = 0
<1>1. SUFFICES ASSUME NEW b \in Bucket PROVE Cumulative(hist, b) = 0
  OBVIOUS
<1>2. hist \in HistogramType /\ hist.buckets \in [Bucket -> Nat]
  BY DEF IInv, TypeOK, HistogramType
<1>3. 0 .. b \in SUBSET Bucket /\ IsFiniteSet(0 .. b)
  BY <1>2, HistogramAssumption, CumulativeGrows, FS_Subset
<1>4. \A c \in Bucket : hist.buckets[c] \in Nat /\ ~(hist.buckets[c] > 0)
  BY <1>2 DEF NonEmpty
<1>5. \A c \in 0 .. b : hist.buckets[c] = 0
  BY <1>3, <1>4
<1>. QED BY <1>3, <1>5, SumOfZeros DEF Cumulative

(* Midpoints and edges of buckets are in the order of the buckets.         *)
LEMMA BucketEdges ==
  ASSUME NEW b \in Bucket
  PROVE  /\ b * Width \in Nat /\ (b + 1) * Width = b * Width + Width
         /\ b * Width + Width <= Ceiling /\ Ceiling \in Nat
         /\ Width \in Nat /\ Width \div 2 \in Nat /\ Width \div 2 <= Width
         /\ \A c \in Bucket : c <= b => c * Width <= b * Width /\ c * Width \in Nat
<1>1. b \in Nat /\ Width \in Nat \ {0} /\ Ceiling \in Nat
  BY BucketsAndLatencies, HistogramAssumption
<1>2. b * Width \in Nat /\ (b + 1) * Width = b * Width + Width
  BY <1>1
<1>3. b * Width + Width <= Ceiling
  BY HistogramAssumption, EdgesInRange, <1>1
<1>4. \A c \in Bucket : c <= b => c * Width <= b * Width /\ c * Width \in Nat
  <2>1. ASSUME NEW c \in Bucket, c <= b
        PROVE  c * Width <= b * Width /\ c * Width \in Nat
    <3>1. c \in Nat
      BY BucketsAndLatencies
    <3>. QED BY <1>1, <2>1, <3>1
  <2>. QED BY <2>1
<1>. QED BY <1>1, <1>2, <1>3, <1>4

LEMMA PercentilesInOrder ==
  ASSUME IInv, NEW t \in Nat, NEW u \in Nat, t <= u, NEW m, NEW k,
         PercentileBucket(hist, t, m), PercentileBucket(hist, u, k)
  PROVE  m <= k
<1>1. \A b \in Bucket : Cumulative(hist, b) \in Nat
  BY BucketsShareSamples DEF IInv
<1>2. ASSUME NEW c \in Bucket, k = c * Width + Width \div 2, Cumulative(hist, c) >= u
      PROVE  m <= k
  <2>1. ~(Cumulative(hist, c) < t)
    BY <1>1, <1>2
  <2>2. PICK b \in Bucket : /\ m = b * Width + Width \div 2
                            /\ \A d \in Bucket : d < b => Cumulative(hist, d) < t
    BY <2>1 DEF PercentileBucket
  <2>3. b <= c
    BY <2>1, <2>2, BucketsAndLatencies
  <2>4. b * Width <= c * Width /\ b * Width \in Nat /\ c * Width \in Nat
    BY <2>3, BucketEdges
  <2>. QED BY <1>2, <2>2, <2>4, BucketEdges
<1>3. ASSUME k = Ceiling
      PROVE  m <= k
  <2>1. CASE m = Ceiling
    BY <1>3, <2>1, BucketsAndLatencies
  <2>2. ASSUME NEW b \in Bucket, m = b * Width + Width \div 2
        PROVE  m <= k
    BY <1>3, <2>2, BucketEdges
  <2>. QED BY <2>1, <2>2 DEF PercentileBucket
<1>. QED BY <1>2, <1>3 DEF PercentileBucket

(* The least and the greatest figure bracket every percentile, and the     *)
(* samples (min_ns and max_ns of vis_histogram_compute).                   *)
LEMMA MinBrackets ==
  ASSUME IInv, NEW t \in Nat \ {0}, NEW m, PercentileBucket(hist, t, m)
  PROVE  MinLatency(hist) <= m /\ SeenIn(Below(MinLatency(hist))) = 0
<1>. DEFINE lo == Smallest(NonEmpty(hist))
<1>1. \A b \in Bucket : Cumulative(hist, b) = SeenIn(UpToBucket(b))
  BY DEF IInv
<1>2. SeenIn(Below(0)) = 0
  <2>1. \A v \in Latencies : ~(v < 0)
    BY RecorderFacts
  <2>2. Below(0) = {}
    BY <2>1 DEF Below
  <2>. QED BY <2>2, SumOfEmpty DEF SeenIn
<1>3. \A b \in Bucket : Below((b + 1) * Width) = UpToBucket(b)
  BY BucketsAndLatencies DEF Below
<1>4. \A b \in Bucket : m = b * Width + Width \div 2 => m \in Nat /\ b * Width <= m
  BY BucketEdges
<1>5. m \in Nat
  BY <1>4, BucketsAndLatencies DEF PercentileBucket
<1>6. CASE NonEmpty(hist) # {}
  <2>1. MinLatency(hist) = lo * Width
    BY <1>6 DEF MinLatency
  <2>2. lo \in Bucket /\ \A b \in Bucket : b < lo => Cumulative(hist, b) = 0
    BY <1>6, EdgeBuckets
  <2>. HIDE DEF lo
  <2>3. lo * Width <= m
    <3>1. CASE m = Ceiling
      BY <2>2, <3>1, BucketEdges
    <3>2. ASSUME NEW b \in Bucket, m = b * Width + Width \div 2, Cumulative(hist, b) >= t
          PROVE  lo * Width <= m
      <4>1. ~(b < lo)
        BY <2>2, <3>2
      <4>2. lo <= b
        BY <2>2, <4>1, BucketsAndLatencies
      <4>. QED BY <2>2, <3>2, <4>2, BucketEdges
    <3>. QED BY <3>1, <3>2 DEF PercentileBucket
  <2>4. SeenIn(Below(lo * Width)) = 0
    <3>1. CASE lo = 0
      <4>1. lo * Width = 0
        BY <3>1, HistogramAssumption
      <4>. QED BY <1>2, <4>1
    <3>2. CASE lo # 0
      <4>1. lo - 1 \in Bucket /\ (lo - 1) + 1 = lo /\ lo - 1 < lo
        BY <2>2, <3>2, HistogramAssumption DEF Bucket
      <4>2. Below(lo * Width) = UpToBucket(lo - 1)
        BY <1>3, <4>1
      <4>. QED BY <1>1, <2>2, <4>1, <4>2
    <3>. QED BY <3>1, <3>2
  <2>. QED BY <2>1, <2>3, <2>4
<1>7. CASE NonEmpty(hist) = {}
  <2>1. \A b \in Bucket : Cumulative(hist, b) = 0
    BY <1>7, NoBuckets
  <2>2. m = Ceiling
    BY <2>1 DEF PercentileBucket
  <2>3. SeenIn(Below(Ceiling)) = 0
    <3>1. Buckets - 1 \in Bucket /\ ((Buckets - 1) + 1) * Width = Ceiling
      BY BucketsAndLatencies, HistogramAssumption DEF Ceiling
    <3>. QED BY <1>1, <1>3, <2>1, <3>1
  <2>4. MinLatency(hist) \in {0, Ceiling}
    BY <1>7 DEF MinLatency
  <2>. QED BY <1>2, <2>2, <2>3, <2>4, BucketsAndLatencies
<1>. QED BY <1>6, <1>7

LEMMA MaxBrackets ==
  ASSUME IInv, LatenciesFitInt, NEW t \in 1 .. Samples, NEW m,
         PercentileBucket(hist, t, m)
  PROVE  /\ m <= MaxLatency(hist)
         /\ \/ MaxLatency(hist) = Ceiling
            \/ SeenIn(Latencies \ Below(MaxLatency(hist))) = 0
<1>. DEFINE hi == Largest(NonEmpty(hist))
<1>1. /\ TypeOK /\ hist.overflow = SeenIn(TooLong) /\ hist.overflow \in Nat
      /\ Cumulative(hist, Buckets - 1) = SeenIn(UpToBucket(Buckets - 1))
      /\ \A b \in Bucket : Cumulative(hist, b) \in Nat
  BY BucketsAndLatencies, BucketsShareSamples DEF IInv, TypeOK
<1>2. Samples \in Nat /\ t \in Nat /\ t > 0 /\ t <= Samples
  BY BucketsShareSamples
<1>3. CASE hist.overflow > 0
  <2>1. MaxLatency(hist) = Ceiling
    BY <1>3 DEF MaxLatency
  <2>2. CASE m = Ceiling
    BY <2>1, <2>2, BucketsAndLatencies
  <2>3. ASSUME NEW b \in Bucket, m = b * Width + Width \div 2
        PROVE  m <= Ceiling
    BY <2>3, BucketEdges
  <2>. QED BY <2>1, <2>2, <2>3 DEF PercentileBucket
<1>4. CASE ~(hist.overflow > 0)
  <2>1. Cumulative(hist, Buckets - 1) = Samples
    <3>1. SeenIn(TooLong) = 0
      BY <1>1, <1>4
    <3>2. /\ Samples = SeenIn(UpToBucket(Buckets - 1)) + SeenIn(TooLong)
          /\ SeenIn(UpToBucket(Buckets - 1)) \in Nat
      BY BucketsShareSamples, BucketsAndLatencies
    <3>. QED BY <1>1, <3>1, <3>2
  <2>2. NonEmpty(hist) # {}
    BY <1>2, <2>1, NoBuckets, BucketsAndLatencies
  <2>3. MaxLatency(hist) = hi * Width + Width
    BY <1>4, <2>2 DEF MaxLatency
  <2>4. hi \in Bucket /\ Cumulative(hist, hi) = Samples
    BY <2>1, <2>2, EdgeBuckets
  <2>. HIDE DEF hi
  <2>5. ~(Cumulative(hist, hi) < t)
    BY <1>2, <2>4
  <2>6. PICK b \in Bucket : /\ m = b * Width + Width \div 2
                            /\ \A c \in Bucket : c < b => Cumulative(hist, c) < t
    BY <2>4, <2>5 DEF PercentileBucket
  <2>7. b <= hi
    BY <2>4, <2>5, <2>6, BucketsAndLatencies
  <2>8. m <= hi * Width + Width
    BY <2>4, <2>6, <2>7, BucketEdges
  <2>9. SeenIn(Latencies \ Below(hi * Width + Width)) = 0
    <3>. DEFINE e == hi * Width + Width
    <3>1. e \in Int /\ e >= (hi + 1) * Width
      BY <2>4, BucketEdges
    <3>. HIDE DEF e
    <3>2. SeenIn(Latencies \ Below(e)) <= Samples - Cumulative(hist, hi)
      BY <2>4, <3>1, CountsAbove
    <3>3. SeenIn(Latencies \ Below(e)) \in Nat
      BY <1>1, SeenIsNat
    <3>4. SeenIn(Latencies \ Below(e)) = 0
      BY <1>2, <2>4, <3>2, <3>3
    <3>. QED BY <3>4 DEF e
  <2>. QED BY <2>3, <2>8, <2>9
<1>. QED BY <1>3, <1>4

(* The summary is ordered and brackets the samples, if every latency has a *)
(* bucket index that is an int (vis_histogram_compute).                    *)
THEOREM SummariesAreOrdered ==
  ASSUME LatenciesFitInt
  PROVE  Spec => []SummaryIsOrdered
<1>1. ASSUME IInv, Samples > 0
      PROVE  SummaryIsOrdered
  <2>. DEFINE rank(p) == RankInDoubles(p, Samples)
              m(p) == Percentile(hist, p)
  <2>1. Samples \in Nat \ {0}
    BY <1>1, BucketsShareSamples
  <2>2. \A p \in {P50, P99, P999, P9999} :
          rank(p) \in 1 .. Samples /\ PercentileBucket(hist, rank(p), m(p))
    BY <1>1, PercentileReports
  <2>3. \A p \in {P50, P99, P999, P9999} : rank(p) \in Nat \ {0}
    BY <2>1, <2>2
  <2>4. rank(P50) <= rank(P99) /\ rank(P99) <= rank(P999) /\ rank(P999) <= rank(P9999)
    BY <2>1, RanksInOrder
  <2>. HIDE DEF rank, m
  <2>5. m(P50) <= m(P99)
    BY <1>1, <2>2, <2>3, <2>4, PercentilesInOrder
  <2>6. m(P99) <= m(P999)
    BY <1>1, <2>2, <2>3, <2>4, PercentilesInOrder
  <2>7. m(P999) <= m(P9999)
    BY <1>1, <2>2, <2>3, <2>4, PercentilesInOrder
  <2>8. MinLatency(hist) <= m(P50) /\ SeenIn(Below(MinLatency(hist))) = 0
    BY <1>1, <2>2, <2>3, MinBrackets
  <2>9. /\ m(P9999) <= MaxLatency(hist)
        /\ \/ MaxLatency(hist) = Ceiling
           \/ SeenIn(Latencies \ Below(MaxLatency(hist))) = 0
    BY <1>1, <2>2, MaxBrackets
  <2>10. Summary(hist) = [min |-> MinLatency(hist), p50 |-> m(P50), p99 |-> m(P99),
                          p999 |-> m(P999), p9999 |-> m(P9999), max |-> MaxLatency(hist)]
    BY DEF Summary, m
  <2>. QED BY <2>5, <2>6, <2>7, <2>8, <2>9, <2>10 DEF SummaryIsOrdered
<1>2. IInv => Samples \in Nat
  BY BucketsShareSamples
<1>3. IInv => SummaryIsOrdered
  BY <1>1, <1>2, EmptySummary
<1>. QED BY <1>3, InvariantHolds, PTL
=============================================================================
