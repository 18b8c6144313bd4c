-------------------------- MODULE HistogramRecorder --------------------------
(***************************************************************************)
(* A histogram filled with samples, beside a record of the very samples it *)
(* was given: what the summary says is compared with what they say.        *)
(***************************************************************************)
EXTENDS Histogram

CONSTANTS
  Latencies,   \* the latencies that occur
  Batches,     \* how many samples of one latency may arrive in a row
  MaxRecords,  \* bound: batches added to one histogram
  Thresholds   \* the P99 thresholds a user may ask for

ASSUME RecorderAssumption ==
  /\ Latencies \subseteq Nat /\ IsFiniteSet(Latencies)
  /\ Batches \subseteq Nat \ {0}
  /\ MaxRecords \in Nat
  \* 4 * 10^11 samples, as far as RankInDoubles goes: 400000 windows of a million
  /\ \A k \in Batches : (MaxRecords * k) \div 1000000 < 400000
  /\ Thresholds \subseteq Nat

VARIABLES
  hist,     \* vis_histogram_t
  seen,     \* history: how many samples of each latency were added
  records   \* history: how many batches
vars == <<hist, seen, records>>

TypeOK ==
  /\ hist \in HistogramType
  /\ seen \in [Latencies -> Nat]
  /\ records \in 0 .. MaxRecords

Samples == SumFunction(seen)

Init ==
  /\ hist = EmptyHistogram
  /\ seen = [v \in Latencies |-> 0]
  /\ records = 0

Record(v, k) ==
  /\ records < MaxRecords
  /\ records' = records + 1
  /\ hist' = AddAll(hist, [i \in 1 .. k |-> v])
  /\ seen' = [seen EXCEPT ![v] = @ + k]

Next == \E v \in Latencies, k \in Batches : Record(v, k)

Spec == Init /\ [][Next]_vars

----------------------------------------------------------------------------
SeenIn(V) == SumFunctionOnSet(seen, V)
Below(x) == {v \in Latencies : v < x}

(* The sample of a rank, found among the samples themselves. *)
SampleOfRank(r) == Smallest({v \in Latencies : SeenIn({w \in Latencies : w <= v}) >= r})

(* A reported value m stands for v: v is in the bucket around m, or both   *)
(* are at or above the upper edge of the range.                            *)
StandsFor(m, v) ==
  \/ m < Ceiling /\ m - Width \div 2 <= v /\ v < m - Width \div 2 + Width
  \/ m = Ceiling /\ v >= Ceiling

Reports(p, rank) == StandsFor(Percentile(hist, p), SampleOfRank(rank))

(* No sample is lost or counted twice: every sample given to the histogram *)
(* is in exactly one of its buckets or in its overflow counter, whatever   *)
(* its latency ("Samples exceeding the last bucket are counted in the      *)
(* `overflow` field", vis_jitter.hpp).                                     *)
SamplesAccounted ==
  /\ hist.total = Samples
  /\ SumFunction(hist.buckets) + hist.overflow = hist.total
  /\ hist.overflow = SeenIn({v \in Latencies : v >= Ceiling})

(* Percentiles are nearest rank: the reported bucket holds the sample of   *)
(* that rank, for sparse, single-sample and overflowing histograms too.    *)
(* Of a total that is a multiple of 1000, P99.9 may be of the next rank    *)
(* (compute_percentile, whose product is computed in doubles).             *)
PercentilesAreNearestRank ==
  Samples > 0 =>
    /\ \A p \in {P50, P99, P9999} : Reports(p, NearestRank(p, Samples))
    /\ \/ Reports(P999, NearestRank(P999, Samples))
       \/ Samples % 1000 = 0 /\ Reports(P999, NearestRank(P999, Samples) + 1)

(* The summary is ordered and brackets the samples: min <= p50 <= p99 <=   *)
(* p99.9 <= p99.99 <= max, no sample is below min, and none at or above    *)
(* max unless max is the saturated edge (vis_histogram_compute).           *)
SummaryIsOrdered ==
  LET s == Summary(hist) IN
  /\ s.min <= s.p50 /\ s.p50 <= s.p99 /\ s.p99 <= s.p999
  /\ s.p999 <= s.p9999 /\ s.p9999 <= s.max
  /\ SeenIn(Below(s.min)) = 0
  /\ Samples > 0 => s.max = Ceiling \/ SeenIn(Latencies \ Below(s.max)) = 0

(* The verdict means what a user reads in it, to half a bucket, for every  *)
(* threshold inside the range: PASS only if at most 1% of the samples took *)
(* threshold + half a bucket or longer, FAIL only if more than 1% took     *)
(* longer than threshold - half a bucket (vis_jitter_run).                 *)
VerdictIsSound ==
  \A t \in Thresholds :
    (Samples > 0 /\ t < Ceiling) =>
      IF DeterminismPass(hist, t)
      THEN 100 * SeenIn(Latencies \ Below(t + Width - Width \div 2)) <= Samples
      ELSE 100 * SeenIn(Latencies \ Below(t - Width \div 2 + 1)) > Samples
=============================================================================
