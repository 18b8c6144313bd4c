----------------------------- MODULE MCHistogram -----------------------------
(* Instances of HistogramRecorder: a histogram of three buckets.           *)
EXTENDS HistogramRecorder

MCLatencies == {0, 9, 10, 29, 30, 70}
MCThresholds == {0, 4, 5, 14, 15, 16, 25, 29, 30}
(* Totals of less than a hundred to thousands, and of exactly 1000. *)
MCBatches == {1, 99, 900}

(* The ranks compute_percentile takes of 1000 samples, of reports of one   *)
(* and of two windows of a million, and of totals around which the        *)
(* product is rounded back down, as doubles give them.                     *)
ASSUME RanksOfReports ==
  /\ \A n \in {1000, 32000, 34000, 67000, 131000, 1000000, 1049000, 1058000, 2000000} :
       RankInDoubles(P999, n) = 999 * (n \div 1000) + 1
  /\ \A n \in {33000, 66000, 132000, 263000, 264000, 1050000, 1057000, 2100000} :
       RankInDoubles(P999, n) = 999 * (n \div 1000)
  /\ RankInDoubles(P999, 999999) = 999000 /\ RankInDoubles(P999, 1) = 1
  /\ RankInDoubles(P99, 1000000) = 990000 /\ RankInDoubles(P50, 1000000) = 500000

(* A sample of 80 ns stands for one of more than 2^31 bucket widths: the   *)
(* run's int ends at 7.                                                    *)
MCLongLatencies == {5, 35, 79, 80}
MCShortBatches == {1}
=============================================================================
