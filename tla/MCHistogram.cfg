CONSTANTS
  Buckets = 3
  Width = 10
  IntMax = 7
  Latencies <- MCLatencies
  Batches <- MCBatches
  MaxRecords = 4
  Thresholds <- MCThresholds
SPECIFICATION Spec
INVARIANT TypeOK
INVARIANT SamplesAccounted
INVARIANT PercentilesAreNearestRank
INVARIANT SummaryIsOrdered
INVARIANT VerdictIsSound
CHECK_DEADLOCK FALSE
