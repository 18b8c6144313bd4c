CONSTANTS
  Buckets = 3
  Width = 10
  IntMax = 7
  Latencies <- MCLongLatencies
  Batches <- MCShortBatches
  MaxRecords = 3
  Thresholds <- MCThresholds
SPECIFICATION Spec
INVARIANT SamplesAccounted
CHECK_DEADLOCK FALSE
