CONSTANTS
  c1 = c1
  c2 = c2
  Cores <- MCCores
  Core = c1
  Buckets = 2
  Width = 10
  IntMax = 7
  WindowSize = 2
  Duration = 2
  MaxWindows = 2
  MaxSmi = 2
  MaxMoves = 1
  Latencies <- MCLatencies
  Threshold = 10
SPECIFICATION JitterSpec
INVARIANT AcceptedSamplesAreClean
CHECK_DEADLOCK FALSE
