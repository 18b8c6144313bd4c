\* A vis-run that leaves no attestation, after one that did.
SPECIFICATION Spec
CONSTANTS
  Outcomes <- MCOutcomes
  Garbage = {0}
  PipeSize = 1
  Output <- MCOutput
  MaxRuns = 2
INVARIANT
  EvidenceIsOfThisRun
CHECK_DEADLOCK FALSE
