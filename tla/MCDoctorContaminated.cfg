\* A CPU all of whose windows had SMIs, against the claim of the test.
SPECIFICATION Spec
CONSTANTS
  CpuIds <- MCCpuIds
  CoreOf <- MCCoreOf
  PrimaryLimit = 2
  SecondaryLimit = 2
  LongScan = 60
  SetSize = 1024
  OnlineSets <- MCFewOnline
  DomainOf <- MCDomainOf
  Machines <- MCOneMachine
  Durations = {30, 60}
  DiskMayFill = FALSE
  Outcomes <- MCOutcomes
  MaxRuns = 1
INVARIANT
  ContaminatedIsExplicit
CHECK_DEADLOCK FALSE
