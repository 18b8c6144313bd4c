\* Three runs on two CPUs: the report of the second holds a comparison.
SPECIFICATION Spec
CONSTANTS
  CpuIds <- MCCpuIds
  CoreOf <- MCCoreOf
  PrimaryLimit = 2
  SecondaryLimit = 2
  LongScan = 60
  SetSize = 1024
  OnlineSets <- MCFewOnline
  DomainOf <- MCDomainOf
  Machines <- MCOneMachine
  Durations = {60}
  DiskMayFill = FALSE
  Outcomes <- MCFewOutcomes
  MaxRuns = 3
INVARIANT
  PressureIsReal
CHECK_DEADLOCK FALSE
