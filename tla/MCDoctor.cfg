\* One vis-doctor run after another, on three CPUs, with every outcome of a scan.
SPECIFICATION Spec
CONSTANTS
  CpuIds <- MCCpuIds
  CoreOf <- MCCoreOf
  PrimaryLimit = 2
  SecondaryLimit = 2
  LongScan = 60
  SetSize = 1024
  OnlineSets <- MCOnlineSets
  DomainOf <- MCDomainOf
  Machines <- MCMachines
  Durations = {30, 60}
  DiskMayFill = TRUE
  Outcomes <- MCOutcomes
  MaxRuns = 2
INVARIANTS
  TypeOK
  PolicyIsSafe
  PrimaryIsSiblingAware
  PolicyIsUsable
  MeasuredContaminationIsExplicit
  DropIsReported
  EvidenceIsQualified
CHECK_DEADLOCK FALSE
