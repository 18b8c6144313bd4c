CONSTANTS
  leader = leader
  task = task
  SetSize = 2
  Cpus <- MCCpus
  Online <- MCOnline
  Pids <- MCPids
  Leader = leader
  Policies <- MCPolicies
  Sources <- MCSources
  Codes <- MCCodes
  MaxRepins = 2
SPECIFICATION Spec
INVARIANT TypeOK
INVARIANT SteadyEscapesAreReported
INVARIANT LeaderIsInItsGroup
INVARIANT WorkloadIsContained
INVARIANT NoFalseEscape
INVARIANT VerdictIsEarned
INVARIANT ExitCodePassesThrough
PROPERTIES
  ReturnsUnlessWorkloadRuns
  ImplementsContract
CHECK_DEADLOCK FALSE
