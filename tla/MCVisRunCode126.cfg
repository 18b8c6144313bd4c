CONSTANTS
  leader = leader
  task = task
  SetSize = 2
  Cpus <- MCCpus
  Online <- MCOnline
  Pids <- MCPids
  Leader = leader
  Policies <- MCPlainPolicies
  Sources <- MCSources
  Codes <- MCCodes
  MaxRepins = 2
SPECIFICATION Spec
INVARIANT AffinityFailureIsReal
CHECK_DEADLOCK FALSE
