\* The files from vis-doctor to vis-run and from vis-run to vis-compare.
SPECIFICATION Spec
CONSTANTS
  SetSize = 32
  Reports <- MCReports
  Sources <- MCSources
  Words <- MCWords
  Commands <- MCCommands
  Ends <- MCEnds
  Sightings <- MCSightings
INVARIANTS
  TypeOK
  PolicyIsReadAsWritten
  AttestationIsReadAsWritten
  EvidenceFollowsPolicy
CHECK_DEADLOCK FALSE
