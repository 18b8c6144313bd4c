\* Two invocations of vis-compare in one directory.
SPECIFICATION FairSpec
CONSTANTS
  Outcomes <- MCOutcomes
  Garbage = {0}
  PipeSize = 1
  Output <- MCOutput
  MaxRuns = 2
INVARIANTS
  TypeOK
  ProfilesDoNotOverlap
  OutputIsComplete
  RecommendationIsEarned
  MetricNotesAreOfTheseRuns
PROPERTY
  ReturnsWhenRunsEnd
CHECK_DEADLOCK FALSE
