CONSTANTS
  Requests = {r1, r2}
  Builds = 2
  MaxBackups = 1
  MaxTime = 1
  MaxMishaps = 1
  Known <- MCKnown
  MaxCrashes = 1
SPECIFICATION Spec
INVARIANTS
  SomeBuildSurvives
  PairLeavesBuild
  BinaryStays
  RecordedIsApplied
  FailsOnlyHalfway
PROPERTIES
  ComesBack
  CompletedAsAnnounced
CHECK_DEADLOCK FALSE
