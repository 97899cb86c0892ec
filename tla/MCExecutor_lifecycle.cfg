SPECIFICATION Spec
CONSTANTS
  e1 = e1
  e2 = e2
  c1 = c1
  c2 = c2
  v1 = v1
  v2 = v2
  Execs <- TwoExecs
  Commands <- OneCommand
  Clients <- OneClient
  LineSizes <- UnitLines
  TokenLimit = 3
  Cap = 1
  MaxLines = 0
  MaxOutput = 2
  MarkerSize = 1
  MaxCrashes = 1
  DbFaults = FALSE
INVARIANTS
  UnfinishedRowHasRunner
  CompletionAfterRecord
  AnswerIsVerdict
PROPERTY Lifecycle
CHECK_DEADLOCK FALSE
