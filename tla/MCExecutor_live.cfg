SPECIFICATION FairSpec
CONSTANTS
  e1 = e1
  e2 = e2
  c1 = c1
  c2 = c2
  v1 = v1
  v2 = v2
  Execs <- OneExec
  Commands <- OneCommand
  Clients <- OneClient
  LineSizes <- MixedLines
  TokenLimit = 3
  Cap = 3
  MaxLines = 2
  MaxOutput = 2
  MarkerSize = 1
  MaxCrashes = 1
  DbFaults = TRUE
INVARIANTS
  CompleteIsLast
  StoredOutputIsPrefix
  OutputAccounted
PROPERTIES
  RunsEnd
  BufferedStreamEnds
CHECK_DEADLOCK FALSE
