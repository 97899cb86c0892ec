SPECIFICATION FairSpec
CONSTANTS
  e1 = e1
  e2 = e2
  c1 = c1
  c2 = c2
  v1 = v1
  v2 = v2
  Execs <- OneExec
  Commands <- OneCommand
  Clients <- OneClient
  LineSizes <- UnitLines
  TokenLimit = 3
  Cap = 2
  MaxLines = 2
  MaxOutput = 3
  MarkerSize = 1
  MaxCrashes = 0
  DbFaults = FALSE
PROPERTY LiveStreamEnds
CHECK_DEADLOCK FALSE
