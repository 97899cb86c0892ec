SPECIFICATION FairSpec
CONSTANTS
  r1 = r1
  r2 = r2
  r3 = r3
  r4 = r4
  r5 = r5
  a = a
  b = b
  Requests <- TwoRequests
  IPs <- TwoIPs
  Kinds <- BothKinds
  Limit = 1
  Window = 2
  MaxTime = 2
PROPERTY AlwaysAnswered
CHECK_DEADLOCK FALSE
