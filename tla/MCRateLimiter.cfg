SPECIFICATION Spec
CONSTANTS
  r1 = r1
  r2 = r2
  r3 = r3
  r4 = r4
  r5 = r5
  a = a
  b = b
  Requests <- FiveRequests
  IPs <- OneIP
  Kinds <- ShortOnly
  Limit = 2
  Window = 2
  MaxTime = 7
SYMMETRY Symmetry
INVARIANTS
  TwoWindowBound
  RefusedOnlyAtLimit
CHECK_DEADLOCK FALSE
