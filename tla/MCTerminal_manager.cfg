SPECIFICATION Spec
CONSTANTS
  s1 = s1
  s2 = s2
  c1 = c1
  Sessions <- TwoSessions
  Clients <- OneClient
  MaxSessions = 1
  History = 1
  ChanCap = 1
  InCap = 1
  OutCap = 1
  MaxChunks = 0
  MaxInput = 1
INVARIANTS
  AtMostMaxShells
  ShellsRegistered
CHECK_DEADLOCK FALSE
