SPECIFICATION Spec
CONSTANTS
  l1 = l1
  l2 = l2
  l3 = l3
  q1 = q1
  p1 = p1
  p2 = p2
  Logins <- ThreeLogins
  Requests <- OneRequest
  Passwords <- TwoPasswords
  Remembered = 1
  MaxAttempts = 2
  Lockout = 2
  Zone = 0
  Duration = 1
  Codes = {1, 2}
  MaxTime = 3
  MaxSecrets = 1
SYMMETRY Symmetry
INVARIANTS
  OneSession
  FailuresSpaced
  CodeSpentOnce
  ResetEndsSessions
CHECK_DEADLOCK FALSE
