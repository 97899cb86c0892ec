CONSTANTS
  Requests = {r1, r2}
  MaxFaults = 1
  Names = {"n0", "n1"}
  Backup <- MCBackup
  Paths = {p1, p2, p3}
SPECIFICATION Spec
INVARIANTS
  PlacesClashOnlyInRaces
  ShortAppsReported
  ChangesAreLogged
PROPERTIES
  TokensNeverReturn
  ReplacesOnlyNewcomers
  ExecEnds
CHECK_DEADLOCK FALSE
