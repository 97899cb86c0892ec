CONSTANTS
  Hour = 2
  Day = 4
  Zone = 0
  ClientZones = {0, 1}
  RawDays = 1
  HourlyDays = 2
  DailyDays = 2
  MaxDelay = 1
  MaxTime = 12
  MaxUpsets = 2
SPECIFICATION Spec
INVARIANTS
  HourlyFromItsHour
  DailyFromItsHours
  NothingForgotten
CHECK_DEADLOCK FALSE
