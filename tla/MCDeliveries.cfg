CONSTANTS
  NoValue = NoValue
  Parts = {"runs", "queue"}
  Schedules <- TwoSchedules
  Waits <- TwoWaits
  Grace = 2
  KeyLife = 2
  MaxNow = 7
  MaxFaults = 1
  MaxChanges = 2
SPECIFICATION SuiteSpec
PROPERTIES NothingLost SlotsOnce WorkEnds
CHECK_DEADLOCK FALSE
