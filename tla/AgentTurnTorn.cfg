SPECIFICATION TurnSpec
CONSTANTS
  Runs = 1
  Models = 2
  MaxContinues = 1
  Histories <- MCHistories
  MaxActive = 1
  MaxFaults = 1
INVARIANT
  HistoryAlwaysKept
CHECK_DEADLOCK FALSE
