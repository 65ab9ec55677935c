SPECIFICATION TurnSpec
CONSTANTS
  Runs = 2
  Models = 2
  MaxContinues = 1
  Histories <- MCHistories
  MaxActive = 1
  MaxFaults = 1
INVARIANTS
  HistoryKept
  OneTurnSaved
PROPERTY
  RunsEnd
CHECK_DEADLOCK FALSE
