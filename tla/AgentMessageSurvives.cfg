SPECIFICATION TurnSpec
CONSTANTS
  Runs = 1
  Models = 2
  MaxContinues = 1
  Histories <- MCHistories
  MaxActive = 1
  MaxFaults = 0
INVARIANT
  MessageSurvives
CHECK_DEADLOCK FALSE
