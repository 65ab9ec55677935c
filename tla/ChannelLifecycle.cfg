SPECIFICATION Spec
CONSTANTS
  monitored = monitored
  plain = plain
  Channel <- MCChannel
  Monitored <- MCMonitored
  MaxAttempts = 2
  MaxCalls = 3
INVARIANTS
  HeldStaysDown
  DownIsAttended
PROPERTY
  RestartsDecide
CHECK_DEADLOCK FALSE
