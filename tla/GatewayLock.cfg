\* Every process ends: then nothing is left to happen.
CHECK_DEADLOCK FALSE
SPECIFICATION LockSpec
CONSTANTS
  g1 = g1
  g2 = g2
  q1 = q1
  NoOne = NoOne
  Gateway <- MCGateway
  Command <- MCCommand
  Port <- MCPort
  PortOf <- MCPortOf
  HostOf <- MCHostOf
PROPERTIES
  RemoveSparesServing
  StaleLockIsTakenOver
