SPECIFICATION Spec
CONSTANTS
  s1 = s1
  s2 = s2
  s3 = s3
  Reader <- MCReader
  MaxEvents = 3
  MaxSent = 4
INVARIANTS
  SleepersAreUpToDate
  StreamIsComplete
PROPERTY
  ReadersEnd
CHECK_DEADLOCK FALSE
