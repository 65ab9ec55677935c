CHECK_DEADLOCK FALSE
SPECIFICATION Spec
CONSTANTS
  s1 = s1
  s2 = s2
  c1 = c1
  c2 = c2
  c3 = c3
  NoCall = NoCall
  Session <- MCSession
  Call <- MCCall
  SessionOf <- MCSessionOf
  KindsOf <- MCTurnsOf
  Kept <- MCKept
  Warm <- MCWarm
  Talked <- MCTalked
PROPERTY
  ReusedHandleExists
