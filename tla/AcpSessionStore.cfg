\* The calls are all made and have returned or died: then the store rests.
CHECK_DEADLOCK FALSE
SPECIFICATION StoreSpec
CONSTANTS
  s1 = s1
  s2 = s2
  c1 = c1
  c2 = c2
  c3 = c3
  c4 = c4
  None = None
  Session <- MCSession
  Call <- MCCall
  SessionOf <- MCSessionOf
  AtOnce = 2
  MaxCrashes = 1
INVARIANTS
  NoSilentLoss
  CleanIsWritten
