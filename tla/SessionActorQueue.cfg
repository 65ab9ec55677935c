\* The calls are all made and all return: then the queue rests.
CHECK_DEADLOCK FALSE
SPECIFICATION Spec
CONSTANTS
  k1 = k1
  k2 = k2
  a1 = a1
  a2 = a2
  a3 = a3
  b1 = b1
  b2 = b2
  Key <- MCKey
  Op <- MCOp
  KeyOf <- MCKeyOf
INVARIANTS
  MutualExclusion
  BusyActorsRun
PROPERTY
  ImplementsSerialCalls
