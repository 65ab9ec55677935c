\* The entries of the new gateway beside sends of the one before: a counterexample.
CHECK_DEADLOCK FALSE
SPECIFICATION Spec
CONSTANTS
  Msg = {m1, m2, d1}
  Direct = {d1}
  MaxLives = 3
  MaxFaults = 1
INVARIANT KeptThroughRestarts
