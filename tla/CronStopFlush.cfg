CHECK_DEADLOCK FALSE
SPECIFICATION Spec
CONSTANTS
  Job = {j1}
  Run = {r1, r2}
  Writer = {w1, w2}
  MaxVersion = 1
  MaxRestarts = 1
INVARIANT
  StopFlushes
