\* One job (jobs share only the file), two executions and two writes at once,
\* one restart.
\* After the last restart the process may stay down.
CHECK_DEADLOCK FALSE
SPECIFICATION Spec
CONSTANTS
  Job = {j1}
  Run = {r1, r2}
  Writer = {w1, w2}
  MaxVersion = 1
  MaxRestarts = 1
INVARIANTS
  EnabledJobsAreScheduled
  RegisteredRunIsWorking
PROPERTY
  RunsEnd
