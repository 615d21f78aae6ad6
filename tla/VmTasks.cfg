SPECIFICATION Spec
CONSTANTS
  Tasks = {t1, t2}
  NoTask = NoTask
  MaxOutput = 2
  MaxCalls = 2
  MaxFaults = 2
INVARIANTS Verdict LogWhole
PROPERTY FailureEnds
CHECK_DEADLOCK FALSE
