CONSTANTS
  Lines <- Pipeline
  PIPE_CAP = 1
  GenLen = 2
  Faults = {"fork"}
  MaxLines = 1
  MaxInts = 0
SPECIFICATION Spec
INVARIANT EveryChildAwaited
CHECK_DEADLOCK FALSE
