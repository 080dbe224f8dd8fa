CONSTANTS
  Lines <- AnyLine
  PIPE_CAP = 1
  GenLen = 2
  Faults = {"pipe", "fork"}
  MaxLines = 2
  MaxInts = 1
SPECIFICATION FairSpec
INVARIANTS CleanPrompt LosesOneAtMost PipeStatusHonest
PROPERTIES PromptReturns InterruptFrees
CHECK_DEADLOCK FALSE
