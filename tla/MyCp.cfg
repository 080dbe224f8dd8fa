\* Every pair of places in six small file systems, one call failing.
CONSTANTS
  Names = {"d", "e", "f", "n", "p", "s"}
  Blocks = {"a", "b", "c", "d", "e", "f", "part"}
  Systems <- AllSystems
  Commands <- AllCommands
  PATH_MAX = 3
  MaxFails = 1
SPECIFICATION FairSpec
INVARIANTS OnlyCopiesChange QuietMeansCopied
PROPERTY Ends
CHECK_DEADLOCK FALSE
