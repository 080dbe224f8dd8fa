\* Files of up to 5 characters, read in pieces of 2 into a buffer of 2.
CONSTANTS
  MaxLen = 5
  Files <- AllFiles
  CHUNK = 2
  FIRST_CAP = 2
SPECIFICATION Spec
INVARIANTS BufferHolds InBuffer TokensRight PrintsTheText
CHECK_DEADLOCK FALSE
