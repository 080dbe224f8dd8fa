CONSTANTS
  Alphabet <- AllChars
  Text <- AllLines
  BUFSIZE = 2
  MaxLen = 5
  Chars <- EveryKind
SPECIFICATION TokenizeSpec
INVARIANTS InLine BufferFits MatchesReference
CHECK_DEADLOCK FALSE
