\* Every document of up to 3 tokens.
CONSTANTS
  Strings <- AllStrings
  Chars <- AllChars
  Scalars = {"true"}
  Numbers = {"0.1"}
  Doubles <- AllDoubles
  strtod <- Nearest
  Format <- Digits17
  Errors = {"error"}
  FIRST_CAP = 1
  MaxTokens = 3
  MaxFails = 0
  Paths = {}
SPECIFICATION CliSpec
INVARIANT FreedOnce
CHECK_DEADLOCK FALSE
