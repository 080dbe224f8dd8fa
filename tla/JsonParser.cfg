\* Every document of up to 9 tokens, any one allocation failing.
CONSTANTS
  Strings <- AllStrings
  Chars <- AllChars
  Scalars = {"true"}
  Numbers = {"0.1"}
  Doubles <- AllDoubles
  strtod <- Nearest
  Format <- Digits17
  Errors = {"error"}
  FIRST_CAP = 1
  MaxTokens = 9
  MaxFails = 1
  Paths <- AllPaths
SPECIFICATION CliSpec
INVARIANTS TypeOK FreedTwiceOnlyAfterValue OneOwner AcceptsJson RoundTrip GetFindsIt
CHECK_DEADLOCK FALSE
