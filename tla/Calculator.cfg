\* The expressions of up to 7 tokens without "-", and every sequence of up
\* to 5 tokens of the others, in ints from -32 to 31.
CONSTANTS
  Numerals = {"0", "3", "-2"}
  Bits = {"3", "+", "-", "*", "(", ")", "x"}
  MaxTokens = 7
  MaxBits = 5
  Words <- AllWords
  Atoi <- Values
  Lines <- AnyLine
  STACK_MAX = 7
  INT_MAX = 31
SPECIFICATION Spec
INVARIANTS ArraysFit StackRises NothingLost ResultRight
CHECK_DEADLOCK FALSE
