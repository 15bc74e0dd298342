SPECIFICATION Spec
CONSTANTS
  NUL = NUL
  Space = " "
  Minus = "-"
  Letter = "a"
  Digit <- FourDigits
  INT32_MAX = 31
  MaxLen = 5
INVARIANTS TrimRemovesOuterSpaces TerminatedStringReversed NumeralsConverted
CHECK_DEADLOCK FALSE
