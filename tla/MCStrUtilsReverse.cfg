SPECIFICATION Spec
CONSTANTS
  NUL = NUL
  Space = " "
  Minus = "-"
  Letter = "a"
  Digit <- FourDigits
  INT32_MAX = 31
  MaxLen = 5
INVARIANTS WholeStringReversed
CHECK_DEADLOCK FALSE
