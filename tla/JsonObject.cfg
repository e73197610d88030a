SPECIFICATION Spec
CONSTANTS
  x = x
  y = y
  Names = {x, y}
  Respelled = {x}
  Top = 2
  Digits = 8
  DoubleDigits = 4
  Decimals = 2
  Half = 1
  Slip = 1
  MaxItems = 3
  MaxOps = 4
INVARIANT WrappersCurrent
INVARIANT KeysCurrent
INVARIANT NumbersKept
CHECK_DEADLOCK FALSE
