\* A copy that is longer than a short jump reaches.
CONSTANTS
  Platforms = {"KBL"}
  Supported = TRUE
  Regions = {44, 200}
  Registers = {0, 3, 12, 15}
  Divider = 2
  BootValues = {0, 3}
  Fallback = 4
  Control = 1
  MaxLevel = 7
  LowerBound = 2
  UpperBound = 4
  ZeroByUser = {}
SPECIFICATION AltSpec
CHECK_DEADLOCK FALSE
INVARIANTS
  GoesOnAtEnd
