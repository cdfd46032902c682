\* Firmware that programmed no frequency, and two; a fallback frequency in between.
\* Registers fix: the user's frequency below all of them.  Alternative fix: copies
\* that are too short, just long enough, and as long as a short jump reaches; a level
\* 0 that is meant by the user of one driver.  Setup: properties that are missing,
\* zero, too small, and fine; bounds in and out of order.
CONSTANTS
  Platforms = {"KBL", "CFL"}
  BootValues = {0, 3, 7}
  Fallback = 6
  Control = 1
  MaxLevel = 7
  LowerBound = 2
  UpperBound = 4
  Scales = {2, 3}
  Presets = {0, 5}
  ControlFirst = FALSE
  Supported = TRUE
  Regions = {36, 43, 44, 165}
  Registers = {0, 3, 12, 15}
  Divider = 2
  ZeroByUser = {"CFL"}
  Values = {0, 1, 3}
  Max = 4
  DefaultSteps = 2
  DefaultQueueSize = 3
  MinimumQueueSize = 2
SPECIFICATION HooksSpec
CHECK_DEADLOCK FALSE
INVARIANTS
  LevelIsRight
  FrequencyRestored
  ControlRestored
  FrequencyBeforeOn
  ShowsLevel
  GoesOnAtEnd
  AllOrNothing
  SetupAllOrNothing
