\* Force wake: two domains, two contexts, two passes.  GuC: three buffers of the
\* driver, two dummies, and up to two sleeps.  NGFX: three removed calls, each in any
\* of the three registers.
CONSTANTS
  Domains = {1, 2}
  Contexts = {"thread", "interrupt"}
  Fallback = "fallback"
  Passes = 2
  Buffers = {b1, b2, b3}
  Dummies = {d1, d2}
  Null = null
  FirmwareSize <- ImageSizes
  Requests = {2, 8}
  Alignment = 4
  MaxSleeps = 2
  Serial = TRUE
  Sites = {s1, s2, s3}
  Registers = {rbx, r12, r13}
  None = None
SPECIFICATION HooksSpec
CHECK_DEADLOCK FALSE
INVARIANTS
  AwakeWhileHeld
  RunsWholeImage
  BuffersRestored
  CallsAreWhole
PROPERTIES
  CallsEnd
