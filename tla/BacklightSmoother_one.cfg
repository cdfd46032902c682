\* One driver thread, a range that cuts the levels at both ends.
CONSTANTS
  Producers = {p1}
  MaxLevel = 3
  HighBits <- WholeRegister
  Steps = 3
  Threshold = 1
  LowerBound = 1
  UpperBound = 2
  IdMod = 2
  Wrap = 64
SPECIFICATION Spec
INVARIANTS
  QuietMeansSettled
PROPERTIES
  ImplementsPromise
  EventuallySettled
