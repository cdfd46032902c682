\* The accelerator kext may be loaded first.
CONSTANTS
  Generations = {"KabyLake"}
  Chosen = {"BacklightSmoother"}
  GraphicsFirst = TRUE
SPECIFICATION Spec
CHECK_DEADLOCK FALSE
INVARIANTS
  AcceleratorServed
