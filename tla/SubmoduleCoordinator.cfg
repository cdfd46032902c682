\* All generations, and every combination of the submodules that depend on a
\* shared one or on each other.
CONSTANTS
  Generations = {"Westmere", "SandyBridge", "IvyBridge", "Haswell", "Broadwell",
                 "Skylake", "SkylakeAsKabyLake", "KabyLake", "CoffeeLake",
                 "CannonLake", "IceLake", "CometLake"}
  Chosen = {"DPCDMaxLinkRateFix", "CoreDisplayClockFix", "LSPCONDriverSupport",
            "RPSControlPatch", "BacklightRegistersFix", "BacklightSmoother",
            "ForceCompleteModeset", "TypeCCheckDisabler"}
  GraphicsFirst = FALSE
SPECIFICATION Spec
CHECK_DEADLOCK FALSE
INVARIANTS
  FramebufferServed
  AcceleratorServed
  LSPCONServed
  InjectionsFollowDriver
