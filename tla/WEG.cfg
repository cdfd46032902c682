\* Two framebuffers, up to three GPUs, and names for one GPU only.
CONSTANTS
  Setups <- MCSetups
  Framebuffers = {fb1, fb2}
  MaxExternalGfxIndex = 0
  None = None
SPECIFICATION Spec
INVARIANTS
  IdentityStable
  IdsAsAsked
  PolicyAsPromised
  ChoicesReachKexts
  ScreensAsChosen
CHECK_DEADLOCK FALSE
