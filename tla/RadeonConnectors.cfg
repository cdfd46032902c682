\* Two controllers that start on two threads; bytes wrap at 10, so that the
\* longest list leaves just enough room for the types.
CONSTANTS
  Threads = {t1, t2}
  Controllers = {c1, c2}
  Slots = 2
  Setups <- MCSetups
  None = None
  ByteMod = 10
  WordMod = 100
SPECIFICATION Spec
INVARIANTS
  OwnOverrides
  TransmittersRight
  PriorityFollowsList
PROPERTY CallsEnd
