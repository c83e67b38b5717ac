SPECIFICATION Spec
CONSTANTS
  c1 = c1
  c2 = c2
  Clients = {c1, c2}
  Kinds <- MCKinds
  Limits <- MCLimits
  Default <- MCDefault
  MaxDelay = 1
  MaxTime = 6
  MaxFaults = 1
INVARIANTS
  WindowBound
PROPERTY
  RefusedOnlyIfBusy
SYMMETRY ClientSymmetry
CHECK_DEADLOCK FALSE
