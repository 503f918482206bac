SPECIFICATION Spec
CONSTANTS
  Procs = {p1, p2}
  AppOf <- SameApp
  Keeps = {0, 1}
  ByHand <- LookAlike
  staleTemp = 0
  MaxClock = 2
  MaxID = 3
  None = None
INVARIANT CopiesKept
PROPERTY OthersUntouched
SYMMETRY Symmetry
