SPECIFICATION GuardSpec
CONSTANTS
  Workers = {w1, w2}
  w1 = w1
  w2 = w2
  Ids = {e1, e2, e3}
  e1 = e1
  e2 = e2
  e3 = e3
  Window = 2
  Max = 2
  Skews = {0, 1}
  Backs = {1}
  MaxClock = 3
  MaxSent = 4
INVARIANT GuardConsistent
PROPERTY NoReplayInsideWindow
SYMMETRY Symmetry
