SPECIFICATION GuardSpec
CONSTANTS
  Workers = {w1, w2}
  w1 = w1
  w2 = w2
  Ids = {e1, e2}
  e1 = e1
  e2 = e2
  Window = 2
  Max = 2
  Skews = {0}
  Backs = {}
  MaxClock = 4
  MaxSent = 3
PROPERTY SameRequestOnce
SYMMETRY Symmetry
