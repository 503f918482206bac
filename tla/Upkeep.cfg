SPECIFICATION UpkeepSpec
CONSTANTS
  MinInterval = 2
  MaxInterval = 4
  Defaults = {0, 6}
  Settable = {0, 1, 2, 4}
  Edited <- EditedRows
  Garbage = Garbage
  Second = 2
  Word = 32
  Cap = 10
  MaxStep = 3
  Drills = {d1, d2}
  staleDrill = 2
  MaxFaults = 2
  None = None
  Killed = Killed
  Unremoved = Unremoved
INVARIANT RowsAndSandboxes
PROPERTY AttemptsSpaced
PROPERTY KeepsAttempting
PROPERTY ResidueRemoved
