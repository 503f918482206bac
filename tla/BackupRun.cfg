SPECIFICATION Spec
CONSTANTS
  None = None
  Garbage = Garbage
  Keys = {k1, k2}
  Topologies <- OneTopology
  Urls = {u1}
  Runners = {r1, r2}
  Admins = {a1, a2}
  Configs <- Destinations
  MaxCapsules = 2
  MaxOps = 2
INVARIANT SealedToPinned
INVARIANT RunsReportTruly
PROPERTY PinWriteOnce
PROPERTY LastDepositAdvances
SYMMETRY Symmetry
