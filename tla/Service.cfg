SPECIFICATION ServiceSpec
CONSTANTS
  None = None
  Foreign = Foreign
  Torn = Torn
  Procs = {p1, p2, p3}
  Keys = {k1, k2}
  Nobody = Nobody
  Clients = {c1, c2}
  Checks = {h1, h2}
  CacheFor = 3
  Timeout = 2
INVARIANT StoredIsDurable
INVARIANT BusyIsTrue
PROPERTY ImplementsKeyStore
PROPERTY OneEvaluation
PROPERTY RequestAnswered
