SPECIFICATION LoginSpec
CONSTANTS
  None = None
  Callers = {t1, t2, t3}
  Requests <- Shapes
  BudgetKiB = 4
  BudgetLanes = 4
  Derivers = {d1, d2, d3}
  MaxConcurrent = 2
  Deriving = {g1, g2}
  Sizes = {}
  TotalKiB = 262144
  TotalLanes = 16
  Plaintexts = {"right", "wrong"}
  Password = "right"
  Costs <- SomeCosts
  StoredHashes <- SomeHashes
  NoHash = NoHash
  Attempts = {a1, a2}
  Period = 2
  LastSecond = 4
  Hotp <- SomeDigits
  Wrap = 5
  Codes = {"c1", "c2", "c3", "c4"}
  CodeCount = 3
  NoCode = NoCode
INVARIANT NoLostWakeup
INVARIANT SlotsHeld
INVARIANT LoginsSound
INVARIANT OneTimeMeansOnce
PROPERTY ImplementsReservations
PROPERTY ParkedNotOvertaken
PROPERTY QueuedGetsServed
