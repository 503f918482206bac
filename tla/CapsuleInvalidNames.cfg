SPECIFICATION RecoverySpec
CHECK_DEADLOCK FALSE
CONSTANTS
  Openers = {o1}
  Keys = {k1, k2}
  k1 = k1
  k2 = k2
  Services = {s1, s2}
  s1 = s1
  s2 = s2
  Inputs <- SafetyInputs
  Kits <- TwoKits
  Others <- OtherTars
  MaxFiles = 2
  MaxFileBytes = 4
  MaxExpandedBytes = 16
  maxFileListBytes = 4
  Block = 2
  EntryBytes = 1
  Attempts = 2
  AsJSON <- InvalidNames
  None = None
  Width = 3
  Reducer = 3
  Field <- Elements
  xor <- BitXor
  mul <- Mul
  inverse <- FieldInverse
  MaxThreshold = 7
  MaxSecret = 2
  SeedBytes = 1
  Seeds <- SomeSeeds
  Plans <- SomePlans
  OtherSplits <- NoSeedSplit
  MaxKits = 2
  Draws <- SplitDraws
  NoSeed = NoSeed
INVARIANT SealedAlwaysPasses
SYMMETRY Symmetry
