SPECIFICATION OffsiteSpec
CHECK_DEADLOCK FALSE
SYMMETRY Interchangeable
CONSTANTS
  c1 = c1
  c2 = c2
  Callers = {c1, c2}
  Kinds = {"file", "s3", "sftp", "smb"}
  Names <- AllNames
  Contents = {d1, d2}
  d1 = d1
  d2 = d2
  Calls = 3
  Changes = 1
  Unset = Unset
INVARIANT TargetSound
PROPERTY LastGoodKept
