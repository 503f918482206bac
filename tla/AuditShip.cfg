SPECIFICATION ShipSpec
CONSTANTS
  None = None
  Appenders = {t1, t2, t3}
  Fields = {"f1", "f2"}
  MaxUint64 = 9
  MaxLog = 3
INVARIANT StoredLogVerifies
INVARIANT TailResumes
INVARIANT TamperingDetected
INVARIANT RecordsKept
PROPERTY ImplementsAppendLog
