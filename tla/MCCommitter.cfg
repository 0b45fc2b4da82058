SPECIFICATION FairSpec
CONSTANTS
  Callers = {c1, c2}
  Closers = {k1, k2}
  MaxCalls = 2
  Sizes = {2}
  MaxBatchDocs = 3
  MaxResends = 1
  Faults = {"cancel", "fail", "invalid"}
INVARIANTS NoSendOnClosed CloseDrains OrderKept BatchBounded
PROPERTIES CallsReturn ImplementsDurableLog
CHECK_DEADLOCK FALSE
