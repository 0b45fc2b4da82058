SPECIFICATION Spec
CONSTANTS
  Builders = {b1, b2}
  Readers = {r1}
  CacheCapacity = 2
  Requests <- NodeAndCommands
  Ops <- TwoDocuments
  MaxSegments = 3
  MaxBuilds = 2
  MaxCASAttempts = 2
  BuildsFail = FALSE
INVARIANT QueryAnswersSnapshot
CHECK_DEADLOCK FALSE
