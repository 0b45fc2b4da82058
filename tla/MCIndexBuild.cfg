SPECIFICATION Spec
CONSTANTS
  Builders = {b1}
  Readers = {r1}
  CacheCapacity = 2
  Requests <- NodeAndCommands
  Ops <- LostVector
  MaxSegments = 3
  MaxBuilds = 2
  MaxCASAttempts = 2
  BuildsFail = TRUE
INVARIANTS QueryAnswersSnapshot LiveEpochWhole CacheNeverStale
PROPERTIES PublishedObjectsImmutable IndexNeverRegresses ImplementsSnapshotReads
CHECK_DEADLOCK FALSE
