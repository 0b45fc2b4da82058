SPECIFICATION Spec
CONSTANTS
  Names = {a, b, c}
  Roots = {a}
  NoName = NoName
  Ids = {x}
  Forkers = {f1}
  Readers = {q1}
  Builders = {b1}
  ForkUnindexed = FALSE
  MaxSegments = 3
  MaxEpochs = 2
SYMMETRY Symmetry
INVARIANTS TypeOK ViewIsLogicalWAL QueryIsIsolated InheritedEpochFits
CHECK_DEADLOCK FALSE
