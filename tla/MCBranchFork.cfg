SPECIFICATION Spec
CONSTANTS
  Names = {a, b}
  Roots = {a}
  NoName = NoName
  Ids = {x}
  Forkers = {f1}
  Readers = {q1}
  Builders = {b1}
  ForkUnindexed = TRUE
  MaxSegments = 2
  MaxEpochs = 1
SYMMETRY Symmetry
INVARIANT QueryIsIsolated
CHECK_DEADLOCK FALSE
