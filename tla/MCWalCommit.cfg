SPECIFICATION Spec
CONSTANTS
  Writers = {w1, w2, w3}
  MaxCalls = 1
  MaxUpsertAttempts = 3
  MaxCASAttempts = 3
  Deltas <- InsertsAndDeletes
  Faults = {"crash", "lostReply"}
  MaxResends = 3
SYMMETRY WriterSymmetry
INVARIANTS TypeOK SegmentsExist AckedIsVisible EveryUpdateIsCounted
PROPERTIES ImplementsDurableLog RetriesSuffice
CHECK_DEADLOCK FALSE
