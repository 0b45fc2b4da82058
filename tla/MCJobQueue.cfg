SPECIFICATION Spec
CONSTANTS
  Namespaces = {n1}
  Workers = {w1, w2}
  Notifiers = {p1, p2}
  Broker = Broker
  Nobody = Nobody
  MaxWALSeq = 2
  MaxCASAttempts = 2
  Threshold = 1
  Routes = {"direct", "broker"}
  Faults = {"crash", "fail", "stall", "error", "resend"}
  MaxFaults = 1
SYMMETRY Symmetry
INVARIANTS TypeOK OneJobPerNamespace BuildersExclusive AckMeansQueued
PROPERTIES RemovedWhenBuilt QueuedIsKept
