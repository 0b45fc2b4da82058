SPECIFICATION Spec
CONSTANTS
  Namespaces = {n1}
  Workers = {w1, w2}
  Notifiers = {p1}
  Broker = Broker
  Nobody = Nobody
  MaxWALSeq = 2
  MaxCASAttempts = 2
  Threshold = 1
  Routes = {"direct"}
  Faults = {}
  MaxFaults = 0
INVARIANT AckedIsNotDropped
