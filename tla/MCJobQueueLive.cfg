SPECIFICATION FairSpec
CONSTANTS
  Namespaces = {n1}
  Workers = {w1, w2}
  Notifiers = {p1}
  Broker = Broker
  Nobody = Nobody
  MaxWALSeq = 2
  MaxCASAttempts = 2
  Threshold = 1
  Routes = {"direct", "broker"}
  Faults = {"crash", "fail", "stall", "error", "resend"}
  MaxFaults = 1
PROPERTIES WaitingIsIndexed RequestsAnswered
