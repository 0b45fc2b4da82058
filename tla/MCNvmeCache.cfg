SPECIFICATION Spec
CONSTANTS
  Keys = {k1, k2, k3}
  None = None
  Readers = {r1, r2, r3}
  Nobody = Nobody
  Capacities = {1, 2}
  DramCapacity = 2
  Faults = {"crash", "diskFull"}
  MaxFaults = 2
SYMMETRY Symmetry
INVARIANTS TypeOK RingConsistent TiersBounded BodyIsWhole
PROPERTIES WarmRestart
CHECK_DEADLOCK FALSE
