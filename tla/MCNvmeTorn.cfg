SPECIFICATION Spec
CONSTANTS
  Keys = {k1, k2}
  None = None
  Readers = {r1, r2}
  Nobody = Nobody
  Capacities = {1, 2}
  DramCapacity = 2
  Faults = {"crash"}
  MaxFaults = 1
SYMMETRY Symmetry
INVARIANT LoadToleratesCrash
CHECK_DEADLOCK FALSE
