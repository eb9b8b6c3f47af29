CONSTANTS
  Requests = {r1, r2, r3, r4, r5}
  Clients = {c1, c2}
  Minute = 2
  RPM = 3
  Burst = 2
  Keep = 3
  MapLimit = 1
  MaxDelay = 1
  MaxTime = 5
SYMMETRY Anyone
SPECIFICATION Spec
INVARIANTS
  TypeOK
  RateKept
  RefusedOnlyAfterBurst
  MapBounded
