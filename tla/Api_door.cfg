SPECIFICATION Spec
CONSTANTS
  r1 = r1
  r2 = r2
  Reqs = {r1, r2}
  Tokens = {1, 2}
  Second = 2
  TokenLife = 3
  Window = 2
  Limit <- SmallLimits
  MaxBusy = 2
  MaxClock = 5
  MaxSends = 3
  MaxRuns = 1
SYMMETRY SameRequests
INVARIANTS
  TypeOK
  RateKept
  RevokedStaysOut
  DeletedStaysOut
CHECK_DEADLOCK FALSE
