SPECIFICATION Spec
CONSTANTS
  r1 = r1
  r2 = r2
  Reqs = {r1, r2}
  Worker = Worker
  Admin = Admin
  Tokens = {1, 2, 3}
  RefreshLife = 1
  Grace = 0
  SessionTimeout = 0
  MaxBusy = 2
  MaxClock = 2
  MaxCrashes = 1
SYMMETRY SameBrowser
INVARIANTS
  TypeOK
  OneLivePerFamily
PROPERTIES
  FamilyEndsForGood
CHECK_DEADLOCK FALSE
