SPECIFICATION FairSpec
CONSTANTS
  r1 = r1
  r2 = r2
  Reqs = {r1}
  Worker = Worker
  Admin = Admin
  Tokens = {1, 2}
  RefreshLife = 9
  Grace = 0
  SessionTimeout = 1
  MaxBusy = 3
  MaxClock = 4
  MaxCrashes = 0
PROPERTIES
  IdleLoggedOut
CHECK_DEADLOCK FALSE
