SPECIFICATION Spec
CONSTANTS
  w1 = w1
  w2 = w2
  b1 = b1
  b2 = b2
  s1 = s1
  s2 = s2
  Users = {1, 2}
  Writers = {w1, w2}
  Builders = {b1, b2}
  Syncs = {s1, s2}
  Second = 2
  MaxRetries = 2
  MaxBusy = 2
  MaxStarts = 4
  MaxWins = 1
  MaxClock = 3
SYMMETRY Alike
INVARIANTS
  TypeOK
  WinsCounted
  RankingIsOneList
  BackupComplete
CHECK_DEADLOCK FALSE
