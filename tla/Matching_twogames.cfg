SPECIFICATION Spec
CONSTANTS
  A = A
  B = B
  C = C
  a1 = a1
  a2 = a2
  b1 = b1
  c1 = c1
  Users = {A, B, C}
  Reqs = {a1, a2, b1, c1}
  Caller <- TwoTabs
  Admin = Admin
  NoUser = NoUser
  NoEntry = NoEntry
  MaxStarts = 4
  Failing = {}
  Deletable = {}
INVARIANTS
  OneActiveGame
