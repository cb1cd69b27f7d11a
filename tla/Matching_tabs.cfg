SPECIFICATION FairSpec
CONSTANTS
  A = A
  B = B
  C = C
  a1 = a1
  a2 = a2
  b1 = b1
  c1 = c1
  Users = {A, B}
  Reqs = {a1, a2, b1}
  Caller <- TwoTabs
  Admin = Admin
  NoUser = NoUser
  NoEntry = NoEntry
  MaxStarts = 3
  Failing = {b1}
  Deletable = {B}
INVARIANTS
  TypeOK
  FirstComeIsPlayer1
  OneGamePerSingleTab
  MatchingInv
PROPERTIES
  MatchConsumesEntries
  InnocentsStay
  RequestsReturn
