SPECIFICATION FairSpec
CONSTANTS
  x1 = x1
  x2 = x2
  y1 = y1
  X = X
  Y = Y
  Conns = {x1, x2, y1}
  Tabs = {X, Y}
  TabOf <- TwoTabs
  NoConn = NoConn
  MaxAttempts = 2
  MaxMishaps = 1
  Timely = TRUE
INVARIANTS
  TypeOK
  OpenIsReachable
  NothingOutlivesHandlers
  NeverStranded
PROPERTIES
  AuthenticatedOrClosed
  Settles
CHECK_DEADLOCK FALSE
