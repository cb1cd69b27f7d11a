SPECIFICATION Spec
CONSTANTS
  Me = Me
  Opp = Opp
  Worker = Worker
  None = None
  Numbers <- TwoNumbers
  Secret <- SameSecret
  MaxTurn = 1
  MaxMishaps = 1
  MaxSends = 2
CONSTRAINT Watched
INVARIANTS
  OpponentCountShown
CHECK_DEADLOCK FALSE
