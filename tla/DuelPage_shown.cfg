SPECIFICATION Spec
CONSTANTS
  Me = Me
  Opp = Opp
  Worker = Worker
  None = None
  Numbers <- TwoNumbers
  Secret <- SameSecret
  MaxTurn = 3
  MaxMishaps = 1
  MaxSends = 2
CONSTRAINT FirstGuessOrInPlay
INVARIANTS
  TypeOK
  GuessesShown
  EndShown
CHECK_DEADLOCK FALSE
