SPECIFICATION Spec
CONSTANTS
  P1 = P1
  P2 = P2
  NoPlayer = NoPlayer
  NoKey = NoKey
  c1 = c1
  c2 = c2
  c3 = c3
  Conns = {c1, c2, c3}
  Owner <- Reconnected
  TurnWorker = TurnWorker
  SecretWorker = SecretWorker
  Main = Main
  TurnDuration = 1
  SecretSetup = 1
  GameLockTTL = 1
  MaxClock = 2
  MaxTurn = 2
  MaxFaults = 0
  MaxCrashes = 0
  MaxDeletes = 1
SYMMETRY SameOwner
INVARIANTS
  TypeOK
  TimerNotAhead
  GuessesAlternate
  DuelInv
PROPERTIES
  NoAutoGuessInFirstTurn
  ImplementsDuel
CHECK_DEADLOCK FALSE
