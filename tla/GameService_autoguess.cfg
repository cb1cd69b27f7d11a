SPECIFICATION PromptSpec
CONSTANTS
  P1 = P1
  P2 = P2
  NoPlayer = NoPlayer
  NoKey = NoKey
  c1 = c1
  c2 = c2
  c3 = c3
  Conns = {c1, c2}
  Owner <- OneEach
  TurnWorker = TurnWorker
  SecretWorker = SecretWorker
  Main = Main
  TurnDuration = 1
  SecretSetup = 1
  GameLockTTL = 1
  MaxClock = 3
  MaxTurn = 1
  MaxFaults = 0
  MaxCrashes = 0
  MaxDeletes = 0
PROPERTIES
  FirstTurnIsPlayed
CHECK_DEADLOCK FALSE
