CONSTANTS
  Clients = {c1}
  Tokens = {t1, t2}
  GameIds = {g1}
  AnyGame = AnyGame
  JoinIds = {AnyGame}
  None = None
  NoToken = NoToken
  MaxPlayers = 2
  MaxTeams = 2
  MaxCountdown = 1
  MaxRoundTimer = 1
  WaitForPlayers = 1
  WaitForLoad = 1
  ServerUpdateRate = 2
  SnapsInFlight = 2
SPECIFICATION SessionSpec
INVARIANTS
  HandshakeIsNeverLost
  GameplayKeepsItsMatch
CHECK_DEADLOCK FALSE
