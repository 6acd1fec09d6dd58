CONSTANTS
  Clients = {c1, c2}
  Tokens = {t1}
  GameIds = {g1}
  AnyGame = AnyGame
  JoinIds = {AnyGame}
  None = None
  NoToken = NoToken
  MaxPlayers = 2
  MaxTeams = 2
  MaxCountdown = 0
  MaxRoundTimer = 0
  WaitForPlayers = 0
  WaitForLoad = 0
  ServerUpdateRate = 1
  SnapsInFlight = 1
SPECIFICATION SessionSpec
SYMMETRY Symmetry
INVARIANTS
  ConnectedClientOwnsItsSlot
  ClientShowsMatchOfServer
CHECK_DEADLOCK FALSE
