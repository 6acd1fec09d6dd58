CONSTANTS
  Clients = {c1, c2}
  Tokens = {t1, t2}
  GameIds = {g1}
  AnyGame = AnyGame
  JoinIds = {AnyGame, g1}
  None = None
  MaxPlayers = 3
  MaxTeams = 2
  MaxCountdown = 1
  MaxRoundTimer = 1
  WaitForPlayers = 1
  WaitForLoad = 1
  ServerUpdateRate = 1
SPECIFICATION Spec
INVARIANTS
  EntriesOwnSlots
  StartedMatchIsLoaded
PROPERTIES
  WaitingEnds
  StartedMatchIsDecided
CHECK_DEADLOCK FALSE
