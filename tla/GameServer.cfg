CONSTANTS
  Clients = {c1, c2, c3}
  Tokens = {t1}
  GameIds = {g1, g2}
  AnyGame = AnyGame
  JoinIds = {AnyGame}
  None = None
  MaxPlayers = 3
  MaxTeams = 2
  MaxCountdown = 1
  MaxRoundTimer = 1
  WaitForPlayers = 1
  WaitForLoad = 1
  ServerUpdateRate = 1
SPECIFICATION Spec
SYMMETRY Symmetry
INVARIANTS
  EntriesPointBack
  AttachedAreListed
  BrokenOnlyByRefusal
  EventsReachStartedMatch
  DecidedByTheClock
  EveryTeamCanBeFilled
  KickIndexInList
PROPERTIES
  ResultIsFinal
CHECK_DEADLOCK FALSE
