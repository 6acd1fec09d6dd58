CONSTANTS
  NumConnections = 3
  NumGenerations = 4
  Remotes = {r1, r2}
  NoRemote = NoRemote
  InStreams = {i1}
  OutStreams = {o1}
  MaxAccepts = 5
  None = None
SPECIFICATION Spec
INVARIANTS
  MapMatchesSlots
  TransmitterReachesItsPeer
  GameKnowsItsPeers
PROPERTIES
  EventsArePaired
  OnlyEarlyDataIsLost
CHECK_DEADLOCK FALSE
