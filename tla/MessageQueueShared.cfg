CONSTANTS
  Producers = {p1, p2}
  Consumers = {c1, c2}
  Messages = {m1, m2}
  NoMessage = NoMessage
  Length = 3
  Dirty = {}
  Persistent = {}
  Spurious = TRUE
SPECIFICATION SharedSpec
SYMMETRY Symmetry
INVARIANTS
  SlotsHaveOneOwner
PROPERTIES
  ImplementsQueue
CHECK_DEADLOCK FALSE
