CONSTANTS
  Producers = {p1}
  Consumers = {c1}
  Messages = {m1, m2}
  NoMessage = NoMessage
  Length = 3
  Dirty = {m2}
  Persistent = {p1}
  Spurious = FALSE
SPECIFICATION FairAttemptSpec
INVARIANTS
  RefusedOnlyWhenFull
PROPERTIES
  AlwaysPunctual
  EveryMessageArrives
