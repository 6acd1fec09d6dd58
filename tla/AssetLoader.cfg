CONSTANTS
  Assets = {a1, a2}
  Threads = {t1, t2}
  None = None
  RequestSlots = 4
  ResponseSlots = 3
  MaxUsers = 2
SPECIFICATION FairSpec
INVARIANTS
  ReferencesBalance
  OneRequestWhileLoading
  RequestsAreCovered
  SleepersNotForgotten
PROPERTIES
  EveryLoadEnds
  ShutDownEnds
CHECK_DEADLOCK FALSE
