CONSTANTS
  Clients = {c1, c2}
  Paths = {p, q}
  Values = {Empty, v}
  Empty = Empty
  Damaged = Damaged
  None = None
  v = v
  Transactions <- SetAndSetBack
  OutsideFiles <- FilledOrDamaged
  MaxTabs = 2
  MaxIncidents = 3
SPECIFICATION Spec
SYMMETRY Symmetry
INVARIANTS
  MessagesLeadToServer
  HotSpotsAreTransient
  UndoLeadsBack
  OnlyDoubledTabsAreMute
CHECK_DEADLOCK FALSE
