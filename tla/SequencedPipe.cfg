CONSTANTS
  MaxSent = 300
  MaxDelay = 3
SPECIFICATION Spec
INVARIANTS
  NeverGoesBack
CHECK_DEADLOCK FALSE
