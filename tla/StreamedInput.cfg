SPECIFICATION Spec
CONSTANTS
  Calls = 2
  Parts = 2
INVARIANTS InputIsAsSent
CHECK_DEADLOCK FALSE
