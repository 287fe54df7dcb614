SPECIFICATION Spec
CONSTANTS
  BaseDelay = 5
  MaxDelay = 5
  Requests = {r1, r2}
  Ids = {1, 2}
  None = None
INVARIANTS
  AnsweredByOwnHandler
CHECK_DEADLOCK FALSE
