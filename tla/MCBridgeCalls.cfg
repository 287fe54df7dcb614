SPECIFICATION FairCallSpec
CONSTANTS
  BaseDelay = 5
  MaxDelay = 5
  i1 = i1
  n1 = n1
  None = None
  Calls = {i1, n1}
  Idempotent = {i1}
  IdSpace = 2
INVARIANTS
  PendingExact
  OwnAnswer
  NoForgottenWaiter
PROPERTIES
  MeetsContract
  EveryCallSettles
CHECK_DEADLOCK FALSE
