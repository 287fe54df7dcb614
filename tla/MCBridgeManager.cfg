SPECIFICATION FairManagerSpec
CONSTANTS
  Requesters = {q1, q2}
  Notifiers = {n1}
  Borrowers = {c1}
  None = None
INVARIANTS
  OwnersCounted
  OneRequester
PROPERTIES
  EveryComerIsServed
CHECK_DEADLOCK FALSE
