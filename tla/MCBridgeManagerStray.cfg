SPECIFICATION Spec
CONSTANTS
  Requesters = {q1, q2}
  Notifiers = {n1}
  Borrowers = {c1}
  None = None
INVARIANTS
  ActiveTriggerServed
CHECK_DEADLOCK FALSE
