SPECIFICATION LifecycleSpec
CONSTANTS
  BaseDelay = 1
  MaxDelay = 5000
INVARIANTS
  FailedAttemptIsRetried
CHECK_DEADLOCK FALSE
