SPECIFICATION StreamSpec
CONSTANTS
  BaseDelay = 1
  MaxDelay = 3
  Kinds = {"short", "long"}
  Wire <- ShortAndLong
  Canon <- BothShort
  MaxSent = 2
INVARIANTS
  BufferIsTheTail
CHECK_DEADLOCK FALSE
