SPECIFICATION MCSpec
CONSTANTS
  BaseDelay = 1
  MaxDelay = 5000
  Kinds = {"short", "long"}
  Wire <- ShortAndLong
  Canon <- ShortAndLong
  MaxSent = 3
  Requests = {r1, r2}
  Ids = {1, 2}
  None = None
INVARIANTS
  DecodedInOrder
  BufferIsTheTail
  SingleFlight
  ReconnectUnderWay
  AnsweredOnce
PROPERTIES
  SentIsDecoded
  BackoffFollowsOutage
  NoAttemptAfterClose
  Recovers
  CloseEndsSocket
  DrainSparesAnswers
  TakenIsAnswered
CHECK_DEADLOCK FALSE
