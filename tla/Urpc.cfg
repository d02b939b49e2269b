\* A call and a ping, one at a time.
CONSTANTS
  Call = {k1, k2}
  Ping = {k2}
  Max = 1
  Timeout = 3
  RetryNumber = 2
  RetryAfter = 1
  CleaningAfter = 4
  TryFree = TRUE
  MaxCopies = 1
SPECIFICATION FairSpec
INVARIANTS
  TypeOK
  AnswerKept
  RunsBounded
  CallsLimited
PROPERTIES
  CallsEnd
  MessagesLeave
  AnswersLeave
CHECK_DEADLOCK FALSE
