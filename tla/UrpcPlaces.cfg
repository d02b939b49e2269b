\* Two calls, one at a time.
CONSTANTS
  Call = {k1, k2}
  Ping = {k2}
  Max = 1
  Timeout = 3
  RetryNumber = 2
  RetryAfter = 1
  CleaningAfter = 4
  TryFree = TRUE
  MaxCopies = 0
SPECIFICATION Spec
INVARIANTS
  PlacesComeBack
CHECK_DEADLOCK FALSE
