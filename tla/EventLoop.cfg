\* Two threads that create and kill each other, a lock, an event and a socket.
CONSTANTS
  Thread = {t1, t2}
  NoThread = NoThread
  mutex = mutex
  Lock = {mutex}
  Max <- LockMax
  Secure <- LockSecure
  Message = {m}
  Socket = {s}
  NoCall = NoCall
SPECIFICATION FairSpec
INVARIANTS
  TypeOK
  OnePlace
  NoLostWakeup
  NeverOverfull
  LockComesBack
PROPERTIES
  LocksAreMutexes
  FiredRuns
  TimedOutRuns
\* run() returns when there is nothing to run with the events at hand.
CHECK_DEADLOCK FALSE
