\* Two jobs that want the only slot of a daemon.
CONSTANTS
  Splayd = {d1}
  Job = {j1, j2}
  MaxNumber = 1
  MaxConn = 1
  NbSplayds = 1
  NbSelected = 1
  Strict = {j2}
  Scheduled = {}
  ListType = "HEAD"
  NoJob = NoJob
  MaxFaults = 0
  MaxRestarts = 0
SPECIFICATION FairSpec
INVARIANTS
  NoOverbooking
PROPERTIES
  QueueDecided
  TimedOutLeaves
  RegistrationDecided
