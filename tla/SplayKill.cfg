\* A job is killed while it registers.
CONSTANTS
  Splayd = {d1}
  Job = {j1}
  MaxNumber = 1
  MaxConn = 1
  NbSplayds = 1
  NbSelected = 1
  Strict = {}
  Scheduled = {}
  ListType = "HEAD"
  NoJob = NoJob
  MaxFaults = 0
  MaxRestarts = 0
SPECIFICATION Spec
INVARIANTS
  KilledIsFreed
