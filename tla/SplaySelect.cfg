\* Two daemons asked to register a job that needs one of them.
CONSTANTS
  Splayd = {d1, d2}
  Job = {j1}
  MaxNumber = 1
  MaxConn = 1
  NbSplayds = 1
  NbSelected = 2
  Strict = {}
  Scheduled = {j1}
  ListType = "RANDOM"
  NoJob = NoJob
  MaxFaults = 1
  MaxRestarts = 0
SPECIFICATION Spec
INVARIANTS
  UnwantedIsFreed
  RunningIsSelected
PROPERTIES
  JobsLive
