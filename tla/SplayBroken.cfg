\* A connected daemon loses its link.
CONSTANTS
  Splayd = {d1}
  Job = {j1}
  MaxNumber = 1
  MaxConn = 1
  NbSplayds = 1
  NbSelected = 1
  Strict = {}
  Scheduled = {}
  ListType = "HEAD"
  NoJob = NoJob
  MaxFaults = 1
  MaxRestarts = 0
SPECIFICATION FairSpec
PROPERTIES
  BrokenLinkIsLeft
