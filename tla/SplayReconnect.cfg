\* One daemon that loses its connection and comes back, or a controller that
\* stops anywhere and is started again.
CONSTANTS
  Splayd = {d1}
  Job = {j1}
  MaxNumber = 1
  MaxConn = 2
  NbSplayds = 1
  NbSelected = 1
  Strict = {}
  Scheduled = {}
  ListType = "HEAD"
  NoJob = NoJob
  MaxFaults = 1
  MaxRestarts = 1
SPECIFICATION FairSpec
INVARIANTS
  TypeOK
  SendingHasSender
  TempHasWriter
  RowMeansJob
  NeverRegisteredTwice
PROPERTIES
  JobsLiveOn
  Delivered
  ListBeforeStart
