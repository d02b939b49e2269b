\* A job with two ports and a timeline, and a plain job with one port.
CONSTANTS
  j1 = j1
  j2 = j2
  j3 = j3
  Job = {j1, j2, j3}
  NoJob = NoJob
  StartPort = 1
  EndPort = 7
  MaxPorts = 2
  MaxNumber = 2
  NbPorts <- JobNbPorts
  DieFree = {j2, j3}
  Timeline <- JobTimeline
  PerSecond = 2
  Pid = {1, 2}
  RandomStart = {6}
  MaxFaults = 1
SPECIFICATION FairSpec
INVARIANTS
  TypeOK
  DisjointPorts
  RunningHasPorts
  KeepsPorts
  NoLostProcess
  RunsOnTime
PROPERTIES
  ChurnEnds
