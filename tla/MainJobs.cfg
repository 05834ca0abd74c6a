SPECIFICATION FairSpec
CONSTANTS
  r1 = r1
  r2 = r2
  call = call
  remote = remote
  CS = 2
  MinDelay = 2
  Delay = {}
  Request = {r1}
  LocalCall = {}
  ClusterCall = {}
  ClusterTimeout = 2
  MaxOps = 2
  MaxTime = 4
PROPERTIES
  EveryJobRuns
CHECK_DEADLOCK FALSE
