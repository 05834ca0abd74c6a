SPECIFICATION FairSpec
CONSTANTS
  r1 = r1
  r2 = r2
  call = call
  remote = remote
  CS = 2
  MinDelay = 2
  Delay = {1, 3}
  Request = {r1}
  LocalCall = {call}
  ClusterCall = {remote}
  ClusterTimeout = 1
  MaxOps = 2
  MaxTime = 4
INVARIANTS
  WakeCovers
  JobsDrained
  SettledOnce
  RepliedOnce
PROPERTIES
  FiresAsSet
  EveryHandleRuns
  EveryClusterCallEnds
CHECK_DEADLOCK FALSE
