SPECIFICATION Spec
CONSTANTS
  k1 = k1
  k2 = k2
  fileA = fileA
  fileB = fileB
  w1 = w1
  w2 = w2
  c1 = c1
  c2 = c2
  none = none
  Kid = {k1, k2}
  Wait = {w1, w2}
  Program <- Programs
  MaxProcesses = 1
  MaxOutput = 2
  Room = 1
  Allowance <- AllowanceOf
  None = none
  Absent = none
  Path = {fileA, fileB}
  Call = {c1, c2}
  Content <- Contents
  Policy <- Policies
  Default <- Whole
  MaxSyncs = 1
  Disk <- Files
  Cwd = 1
  Main <- MainFile
  Scripts <- SomeScripts
  Late <- LateRequests
  MaxLate = 2
  MaxModule = 7
INVARIANTS
  OneModule
  OutputWhole
  FilesTold
PROPERTY
  WaitsSettle
CHECK_DEADLOCK FALSE
