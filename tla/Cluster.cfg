SPECIFICATION Spec
CONSTANTS
  A = A
  B = B
  C = C
  toA = toA
  toB = toB
  toNone = toNone
  svc = svc
  nm = nm
  nm2 = nm2
  c1 = c1
  c2 = c2
  c3 = c3
  c4 = c4
  Query = Query
  NoPort = NoPort
  Daemon = {A, B}
  Node = {toB}
  Name = {nm}
  Service = {svc}
  LetterService = {}
  Mortal = {}
  Call = {c1, c2}
  Workload <- MixedCalls
  NodeCmd <- NodeCmdB
  Registration <- RegisterOnB
  MaxConn = 2
  MaxNode = 1
  MaxName = 1
  MaxPending = 2
  MaxSession = 5
  MaxSock = 2
  MaxFault = 1
  MaxCrash = 1
  Parts = 2
INVARIANTS
  NoOrphanedCall
  NoLeakedConnection
  ConnectionOrder
  BodiesWhole
  ServedAtMostOnce
