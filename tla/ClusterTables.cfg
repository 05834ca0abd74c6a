SPECIFICATION Spec
CONSTANTS
  A = A
  B = B
  C = C
  toA = toA
  toB = toB
  toNone = toNone
  svc = svc
  nm = nm
  nm2 = nm2
  c1 = c1
  c2 = c2
  c3 = c3
  c4 = c4
  Query = Query
  NoPort = NoPort
  Daemon = {A, B}
  Node = {toA, toB, toNone}
  Name = {nm, nm2}
  Service = {svc}
  LetterService = {}
  Mortal = {svc}
  Call = {c1, c2, c3, c4}
  Workload <- TightCalls
  NodeCmd <- NodeCmdTight
  Registration <- RegisterOnB
  MaxConn = 1
  MaxNode = 2
  MaxName = 1
  MaxPending = 1
  MaxSession = 2
  MaxSock = 1
  MaxFault = 0
  MaxCrash = 0
  Parts = 2
INVARIANTS
  TypeOK
  HeldRequestsTracked
  AnsweredAtMostOnce
