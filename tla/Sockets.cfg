SPECIFICATION Spec
CONSTANTS
  MaxMail = 1
  Lengths = {65536}
  UserLengths = {126, 65536}
  PartLengths = {131072}
  Allowance <- AllowanceWs
  MaxRequests = 2
  MaxParts = 1
INVARIANTS
  MessagesWhole
  FramesSent
  EndsOnce
  NodeExchanges
PROPERTIES
  ConnectionEnds
CHECK_DEADLOCK FALSE
