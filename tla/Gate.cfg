SPECIFICATION Spec
CONSTANTS
  f1 = f1
  f2 = f2
  f3 = f3
  Fd <- Clients
  Frames <- Streams
  Radix = 2
  QueueSize = 2
  MaxClient = 2
  MaxSegment = 4
  MaxMail = 2
  MaxClose = 1
  MaxThrow = 1
INVARIANTS
  FramesDelivered
  NothingInvented
  NoLeakedFrame
PROPERTIES
  MessagesWhileConnected
CHECK_DEADLOCK FALSE
