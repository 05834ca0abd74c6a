SPECIFICATION Spec
CONSTANTS
  Key = {"http", "https"}
  Calls <- SomeCalls
  MaxTask = 3
  Beside <- BesideOne
  Shape <- Shapes
  MaxPerHost = 1
  MaxParts = 2
  MaxFaults = 1
  MaxFd = 3
  MaxMail = 1
INVARIANTS
  ConnectionsOwned
  OwnAnswer
  SentAtMostTwice
PROPERTIES
  RequestsSettle
CHECK_DEADLOCK FALSE
