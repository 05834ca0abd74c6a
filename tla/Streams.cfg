SPECIFICATION Spec
CONSTANTS
  r1 = r1
  pipe1 = pipe1
  user1 = user1
  any = any
  none = none
  Source <- SourceChunks
  Reader = {r1}
  Pipe = pipe1
  User = user1
  Size = {1}
  AnySize = any
  None = none
  MaxCalls = 3
  MaxFails = 1
  Chunks = 3
  K = 3
  MaxWhims = 2
  SlowSpins = TRUE
INVARIANTS
  ReadableKeepsBytes
  PipeDelivers
  PipelineDelivers
PROPERTIES
  StreamsSettle
CHECK_DEADLOCK FALSE
