SPECIFICATION MockSpec
CONSTANTS
  ConnIds <- OneConnection
  ReceiveMayTimeOut = TRUE
  SendMayFail = FALSE
  MayAnswer <- Conforming
  Bodies <- Streaming
  MaxGroups = 4
  MaxRows = 3
  MaxBatch = 3
  MaxStalls = 0
  StallsRepeat = FALSE
  RefusesAfterEnd = TRUE
  RowCosts = {1, 2}
  FlushLimit = 3
  Registered <- Shapes
  UdfMaySwallow = TRUE
  MaxCalls = 3
  Implemented = {}
  InputRows = 5
  Encoded = 3
  Cycles = 4
  RowBytes <- MCRowBytes
  FrameLimit = 1
INVARIANT RowsCollected
PROPERTY ImplementsSession
