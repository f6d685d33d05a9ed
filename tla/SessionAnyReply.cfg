SPECIFICATION FairSpec
CONSTANTS
  ConnIds <- OneConnection
  ReceiveMayTimeOut = TRUE
  SendMayFail = TRUE
  MayAnswer <- Anything
  Bodies <- AllPayloads
  MaxGroups = 1
  MaxRows = 1
  MaxBatch = 1
  MaxStalls = 1
  StallsRepeat = TRUE
  RefusesAfterEnd = FALSE
  RowCosts = {1, 2}
  FlushLimit = 3
  Registered <- Shapes
  UdfMaySwallow = TRUE
  MaxCalls = 2
  Implemented = {"adapter"}
INVARIANT TypeOK
INVARIANT FinishedMeansClean
PROPERTY ImplementsContract
PROPERTY SessionEnds
