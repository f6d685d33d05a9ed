SPECIFICATION Spec
CONSTANTS
  ConnIds <- OneConnection
  ReceiveMayTimeOut = FALSE
  SendMayFail = FALSE
  MayAnswer <- MayCloseEmit
  Bodies <- Streaming
  MaxGroups = 2
  MaxRows = 3
  MaxBatch = 2
  MaxStalls = 2
  StallsRepeat = FALSE
  RefusesAfterEnd = TRUE
  RowCosts = {1, 2}
  FlushLimit = 3
  Registered <- ScalarShapes
  UdfMaySwallow = TRUE
  MaxCalls = 3
  Implemented = {}
PROPERTY CloseAnsweredByClose
