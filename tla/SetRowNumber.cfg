SPECIFICATION Spec
CONSTANTS
  ConnIds <- OneConnection
  ReceiveMayTimeOut = FALSE
  SendMayFail = FALSE
  MayAnswer <- Conforming
  Bodies <- Streaming
  MaxGroups = 2
  MaxRows = 3
  MaxBatch = 2
  MaxStalls = 2
  StallsRepeat = FALSE
  RefusesAfterEnd = TRUE
  RowCosts = {1, 2}
  FlushLimit = 3
  Registered <- SetShapes
  UdfMaySwallow = TRUE
  MaxCalls = 3
  Implemented = {}
INVARIANT RowNamesInput
