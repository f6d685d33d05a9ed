SPECIFICATION Spec
CONSTANTS
  ConnIds <- OneConnection
  ReceiveMayTimeOut = TRUE
  SendMayFail = FALSE
  MayAnswer <- MayEndAnywhere
  Bodies <- DecodableBatches
  MaxGroups = 2
  MaxRows = 3
  MaxBatch = 2
  MaxStalls = 2
  StallsRepeat = FALSE
  RefusesAfterEnd = TRUE
  RowCosts = {1, 2}
  FlushLimit = 3
  Registered <- Shapes
  UdfMaySwallow = TRUE
  MaxCalls = 3
  Implemented = {"columns", "import"}
INVARIANT NoRowLost
INVARIANT BufferBounded
INVARIANT OneValuePerRow
INVARIANT EveryRowOnce
INVARIANT RecordedIsFresh
INVARIANT CallsSettled
INVARIANT FinalMessage
PROPERTY NumberOfCurrentRow
PROPERTY EndStopsTheFramework
PROPERTY GroupOutputDelivered
