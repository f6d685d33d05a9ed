SPECIFICATION Spec
CONSTANTS
  Columns <- MCColumns
  IntMax <- MCIntMax
  Rows <- MCRows
  Batches <- MCBatches
  NullSpans = {0, 10}
  Limit = 130
  MaxCalls = 3
INVARIANT TypeOK
INVARIANT NeverLate
INVARIANT EstimateInStep
PROPERTY ImplementsRowStream
