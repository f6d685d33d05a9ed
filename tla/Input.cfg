SPECIFICATION Spec
CONSTANTS
  Columns <- MCColumns
  IntMax = 7
  Int64Max = 7
  Batches <- MCBatches
  MaxBatches = 4
INVARIANT ReadsOwnRow
PROPERTY ImplementsRowCursor
