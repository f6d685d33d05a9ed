SPECIFICATION Spec
CONSTANTS
  Columns <- NegativeColumns
  IntMax <- MCIntMax
  Rows <- NegativeRows
  Batches = {}
  NullSpans = {0}
  Limit = 60
  MaxCalls = 6
INVARIANT EstimateBoundsFrame
