SPECIFICATION Spec
CONSTANTS
  Sources <- MCSources
  Metas <- MCMetas
  Upper <- MCUpper
  HostSdk <- MCHostSdk
  Staged = {"libc.so.6"}
  Floor <- MCFloor
  Shipped <- MCShipped
  Conns = {c1, c2}
  Results <- MCResults
  MaxCalls = 4
INVARIANT TypeOK
INVARIANT LayoutKnown
INVARIANT RunsAsDeclared
INVARIANT ValidatedLoads
INVARIANT StringsTaken
INVARIANT FinalWord
INVARIANT OneBlockOn
INVARIANT RowsUntilError
INVARIANT StatementsClosed
