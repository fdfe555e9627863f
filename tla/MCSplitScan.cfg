SPECIFICATION FairSpec
CONSTANTS
  Requests <- MCRequests
  ThreadBytes = 2
  TileBytes = 4
  TilesPerChunk = 3
  SpareTiles = 1
  LoadSize = 4
CHECK_DEADLOCK FALSE
INVARIANTS SplitTypeOK PrefixesAreTrue RowsAreExact
PROPERTIES SplitReturns
