SPECIFICATION Spec
CONSTANTS
  ParquetRequests <- MCEmptyTables
  MinSubpass = 2
  HeaderBytes = 0
  MaxEmpty = 2
  PackRequests = {}
  BatchBytes = 8
  Align = 4
  WordBits = 2
  SizeLimit = 100000
CHECK_DEADLOCK FALSE
INVARIANTS ParquetOnlyTheEndIsEmpty
