SPECIFICATION Spec
CONSTANTS
  ParquetRequests <- MCParquetRequests
  MinSubpass = 2
  HeaderBytes = 0
  MaxEmpty = 2
  PackRequests <- MCPackRequests
  BatchBytes = 8
  Align = 4
  WordBits = 2
  SizeLimit = 100000
CHECK_DEADLOCK FALSE
INVARIANTS AccessesStayInside ChunksAreTrue EndIsSeen
PROPERTIES ImplementsStream
