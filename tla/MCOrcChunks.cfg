SPECIFICATION Spec
CONSTANTS
  Requests <- MCOrcRequests
  ColumnLimit = 7
  MaxEmpty = 2
CHECK_DEADLOCK FALSE
INVARIANTS StripesAreLoaded RangesFit EndIsSeen
PROPERTIES ImplementsStream
