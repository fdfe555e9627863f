SPECIFICATION Spec
CONSTANTS
  t1 = t1
  t2 = t2
  f1 = f1
  b1 = b1
  b2 = b2
  b3 = b3
  v1 = v1
  v2 = v2
  Threads = {t1, t2}
  Frames = {f1}
  Buffers = {b1, b2}
  Initial = {b1, b2}
  Values = {v1, v2}
  Size <- OneByteEach
  Capacity = 1
  DeviceLimit = None
  Calls = {"access", "view", "serialize"}
  MaxCalls = 4
  MaxNesting = 2
  Outside = Outside
  None = None
  Absent = Absent
  Lost = Lost
CHECK_DEADLOCK FALSE
SYMMETRY Interchangeable
INVARIANTS TypeOK PointersValid UnspillableIsOnDevice MovesAreExclusive LocksAreReturned
PROPERTIES ImplementsStore ExposureIsPermanent LostOnlyByMemoryError
