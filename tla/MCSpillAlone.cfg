SPECIFICATION Spec
CONSTANTS
  t1 = t1
  t2 = t2
  f1 = f1
  b1 = b1
  b2 = b2
  b3 = b3
  v1 = v1
  v2 = v2
  Threads = {t1}
  Frames = {}
  Buffers = {b1, b2, b3}
  Initial = {b1, b2}
  Values = {v1}
  Size <- OneIsLarge
  Capacity = 3
  DeviceLimit = 1
  Calls = {"access", "view", "spill", "unspill", "toLimit", "create", "createExposed", "createHost", "copy", "drop"}
  MaxCalls = 4
  MaxNesting = 1
  Outside = Outside
  None = None
  Absent = Absent
  Lost = Lost
CHECK_DEADLOCK FALSE
PROPERTIES FailsOnlyWhenNothingIsLeft EvictsLeastRecentlyUsed LimitIsKept
