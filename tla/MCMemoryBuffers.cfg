SPECIFICATION FairSpec
CONSTANTS
  u1 = u1
  u2 = u2
  gcThread = gcThread
  exitHook = exitHook
  Users = {u1, u2}
  Cleaner = gcThread
  Hook = exitHook
  MaxObjects = 3
  MaxRefs = 2
  Modes <- MCModes
  None = None
CHECK_DEADLOCK FALSE
INVARIANTS MemTypeOK ShutdownIsClean
PROPERTIES ImplementsSharedMemory EverythingIsFreed
