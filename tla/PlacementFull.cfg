SPECIFICATION FairSpec
CONSTANTS
  XCnt = 3
  YCnt = 3
  MaxTasks = 2
  Apps <- MCApps
  TaskCnt <- MCTaskCnt
  Succs <- MCSuccs
  Static <- FullStatic
  Migratable = {}
  Loads <- FullLoads
INVARIANT WindowInMesh
CHECK_DEADLOCK FALSE
