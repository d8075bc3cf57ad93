SPECIFICATION FairSpec
CONSTANTS
  XCnt = 6
  YCnt = 6
  MaxTasks = 2
  Apps <- MCApps
  TaskCnt <- MCTaskCnt
  Succs <- MCSuccs
  Static <- MCStatic
  Migratable = {"ring"}
  Loads <- ScatteredLoads
INVARIANT WindowInMesh WindowSuffices EveryTaskPlaced
PROPERTY GrowsOnlyWhenNoneFits SearchEnds
CHECK_DEADLOCK FALSE
