SPECIFICATION FairSpec
CONSTANTS
  p1 = p1
  p2 = p2
  mt = mt
  a1 = a1
  a2 = a2
  b1 = b1
  b2 = b2
  c1 = c1
  None = None
  NoPE = None
  MapperTask = mt
  PEs <- MCPEs
  MaxTasks = 2
  AppCnt = 3
  Tasks <- DynamicTasks
  AppOf <- DynamicAppOf
  Static <- DynamicStatic
  Migratable = {a1, b1}
  Abortable = {}
INVARIANT PagesOutliveTasks KernelsFit MigratedExpected HaltWhenDone NoDanglingTask
PROPERTY NoResurrection HaltsAfterApps
CHECK_DEADLOCK FALSE
