SPECIFICATION FairSpec
CONSTANTS
  p1 = p1
  p2 = p2
  mt = mt
  a1 = a1
  a2 = a2
  b1 = b1
  b2 = b2
  c1 = c1
  None = None
  NoPE = None
  MapperTask = mt
  PEs <- MCPEs
  MaxTasks = 2
  AppCnt = 4
  Tasks <- MixedTasks
  AppOf <- MixedAppOf
  Static <- MixedStatic
  Migratable = {a1, c1}
  Abortable = {}
INVARIANT NoOvercommit
CHECK_DEADLOCK FALSE
