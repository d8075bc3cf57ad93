SPECIFICATION FairSpec
CONSTANTS
  p1 = p1
  p2 = p2
  mt = mt
  a1 = a1
  a2 = a2
  b1 = b1
  b2 = b2
  c1 = c1
  None = None
  NoPE = None
  MapperTask = mt
  PEs <- MCPEs
  MaxTasks = 3
  AppCnt = 4
  Tasks <- StaticTasks
  AppOf <- StaticAppOf
  Static <- StaticStatic
  Migratable = {}
  Abortable = {a2, b1}
INVARIANT TypeOK SlotsConserved NoOvercommit FailedCountExact AbortReachesTask IdentifiersFollowInjection
PROPERTY PendingIsMapped EveryAppReleased
CHECK_DEADLOCK FALSE
