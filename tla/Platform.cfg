SPECIFICATION Spec
CONSTANTS
  XCnt = 2
  YCnt = 2
  BUFFER_TAM = 8
  CONSTANT_PACKET_SIZE = 13
  BUFFER_SIZE = 16
  DMNI_TIMER = 16
  TASK_PER_PE = 2
  TIME_BOUND = 0
  BODY_SIZE = 14
  NoPacket <- MCNoPacket
  MapperAddress <- MCMapperAddress
  MonitorAddress <- MCMonitorAddress
  IoPe <- MCIoPe
  IoPort <- MCIoPort
  ma_start <- MCma_start
  app_start <- MCapp_start
  Places <- MCPlaces
  Plans <- MCPlans
INVARIANT OutputsAreHeld
INVARIANT InterruptPerPacket
INVARIANT TableFollowsReports
INVARIANT KernelsBehave
PROPERTY PacketsArriveInOrder
PROPERTY EverythingArrives
PROPERTY EverythingInjected
PROPERTY QueueNeverWraps
