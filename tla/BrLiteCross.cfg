SPECIFICATION FairSpec
CONSTANTS
  XCnt = 4
  YCnt = 1
  CAM_SIZE = 4
  CLEAR_INTERVAL = 50
  ID_CNT = 31
  BUFFER_SIZE = 4
  Outgoing <- RowOutgoing
  Poppers = {}
  Prompt <- RowPrompt
PROPERTY EveryMessageHeard
CHECK_DEADLOCK FALSE
