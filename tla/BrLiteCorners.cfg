SPECIFICATION FairSpec
CONSTANTS
  XCnt = 2
  YCnt = 2
  CAM_SIZE = 4
  CLEAR_INTERVAL = 40
  ID_CNT = 31
  BUFFER_SIZE = 4
  Outgoing <- CornersOutgoing
  Poppers <- CornersPoppers
  Prompt <- CornersPrompt
INVARIANT ClearsComeLast ClearFindsItsLine
PROPERTY ImplementsBroadcast FreshHandshakes EveryMessageHeard TablesEmptied
CHECK_DEADLOCK FALSE
