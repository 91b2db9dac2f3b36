\* The application makes no more calls.
CHECK_DEADLOCK FALSE
CONSTANTS
  Second = 4
  Milli = 2
  Epoch = 5
  Requests = {0, 2, NoBuffer}
  NoBuffer = NoBuffer
  Limit = 2
  SocketRoom = 1
  AnswerMax = 2
  RecvBuffer = 3
  MaxSignals = 1
  MaxPackets = 1
  ReplyWait = 3
  MaxStray = 1
  MaxQueue = 2
  MaxFaults = 1
  MaxCalls = 2
SPECIFICATION Spec
INVARIANTS
  ProbesTypeOK
  StageOrder
  
  WaitBounded
  
  
  PingExplained

  
