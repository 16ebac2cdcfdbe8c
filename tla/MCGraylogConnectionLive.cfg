SPECIFICATION FairSpec
CONSTANTS
  Thread = {t1}
  MaxMessage = 2
  FlushCall = {f1}
  Capacity = 2
  MessageAdditionLimit = 1
  FrameLen = 2
  Endpoint <- MCEndpoint
  V6 <- MCV6
  NoEndpoint = NoEndpoint
  MaxFaults = 1
PROPERTIES
  EventuallySent
  EventuallyConnected
CHECK_DEADLOCK FALSE
