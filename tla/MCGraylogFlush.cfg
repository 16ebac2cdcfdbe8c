SPECIFICATION Spec
CONSTANTS
  Thread = {t1, t2}
  MaxMessage = 2
  FlushCall = {f1}
  Capacity = 2
  MessageAdditionLimit = 1
  FrameLen = 2
  Endpoint <- MCEndpoint
  V6 <- MCV6
  NoEndpoint = NoEndpoint
  MaxFaults = 2
INVARIANT FlushTrueMeansReached
CHECK_DEADLOCK FALSE
