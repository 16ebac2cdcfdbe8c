SPECIFICATION TestSpec
CONSTANTS
  Thread = {t1}
  MaxMessage = 5
  FlushCall = {f1}
  Capacity = 3
  MessageAdditionLimit = 1
  FrameLen = 2
  Endpoint = {e1}
  V6 = {}
  NoEndpoint = NoEndpoint
  MaxFaults = 2
  MaxConnection = 5
  BufferSize = 2
  NrOfMessages = 2
INVARIANTS
  ExpectationsHold
  OneServerOperation
  ReceivedInOrder
PROPERTY TestsEnd
CHECK_DEADLOCK FALSE
