SPECIFICATION LoggerSpec
CONSTANTS
  Thread = {t1, t2}
  Main = t1
  MaxCall <- ThreeEach
  Handler = {h0, h1}
  Graylog = {}
  Capacity = 1
  Offered <- FormatCalls
  Level = {3}
  WorkerThread = WorkerThread
  Nobody = Nobody
  Console = {h0, h1}
  Default = h0
INVARIANT CreatorApplied
CHECK_DEADLOCK FALSE
