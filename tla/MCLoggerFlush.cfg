SPECIFICATION LoggerSpec
CONSTANTS
  Thread = {t1, t2}
  Main = t1
  MaxCall <- TwoEach
  Handler = {h0}
  Graylog = {}
  Capacity = 1
  Offered <- FlushCalls
  Level = {3}
  WorkerThread = WorkerThread
  Nobody = Nobody
  Console = {h0}
  Default = h0
INVARIANT FlushMeansWritten
CHECK_DEADLOCK FALSE
