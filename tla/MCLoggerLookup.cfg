SPECIFICATION LoggerSpec
CONSTANTS
  Thread = {t1, t2}
  Main = t1
  MaxCall <- TwoEach
  Handler = {h0, h1}
  Graylog = {}
  Capacity = 1
  Offered <- LookupCalls
  Level = {3}
  WorkerThread = WorkerThread
  Nobody = Nobody
  Console = {h0}
  Default = h0
INVARIANT AddedIsVisible
CHECK_DEADLOCK FALSE
