SPECIFICATION FairSpec
CONSTANTS
  Thread = {t1, t2}
  Main = t1
  MaxCall <- TwoEach
  Handler = {h1, h2}
  Graylog = {h2}
  Capacity = 1
  Offered <- AllCalls
  Level = {6}
  WorkerThread = WorkerThread
  Nobody = Nobody
INVARIANTS
  TypeOK
  FieldsInOrder
  EffectBeforeReturn
PROPERTIES
  FlushAsksEveryHandler
  CallsReturn
CHECK_DEADLOCK FALSE
