SPECIFICATION LoggerSpec
CONSTANTS
  Thread = {t1, t2}
  Main = t1
  MaxCall <- TwoEach
  Handler = {h0, h1, h2}
  Graylog = {h2}
  Capacity = 1
  Offered <- ConsoleCalls
  Level = {3}
  WorkerThread = WorkerThread
  Nobody = Nobody
  Console = {h0, h1}
  Default = h0
INVARIANTS
  HandledInOrder
  AddedGetsTheRest
  DrainedByWorker
  OwnedIsAlive
  DestroyerLosesNothing
  OneConsole
  NoStaleConsole
CHECK_DEADLOCK FALSE
