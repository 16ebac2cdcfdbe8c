SPECIFICATION FairSpec
CONSTANTS
  Thread = {t1, t2}
  MaxCall = 2
INVARIANTS
  NeverDangling
PROPERTIES
  CallsComplete
CHECK_DEADLOCK FALSE
