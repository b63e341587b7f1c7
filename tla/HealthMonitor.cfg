CONSTANTS
  t1 = t1
  t2 = t2
  Timers = {t1, t2}
  MaxRows = 4
  Limit = 2
  MaxFaults = 1
  Linkless = {3}
  Broken = {1}
  None = None
SPECIFICATION FairSpec
INVARIANTS
  RunningHasChain
  RunsAsEnabled
PROPERTIES
  DeletedStaysDeleted
  StopEndsChains
  CheckedAgain
CHECK_DEADLOCK FALSE
