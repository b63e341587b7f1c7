CONSTANTS
  t1 = t1
  t2 = t2
  Timers = {t1, t2}
  MaxRows = 1
  Limit = 2
  MaxFaults = 0
  Linkless = {}
  Broken = {}
  None = None
SPECIFICATION Spec
SYMMETRY TimerSymmetry
INVARIANT OneChain
CHECK_DEADLOCK FALSE
