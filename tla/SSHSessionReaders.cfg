CONSTANTS
  MaxConns = 2
  MaxQueued = 1
  None = None
SPECIFICATION Spec
INVARIANT OneReader
CHECK_DEADLOCK FALSE
