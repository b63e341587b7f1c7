CONSTANTS
  MaxConns = 2
  MaxQueued = 1
  None = None
SPECIFICATION FairSpec
INVARIANTS
  OneOpen
  QuietOffIsOff
  ClosedIsDisconnected
  UsableHasReader
PROPERTY ConnectEnds
CHECK_DEADLOCK FALSE
