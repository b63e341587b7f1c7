CONSTANTS
  r1 = r1
  r2 = r2
  p1 = p1
  Runs = {r1, r2}
  Ports = {p1}
  MaxAttempts = 2
  Free = Free
  Foreign = Foreign
  NoPort = NoPort
  ForeignAcceptsAny = TRUE
  PidAnswers = TRUE
  ProbeSeesListeners = TRUE
  SharedLoop = TRUE
SPECIFICATION FairSpec
INVARIANTS
  TypeOK
  ClaimIsOwn
  NoOrphan
  UsableIsVerified
  NoCrossTalk
PROPERTIES
  ImplementsExitClaim
  Terminates
CHECK_DEADLOCK FALSE
