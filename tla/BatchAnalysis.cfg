CONSTANTS
  N = 4
  Limit = 2
  Probes = {"network", "connectivity", "tls"}
  Enrichers = {"tunnel", "threat"}
  MayRaise = {"network", "connectivity", "tunnel"}
SPECIFICATION FairSpec
INVARIANTS
  PermitsConserved
  Partition
  InputsComplete
PROPERTY BatchReturns
CHECK_DEADLOCK FALSE
