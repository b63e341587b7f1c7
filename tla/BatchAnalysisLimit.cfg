CONSTANTS
  N = 3
  Limit = 2
  Probes = {"network", "connectivity", "tls"}
  Enrichers = {"tunnel", "threat"}
  MayRaise = {"network", "connectivity", "tunnel"}
SPECIFICATION Spec
INVARIANT WithinLimit
CHECK_DEADLOCK FALSE
