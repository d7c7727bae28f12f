SPECIFICATION ClientFairSpec
CONSTANTS
  c1 = c1
  c2 = c2
  v1 = v1
  v2 = v2
  None = None
  Clients = {c1}
  Daemons = {d1, d2, d3}
  Versions = {v1}
  VersionOf <- SameVersion
  LongRunning <- RefusedByOther
  PsAvailable = TRUE
  AlwaysOn = {d3}
PROPERTIES
  EveryInvocationFinishes
  UnreachableDaemonExits
CHECK_DEADLOCK FALSE
