SPECIFICATION Spec
CONSTANTS
  c1 = c1
  c2 = c2
  v1 = v1
  v2 = v2
  None = None
  Clients = {c1, c2}
  Daemons = {d1, d2}
  Versions = {v1, v2}
  VersionOf <- SameVersion
  LongRunning <- RefusedByOther
  PsAvailable = TRUE
  AlwaysOn = {}
SYMMETRY DaemonSymmetry
INVARIANTS
  ExactlyOnceUnlessUnsure
  QueueIsExact
PROPERTIES
  ImplementsService
CHECK_DEADLOCK FALSE
