SPECIFICATION Spec
CONSTANTS
  None = None
  Main = main
  Agents = {main, other}
  Services = {s1, s2}
  Settings = {o1, o2}
  Names = {name}
  MaxCommands = 5
  MaxMishaps = 4
INVARIANTS
  RunsAsInstalled
  RemovedStaysGone
CHECK_DEADLOCK FALSE
