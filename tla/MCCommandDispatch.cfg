\* Three commands in one warm process, either host.
SPECIFICATION FairSpec
CONSTANTS
  r1 = r1
  r2 = r2
  r3 = r3
  Requests <- ThreeRequests
  Unfit <- OneUnfit
  Host = Host
INVARIANTS
  CleanUntilTimeout
  StdioAnswersEveryLine
PROPERTY
  HungCommandIsContained
\* The process may have exited, or have nothing left to do.
CHECK_DEADLOCK FALSE
