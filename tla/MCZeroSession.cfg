\* Two daemons one after the other, three tokens, two drops, two altered tables.
SPECIFICATION FairSpec
CONSTANTS
  MaxMints = 3
  MaxDrops = 2
  MaxStarts = 2
  MaxAltered = 2
PROPERTIES
  TrustedOnlyInSync
  SessionReturns
  EveryReadEnds
\* The last daemon has stopped.
CHECK_DEADLOCK FALSE
