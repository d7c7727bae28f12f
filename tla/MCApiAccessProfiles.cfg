\* Profiles of one daemon, against response-cache.ts on per-auth scoping.
SPECIFICATION Spec
CONSTANTS
  c1 = c1
  c2 = c2
  c3 = c3
  a1 = a1
  a2 = a2
  Commands <- ThreeCommands
  Accounts <- TwoAccounts
  Boot = a1
  Paths <- TwoPaths
  ZeroBacked <- OnlyChannels
  MaxRetries = 1
  None = None
INVARIANT
  ProfilesAreSeparate
SYMMETRY CommandSymmetry
\* When all commands are done and nothing is left to change.
CHECK_DEADLOCK FALSE
