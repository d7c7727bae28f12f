SPECIFICATION Spec
CONSTANTS
  c1 = c1
  c2 = c2
  prodWs = prodWs
  stagingWs = stagingWs
  None = None
  NoFile = NoFile
  Emptied = Emptied
  Garbled = Garbled
  Old = Old
  Commands <- MCCommands
  Profiles <- MCProfiles
  Workspaces <- MCWorkspaces
  HomeOf <- MCHomeOf
  FirstFiles <- MCFirstFiles
  MaxCrashes = 1
SYMMETRY Symmetry
INVARIANTS
  OwnCodeOnly
  OneKeyPerSignIn
  EnvironmentsStayApart
  SessionFileIsWhole
  BootstrapMirrorsResolve
PROPERTIES
  OthersKept
