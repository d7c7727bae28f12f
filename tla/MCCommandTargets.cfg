\* Two commands after each other; others change one thing between their steps.
\* The process may stop between commands: there is no next command.
CONSTANTS
  ann = ann
  ben = ben
  w1 = w1
  w2 = w2
  c1 = c1
  c2 = c2
  c3 = c3
  d1 = d1
  d2 = d2
  p = p
  q = q
  general = general
  random = random
  otter = otter
  f = f
  h = h
  None = None
  Accounts = {ann, ben}
  ZeroAccount = ann
  Workspaces = {w1, w2}
  Channels = {c1, c2, c3}
  Automations = {d1, d2}
  People = {p, q}
  Labels = {general, random, otter}
  WsOf <- MCWsOf
  SlugOf <- MCSlugOf
  Birth <- MCBirth
  Files = {f, h}
  MaxPerFile = 2
  MaxTotal = 3
  Requests <- MCRequests
  StartWorlds <- MCStartWorlds
  MaxCommands = 2
  MaxChanges = 1

SPECIFICATION Spec
CHECK_DEADLOCK FALSE
INVARIANTS
  NamesMeanOneTarget
  SendsLandWhereAsked
  MessagesCarryTheirFiles
  OneChangeOrAnError
