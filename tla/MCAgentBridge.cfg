SPECIFICATION FairSpec
CONSTANTS
  MaxForeign = 3
  MaxCommands = 1
  MaxRestarts = 1
  ContextTries = 2
  MaxRetries = 3
INVARIANTS
  RepliesFollowEvents
  AnswersOnlyOthers
  NothingIsForgotten
PROPERTY EveryTaskEnds
\* The process may exit.
CHECK_DEADLOCK FALSE
