\* Two tasks, one of them with two runners, one kill.
SPECIFICATION FairSpec
CONSTANTS
  t1 = t1
  t2 = t2
  r1 = r1
  r2 = r2
  r3 = r3
  Tasks <- TwoTasks
  Runners <- ThreeRunners
  Job <- Jobs
  First <- Firsts
  Targeted <- OnlyT1
  MaxPosts = 2
  MaxKills = 1
  None = None
  Blank = Blank
INVARIANTS
  ToldOnce
  ResultIsKept
PROPERTIES
  TakenTwiceOnlyBeforeStart
  TaskIsRelayed
  ImplementsLife
\* All tasks are over.
CHECK_DEADLOCK FALSE
