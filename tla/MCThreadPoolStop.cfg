SPECIFICATION FairSpec
CONSTANTS
  ThreadNum = 1
  MaxTasks = 2
  MaxStarts = 1
PROPERTY StopExecutesAll
CHECK_DEADLOCK FALSE
