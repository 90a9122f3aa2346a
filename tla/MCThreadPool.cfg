SPECIFICATION FairSpec
CONSTANTS
  ThreadNum = 3
  MaxTasks = 4
  MaxStarts = 2
INVARIANTS
  TypeOK
  TakenOnceInOrder
  NoneSleepsOverWork
  QuietAfterStop
  NoneSleepsThroughStop
PROPERTIES
  TaskIsTaken
  StopReturns
\* Nothing is left to do when the pool is stopped and the bounds are reached.
CHECK_DEADLOCK FALSE
