SPECIFICATION Spec
CONSTANTS
  MaxConns = 3
  MaxFunctors = 2
INVARIANTS
  TypeOK
  TimerOnlyAfterOverlap
  SecondNeedsSend
  FaultHasCause
\* A client with a fault does nothing any more.
CHECK_DEADLOCK FALSE
