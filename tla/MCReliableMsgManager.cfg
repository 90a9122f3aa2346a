SPECIFICATION MCSpec
CONSTANTS
  c1 = c1
  c2 = c2
  t1 = t1
  t2 = t2
  NoConn = NoConn
  Conns = {c1, c2}
  Threads = {t1, t2}
  SeqMod = 3
  MaxRetry = 3
  Timeout = 0
  AckGap = 1
  AckBatch = 1
  MaxSends = 3
  MaxPeer = 4
INVARIANTS
  TypeOK
  RetryBudget
  OnlyRacingSendsRemain
  HandledOnceInOrder
  NothingSkipped
PROPERTIES
  GiveUpOnlyExhausted
  AcksOnlyByClock
  PendingDrains
\* Once the connections are closed and the bounds reached, nothing is left to do.
CHECK_DEADLOCK FALSE
