SPECIFICATION Spec
CONSTANTS
  c1 = c1
  c2 = c2
  t1 = t1
  t2 = t2
  NoConn = NoConn
  Conns = {c1}
  Threads = {t1}
  SeqMod = 3
  MaxRetry = 1
  Timeout = 0
  AckGap = 0
  AckBatch = 1
  MaxSends = 1
  MaxPeer = 0
INVARIANT AckedNotPending
CHECK_DEADLOCK FALSE
