SPECIFICATION Spec
CONSTANTS
  c1 = c1
  c2 = c2
  t1 = t1
  t2 = t2
  NoConn = NoConn
  Conns = {c1}
  Threads = {t1}
  SeqMod = 8
  MaxRetry = 1
  Timeout = 0
  AckGap = 1
  AckBatch = 2
  MaxSends = 0
  MaxPeer = 5
INVARIANT FewUnacked
CHECK_DEADLOCK FALSE
