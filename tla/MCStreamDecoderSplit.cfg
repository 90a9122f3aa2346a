SPECIFICATION Spec
CONSTANTS
  c1 = c1
  c2 = c2
  Conns = {c1}
  HeadSize = 2
  MaxBody = 2
  Streams <- MCGoodStreams
INVARIANT GoodStreamNeverFails
CHECK_DEADLOCK FALSE
