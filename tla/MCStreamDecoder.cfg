SPECIFICATION Spec
CONSTANTS
  c1 = c1
  c2 = c2
  Conns = {c1, c2}
  HeadSize = 2
  MaxBody = 2
  Streams <- MCStreams
INVARIANTS
  TypeOK
  InOrderPrefix
  Complete
  OobNeedsBadCrc
PROPERTIES
  FailureHasCause
  FailureIsPermanent
  SuspensionIsFatal
  FrameByFrame
\* Every peer's stream ends, and then nothing more arrives.
CHECK_DEADLOCK FALSE
