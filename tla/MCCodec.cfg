SPECIFICATION Spec
CONSTANTS
  Messages <- MCMessages
  Masks <- MCMasks
  MaxSize = 21
INVARIANTS CrcIsRemainder AcceptedAsSent
CHECK_DEADLOCK FALSE
