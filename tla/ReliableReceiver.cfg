SPECIFICATION Spec
CONSTANTS
  MaxSeq = 4
  MaxSeqJump = 3
  RetransmitWindow = 1
  MaxNakRetries = 2
  RecvBufferRepaintThreshold = 2
  NakTimeouts = {1, 2}
  CheckInterval = 1
  MaxAge = 4
INVARIANTS NothingForgotten RetriedInOrder NoStaleTracking
PROPERTIES BufferedNeverAbandoned ImplementsOrderedDelivery
CHECK_DEADLOCK FALSE
