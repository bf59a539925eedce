SPECIFICATION LinkSpec
CONSTANTS
  MaxSeq = 3
  MaxSeqJump = 2
  RetransmitWindow = 1
  MaxNakRetries = 2
  RecvBufferRepaintThreshold = 2
  NakTimeouts = {1}
  CheckInterval = 1
  MaxAge = 2
  MaxLosses = 2
  MaxDups = 1
  Timely = TRUE
INVARIANTS DataRecovered
PROPERTY BufferDrains
CHECK_DEADLOCK FALSE
