SPECIFICATION FairSpec
CONSTANTS
  N = 4
  Burst = 2
  Thresh = 2
  MaxReads = 2
  MaxPackets = 6
  HeaderOK = TRUE
  Primed = TRUE
  WaitExpires = FALSE
INVARIANTS TypeOK NoOverrun TakesNextPacket NoLostWakeup
PROPERTIES TouchesOnlyWhilePending QueueSpec CancelRetires StopEndsTransfer Drains
CHECK_DEADLOCK FALSE
