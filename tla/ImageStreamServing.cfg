SPECIFICATION Spec
CONSTANTS
  Line = 2
  Wants = {1, 2}
  MaxBuf = 4
  MaxWire = 1
  MaxUnits = 6
  MaxTriggers = 3
  MaxStarts = 3
  Overlap = FALSE
  Prompt = TRUE
  Idles = FALSE
  MaxFaults = 0
INVARIANTS TypeOK StreamInOrder NoHoleInTransfer TransferStartsOnLine NothingPredatesClear ReadingHasReader
CHECK_DEADLOCK FALSE
