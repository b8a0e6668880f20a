SPECIFICATION FairSpec
CONSTANTS
  Line = 2
  Wants = {1, 2}
  MaxBuf = 2
  MaxWire = 1
  MaxUnits = 2
  MaxTriggers = 2
  MaxStarts = 2
  Overlap = FALSE
  Prompt = TRUE
  Idles = TRUE
  MaxFaults = 1
INVARIANT StreamInOrder
PROPERTIES StreamingLampGoesOff ArmedStreamIsRead
CHECK_DEADLOCK FALSE
