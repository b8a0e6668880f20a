SPECIFICATION Spec
CONSTANTS
  Line = 2
  Wants = {1, 2}
  MaxBuf = 4
  MaxWire = 1
  MaxUnits = 5
  MaxTriggers = 2
  MaxStarts = 3
  Overlap = FALSE
  Prompt = TRUE
  Idles = FALSE
  MaxFaults = 0
INVARIANT ServedIsCurrent
CHECK_DEADLOCK FALSE
