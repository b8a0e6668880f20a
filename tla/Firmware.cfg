SPECIFICATION FairSpec
CONSTANTS
  Loaders = {l1}
  External = {"e1", "e2"}
  Internal = {"i1", "i2"}
  Text <- MCText
  Boards <- MCBoards
  Dirs <- MCDirs
  MaxFaults = 3
  MaxCycles = 2
INVARIANTS TypeOK NeverRunsJunk
PROPERTIES BootSpec Reconnects
CHECK_DEADLOCK FALSE
