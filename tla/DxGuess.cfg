SPECIFICATION FairSpec
CONSTANTS
  Wrap = 32
  PitchLines = 1
  DefaultPitch = 3
  EdgeWait = 3
  Divisors = {4, 6}
  Dirs <- GuessDirs
  Known = {FALSE}
  Captures <- NoisyCaptures
  VisibleUnit = 3
  InfraredUnit = 2
  MinMarkers = 4
  MinReported = 5
  MinPeriod = 2
  Steps = {3}
  LastFeed = 3
  MaxGap = 6
  MaxCounter = 15
  MaxTriggers = 1
INVARIANT LineMeasured
PROPERTY CodesKeepComing
CHECK_DEADLOCK FALSE
