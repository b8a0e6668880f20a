SPECIFICATION Spec
CONSTANTS
  Wrap = 32
  PitchLines = 1
  DefaultPitch = 4
  EdgeWait = 3
  Divisors = {4}
  Dirs <- StripDirs
  Known = {TRUE}
  Captures <- NoCaptures
  VisibleUnit = 3
  InfraredUnit = 2
  MinMarkers = 4
  MinReported = 5
  MinPeriod = 2
  Steps = {3}
  LastFeed = 9
  MaxGap = 6
  MaxCounter = 33
  MaxTriggers = 2
INVARIANTS TypeOK EvenCodes EntriesValid FilmStartPrecedes AnchoredLabels CounterTracks
PROPERTY LabelsAscend
CHECK_DEADLOCK FALSE
