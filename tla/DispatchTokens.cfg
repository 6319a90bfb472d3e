\* One dispatcher, two devices on two pages, a sweep that sends to both at once; users rotating
\* their tokens; one event, one failure.
SPECIFICATION FairSpec
CONSTANTS
  quake = quake
  flood = flood
  NumDevices = 2
  Events <- MCOneEvent
  Passes = {worker}
  Tokens = {t1, t2}
  NoToken = NoToken
  Severity <- MCSeverity
  Floors <- MCFloors
  DefaultFloor = 3
  Breakthrough = 4
  Windows <- MCNoWindows
  Areas <- MCAll
  DaySlots = 1
  PageSize = 1
  MaxPages = 2
  ChunkSize = 2
  HttpRetries = 0
  SweepLimit = 2
  MaxAttempts = 2
  Cap = 2
  Interval = 0
  VolumeWindow = 0
  Retention = 1
  MaxAge = 1
  PassTime = 0
  MaxFaults = 1
  MaxEdits = 2
PROPERTIES LiveTokenKept EventuallyTold
