\* Two overlapping dispatchers, each done within an interval.
SPECIFICATION Spec
CONSTANTS
  quake = quake
  flood = flood
  NumDevices = 1
  Events <- MCOneEvent
  Passes = {worker, byhand}
  Tokens = {t1}
  NoToken = NoToken
  Severity <- MCSeverity
  Floors <- MCFloors
  DefaultFloor = 3
  Breakthrough = 4
  Windows <- MCNoWindows
  Areas <- MCAll
  DaySlots = 2
  PageSize = 1
  MaxPages = 2
  ChunkSize = 1
  HttpRetries = 0
  SweepLimit = 2
  MaxAttempts = 2
  Cap = 2
  Interval = 1
  VolumeWindow = 1
  Retention = 1
  MaxAge = 2
  PassTime = 1
  MaxFaults = 2
  MaxEdits = 1
INVARIANTS SweepSparesFreshClaims ClaimExclusive ClaimInv
