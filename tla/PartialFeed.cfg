\* One provider fails while the sweep holds a retry.
SPECIFICATION Spec
CONSTANTS
  quake = quake
  flood = flood
  NumDevices = 1
  Events <- MCEvents
  Passes = {worker}
  Tokens = {t1}
  NoToken = NoToken
  Severity <- MCSeverity
  Floors <- MCFloors
  DefaultFloor = 3
  Breakthrough = 4
  Windows <- MCNoWindows
  Areas <- MCAll
  DaySlots = 2
  PageSize = 1
  MaxPages = 2
  ChunkSize = 1
  HttpRetries = 0
  SweepLimit = 2
  MaxAttempts = 2
  Cap = 2
  Interval = 0
  VolumeWindow = 0
  Retention = 1
  MaxAge = 1
  PassTime = 0
  MaxFaults = 2
  MaxEdits = 0
INVARIANTS AbandonsOnlyGone
