\* One dispatcher, one device, two events and room for one per window; a quiet night, one failure,
\* a feed or a user that changes once; claims are pruned as they leave the window.
SPECIFICATION FairSpec
CONSTANTS
  quake = quake
  flood = flood
  NumDevices = 1
  Events <- MCEvents
  Passes = {worker}
  Tokens = {t1}
  NoToken = NoToken
  Severity <- MCSeverity
  Floors <- MCFloors
  DefaultFloor = 3
  Breakthrough = 4
  Windows <- MCNight
  Areas <- MCAll
  DaySlots = 2
  PageSize = 1
  MaxPages = 2
  ChunkSize = 1
  HttpRetries = 0
  SweepLimit = 2
  MaxAttempts = 2
  Cap = 1
  Interval = 0
  VolumeWindow = 1
  Retention = 1
  MaxAge = 2
  PassTime = 0
  MaxFaults = 1
  MaxEdits = 1
PROPERTIES EventuallyTold ClaimsSettle
