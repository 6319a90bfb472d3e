\* One dispatcher, one device, two events: crashes, failed sends, users.
SPECIFICATION Spec
CONSTANTS
  quake = quake
  flood = flood
  NumDevices = 1
  Events <- MCEvents
  Passes = {worker}
  Tokens = {t1, t2}
  NoToken = NoToken
  Severity <- MCSeverity
  Floors <- MCFloors
  DefaultFloor = 3
  Breakthrough = 4
  Windows <- MCNight
  Areas <- MCSome
  DaySlots = 2
  PageSize = 1
  MaxPages = 2
  ChunkSize = 1
  HttpRetries = 1
  SweepLimit = 2
  MaxAttempts = 2
  Cap = 1
  Interval = 0
  VolumeWindow = 1
  Retention = 1
  MaxAge = 2
  PassTime = 1
  MaxFaults = 2
  MaxEdits = 1
INVARIANTS RequestsBounded OnceUnlessInDoubt SentMeansQueued
PROPERTIES SentIsFinal CapHonoured
