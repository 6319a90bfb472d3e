\* Two workers, either of which may lose Redis; one device and three places, one
\* with a station; one request per window and store, so that two requests overlap
\* only where a worker has fallen back to memory, or one outlives its window.
SPECIFICATION ApiSpec
CONSTANTS
  Workers = {w1, w2}
  Devices = {d1}
  Clients = {d1}
  Requests = {q1, q2}
  Calls = {q1, q2}
  Stations = {s}
  Coords = {x, y, z}
  FavLimit = 1
  MaxRows = 3
  RateLimit = 1
  Window = 2
  MaxKeys = 1
  SharedLog = TRUE
  MaxMembers = 2
  MaxRateErrors = 2
SYMMETRY MCSymmetry
INVARIANTS  RateInv RateBounded LogAccounted RateCapsOverrun
PROPERTIES FavQuotaIsSoft 
