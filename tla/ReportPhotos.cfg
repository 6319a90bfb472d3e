\* One device, a photo, a moderator; two requests at a time, one may fail.
SPECIFICATION Spec
CONSTANTS
  Devices = {d1}
  Reports = {r1, r2}
  Photos = {p1}
  NoPhoto = NoPhoto
  Nobody = Nobody
  Requests = {q1, q2}
  DailyQuota = 1
  MaxFaults = 1
INVARIANTS PhotoKept PhotoErased
SYMMETRY MCSymmetry
CHECK_DEADLOCK FALSE
