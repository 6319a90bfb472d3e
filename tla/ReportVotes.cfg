\* Two devices file, confirm, withdraw; two requests at a time, one may fail.
SPECIFICATION Spec
CONSTANTS
  Devices = {d1, d2}
  Reports = {r1, r2}
  Photos = {}
  NoPhoto = NoPhoto
  Nobody = Nobody
  Requests = {q1, q2}
  DailyQuota = 1
  MaxFaults = 1
INVARIANTS AcceptedOnce NeverOvercounted VoteInv OverrunBounded
PROPERTIES QuotaIsSoft
SYMMETRY MCSymmetry
CHECK_DEADLOCK FALSE
