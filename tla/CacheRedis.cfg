\* Redis, which may fail; no task is cancelled.
SPECIFICATION FairSpec
CONSTANTS
  Callers = {a, b, c}
  Redis = TRUE
  MaxCalls = 5
  MaxFailures = 2
  MaxCancels = 0
INVARIANTS FlightInv
PROPERTIES OnlyOvertakenRefetch CallsReturn
CHECK_DEADLOCK FALSE
