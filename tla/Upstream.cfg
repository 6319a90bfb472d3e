\* A paced host with two permits: attempts, queues, time and cancelled tasks.
SPECIFICATION FairSpec
CONSTANTS
  Callers = {a, b, c}
  Limit = 2
  MinInterval = 2
  Retries = 1
  Retryable = {"busy", "fault"}
  MaxCancels = 2
INVARIANTS GateInv PermitsAccounted
PROPERTIES GateSpec EveryCallEnds
CHECK_DEADLOCK FALSE
