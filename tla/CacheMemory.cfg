\* The memory store: tasks that share a fetch, fail and are cancelled.
SPECIFICATION FairSpec
CONSTANTS
  Callers = {a, b, c}
  Redis = FALSE
  MaxCalls = 5
  MaxFailures = 1
  MaxCancels = 2
INVARIANTS OneFetch FollowersHaveLeader AgreeWithLeader
PROPERTIES CallsReturn
CHECK_DEADLOCK FALSE
