SPECIFICATION MCSpec
CONSTANTS
  Buckets = {"global", "account"}
  Capacity <- MCCapacity
  Period <- MCPeriod
  Callers = {"api", "other"}
  Uses <- MCUses
  MaxWait = 3
  MaxTime = 5
  MaxBack = 0
  MaxLost = 1
  Scenes = {"managed"}
INVARIANT AccessNameIsOwned
CHECK_DEADLOCK FALSE
