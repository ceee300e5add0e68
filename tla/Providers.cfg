SPECIFICATION MCSpec
CONSTANTS
  Buckets = {"global", "account"}
  Capacity <- MCCapacity
  Period <- MCPeriod
  Callers = {"api", "other"}
  Uses <- MCUses
  MaxWait = 3
  MaxTime = 4
  MaxBack = 0
  MaxLost = 1
  Scenes = {"quota", "zone", "managed", "removal", "issuance", "renewal"}
INVARIANT Budget
INVARIANT ExpiresFull
PROPERTY AllOrNone
PROPERTY SyncedIsServed
PROPERTY StoredKeyIsTheOrders
CHECK_DEADLOCK FALSE
