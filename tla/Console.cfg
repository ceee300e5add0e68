SPECIFICATION MCSpec
CONSTANTS
  c1 = c1
  c2 = c2
  c3 = c3
  Workers = {"w1", "w2"}
  Conns = {c1, c2, c3}
  WorkerOf <- Placed
  Cacheable = FALSE
  Coalesced = FALSE
  MaxChanges = 1
  MaxPatches = 1
  MaxCloses = 1
  MaxFaults = 0
  MaxRecoveries = 0
  WebWorkers = {"w1", "w2"}
  Events = {"e1", "e2", "e3"}
  Streams = {"resources", "logs"}
  StreamOf <- Routed
  Oversized = {"e2"}
  Guarded = {"e1"}
  MaxLen = 1
  ClaimMax = 2
  BatchMax = 1
  EarlySubscribers = FALSE
  MaxResets = 1
  MaxFailures = 1
  Scenes = {"stream", "streams", "claims", "patches", "cached", "recovered", "failing", "gate", "leaving"}
INVARIANT NothingMissed
INVARIANT SettledIsFresh
SYMMETRY ConnectionsAlike
CHECK_DEADLOCK FALSE
