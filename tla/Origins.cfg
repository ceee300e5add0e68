SPECIFICATION MCSpec
CONSTANTS
  Keys = {11}
  Versions = {1, 2}
  HealthyAt = 2
  UnhealthyAt = 2
  Requests = {1}
  Slots = {1}
  MaxIds = 2
  MaxOutcomes = 3
  Stops = FALSE
  w1 = w1
  w2 = w2
  t1 = t1
  t2 = t2
  x1 = x1
  x2 = x2
  None = None
  Scenes = {"health", "stopped", "pool", "choice", "report", "two_workers", "window", "full"}
INVARIANT HealthFollowsOutcomes
PROPERTY OriginsInOrder
PROPERTY LimitsAddUp
SYMMETRY Alike
CHECK_DEADLOCK FALSE
