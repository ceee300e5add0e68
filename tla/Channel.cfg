SPECIFICATION MCSpec
CONSTANTS
  r1 = r1
  r2 = r2
  n1 = n1
  n2 = n2
  w1 = w1
  w2 = w2
  Nodes = 1
  Refresher = {r1, r2}
  MaxVersion = 3
  MaxPasses = 2
  MaxFaults = 1
  WatchedNodes = {n1}
  Worker = {w1, w2}
  Window = 2
  DueLimit = 1
  MaxTime = 5
  MaxOutages = 1
  MaxToggles = 0
  MaxOutbox = 2
  Scenes = {"projection", "watch", "messages", "presence", "fleet"}
INVARIANT SettledAgrees
PROPERTY NeverOlder
PROPERTY SessionTellsTruth
PROPERTY PresenceFollowsHeartbeats
SYMMETRY Alike
CHECK_DEADLOCK FALSE
