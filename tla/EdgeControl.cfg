SPECIFICATION MCSpec
CONSTANTS
  w1 = w1
  w2 = w2
  Images <- FourImages
  Original = 1
  Checked = {1, 2, 3}
  Reads <- Incompatible
  Chunks = 2
  Workers = {1, 2}
  MaxFaults = 4
  MaxReleases = 3
  FaultKinds = {"io", "crash", "exec", "assembly", "workers", "session", "bytes", "check", "state", "activation", "restart", "undo"}
  None = None
  Junk = Junk
  Scenes = {"update", "lossy", "faults", "crash"}
INVARIANT UnprovenHasFallback
INVARIANT ListenersStay
PROPERTY ServesCommitted
SYMMETRY Alike
CHECK_DEADLOCK FALSE
