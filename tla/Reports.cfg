SPECIFICATION MCSpec
CONSTANTS
  w1 = w1
  w2 = w2
  NoOne = NoOne
  Former = Former
  None = None
  Workers = {w1, w2}
  MaxAppends = 2
  MaxEntries = 2
  MaxBytes = 5
  MaxFailedEntries = 1
  MaxFailedBytes = 3
  EntrySize = 2
  CleanupSize = 1
  FailedSize = 3
  MaxLosses = 1
  TaskWorkers = {"a", "b"}
  Nodes = {"n1"}
  Old = {}
  MaxCreates = 1
  MaxFaults = 1
  MaxFailures = 1
  Faults = {"throw", "deadline", "stall", "fail", "disconnect", "restart", "redis"}
  Scenes = {"reports", "cache_task", "cache_task_fleet"}
INVARIANT AppliedOnce
INVARIANT AnswerIsTrue
INVARIANT BytesMatch
PROPERTY CompletedMeansDone
SYMMETRY LoopsAlike
CHECK_DEADLOCK FALSE
