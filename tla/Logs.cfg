SPECIFICATION MCSpec
CONSTANTS
  w1 = w1
  w2 = w2
  a = a
  NoOne = NoOne
  Former = Former
  Workers = {w1, w2}
  Events = {a}
  Ahead = {a}
  MaxAppends = 2
  MaxEntries = 2
  MaxBytes = 4
  MaxFailedEntries = 1
  MaxFailedBytes = 3
  EntrySize = 2
  FailedSize = 3
  Sources = {"data", "control"}
  Own = "control"
  Supply <- DataEvents
  MaxDelivery = 2
  ChannelSize = 1
  MaxRetained = 2
  MaxRequests = 2
  Scenes = {"ingest", "delivery", "caps", "steps", "retention", "texts", "credentials", "bodies"}
INVARIANT StoredOnce
INVARIANT AcceptedIsKept
INVARIANT BudgetsMatch
INVARIANT TakenIsKept
PROPERTY TraceIsComplete
PROPERTY KnownSecretsHidden
SYMMETRY LoopsAlike
CHECK_DEADLOCK FALSE
