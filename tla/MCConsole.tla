------------------------------ MODULE MCConsole ------------------------------
(* What the console shows, side by side: the notification stream and the   *)
(* snapshots its connections share.                                        *)
EXTENDS SnapshotReads, NotificationStream, Integers, TLC

CONSTANTS
  c1, c2, c3,   \* connections: two of one worker and one of another
  Scenes        \* of the run

VARIABLE scene   \* the component that moves, with its instance

ConnectionsAlike == Permutations({c1, c2})

Routed == [e \in Events |-> IF e = "e3" THEN "logs" ELSE "resources"]
Placed == [c \in {c1, c2, c3} |-> IF c = c3 THEN "w2" ELSE "w1"]

\* The changes and the workers that take part in a scene of the stream.
Among(events, workers) ==
  /\ Range(committed') \subseteq events
  /\ \A w \in WebWorkers \ workers :
       claim'[w] = claim[w] /\ reader'[w] = reader[w] /\ subscribed'[w] = subscribed[w]

Claims == INSTANCE NotificationStream WITH MaxResets <- 0, MaxFailures <- 2

Cached == INSTANCE SnapshotReads WITH
  Cacheable <- TRUE, Coalesced <- FALSE, MaxChanges <- 1, MaxPatches <- 0, MaxCloses <- 0,
  MaxFaults <- 0, MaxRecoveries <- 0
Recovered == INSTANCE SnapshotReads WITH
  Cacheable <- TRUE, Coalesced <- FALSE, MaxChanges <- 2, MaxPatches <- 0, MaxCloses <- 0,
  MaxFaults <- 0, MaxRecoveries <- 1
Failing == INSTANCE SnapshotReads WITH
  Cacheable <- TRUE, Coalesced <- FALSE, MaxChanges <- 1, MaxPatches <- 0, MaxCloses <- 0,
  MaxFaults <- 1, MaxRecoveries <- 1
Gated == INSTANCE SnapshotReads WITH
  Cacheable <- FALSE, Coalesced <- TRUE, MaxChanges <- 3, MaxPatches <- 0, MaxCloses <- 0,
  MaxFaults <- 0, MaxRecoveries <- 0
Leaving == INSTANCE SnapshotReads WITH
  Cacheable <- FALSE, Coalesced <- TRUE, MaxChanges <- 2, MaxPatches <- 0, MaxCloses <- 1,
  MaxFaults <- 0, MaxRecoveries <- 0

\* The connections and the workers that take part in a scene.
Only(conns, workers) ==
  /\ \A c \in Conns \ conns : conn'[c].pc = "closed"
  /\ \A w \in Workers \ workers : delivered'[w] = delivered[w]

\* Both connections of a worker are there, and a change that is committed is
\* delivered before they move.
AtOnce ==
  /\ db'.change # db.change => OpenOn("w1") = {c1, c2}
  /\ db.change > delivered["w1"].change => db' = db /\ conn' = conn

MCvars == <<scene, noticeVars, readsVars>>

MCInit ==
  /\ scene \in Scenes
  /\ NoticeInit
  /\ ReadsInit

\* The components that do not move keep their state.
Still(own) ==
  /\ UNCHANGED scene
  /\ IF own = "noticeVars" THEN TRUE ELSE UNCHANGED noticeVars
  /\ IF own = "readsVars" THEN TRUE ELSE UNCHANGED readsVars

MCNext ==
  \/ scene = "stream" /\ NoticeNext /\ Among({"e1", "e2"}, {"w1"}) /\ Still("noticeVars")
  \/ scene = "streams" /\ NoticeNext /\ Among({"e1", "e3"}, {"w1"}) /\ Still("noticeVars")
  \/ scene = "claims" /\ Claims!NoticeNext /\ Among({"e1"}, {"w1", "w2"}) /\ Still("noticeVars")
  \/ scene = "patches" /\ ReadsNext /\ Only({c1, c2}, {"w1"}) /\ Still("readsVars")
  \/ scene = "cached" /\ Cached!ReadsNext /\ Only({c1, c3}, {"w1", "w2"}) /\ Still("readsVars")
  \/ scene = "recovered" /\ Recovered!ReadsNext /\ Only({c1}, {"w1"}) /\ Still("readsVars")
  \/ scene = "failing" /\ Failing!ReadsNext /\ Only({c1}, {"w1"}) /\ Still("readsVars")
  \/ scene = "gate" /\ Gated!ReadsNext /\ Only({c1, c2}, {"w1"}) /\ AtOnce /\ Still("readsVars")
  \/ scene = "leaving" /\ Leaving!ReadsNext /\ Only({c1, c2}, {"w1"}) /\ AtOnce /\ Still("readsVars")

MCSpec == MCInit /\ [][MCNext]_MCvars
=============================================================================
