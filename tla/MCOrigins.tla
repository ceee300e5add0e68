------------------------------ MODULE MCOrigins ------------------------------
(* What decides how a node treats origins and clients, side by side: the   *)
(* health of origins and its report, their connections, the choice of an   *)
(* origin, and the limits of clients.                                      *)
EXTENDS OriginHealth, Integers, TLC

CONSTANTS
  w1, w2,          \* data workers
  t1, t2, x1, x2,  \* transports and exchanges
  None,
  Scenes           \* of the run

VARIABLES
  scene,   \* the component that moves, with its instance
  tr, idle, ex, dns, lookup, changes, faults, sends,   \* OriginConnections
  site, group, ids, sequence, unhealthy, cursor, tried,   \* OriginSelection
  seen, merged,   \* HealthReport
  now, entry, disp, reports, agg, saturated, sequences, sent, previous, commands, retry,
  dropped, counted, allowed, told   \* CcProtection

Alike == Permutations({w1, w2})

Origin(enabled, weight, role, g) == [enabled |-> enabled, weight |-> weight, role |-> role, group |-> g]
SomeOrigins ==
  {Origin(TRUE, w, r, "default") : w \in {1, 2}, r \in {"primary", "backup"}}
    \cup {Origin(FALSE, 1, "primary", "default"), Origin(TRUE, 0, "primary", "default"),
          Origin(TRUE, 1, "backup", "other"), Origin(TRUE, 3, "primary", "other")}

Stopped == INSTANCE OriginHealth WITH
  Keys <- {11, 12}, Versions <- {1, 2}, HealthyAt <- 2, UnhealthyAt <- 2, Requests <- {},
  Slots <- {1, 2}, MaxIds <- 2, MaxOutcomes <- 1, Stops <- TRUE

Pool == INSTANCE OriginConnections WITH
  Transports <- {t1, t2}, Exchanges <- {x1, x2}, Addresses <- {"a1", "a2"}, MaxIdle <- 1,
  MaxChanges <- 1, MaxFaults <- 1, MaxSends <- 3,
  Faults <- {"connect", "write", "cancel", "peer", "lookup"}
connectionVars == <<tr, idle, ex, dns, lookup, changes, faults, sends>>

Choice == INSTANCE OriginSelection WITH
  Origins <- SomeOrigins, Groups <- {"default", "other"}, MaxOrigins <- 2,
  Sequences <- {0, 1, 2, 3, 5}
choiceVars == <<site, group, ids, sequence, unhealthy, cursor, tried>>

Report == INSTANCE HealthReport WITH
  Times <- {0, 1, 2}, Latencies <- {0, 1}, Errors <- {0, 1, 2}, MaxWorkers <- 3
reportVars == <<seen, merged>>

Two == INSTANCE CcProtection WITH
  Workers <- {w1, w2}, Keys <- {"k1"}, Window <- 2, Buckets <- 2, Requests <- 1,
  Mitigation <- 1, Capacity <- 1, WorkerCapacity <- 1, Reports <- 1, Commands <- 1,
  MaxTime <- 4, MaxRequests <- 2
Slid == INSTANCE CcProtection WITH
  Workers <- {w1}, Keys <- {"k1"}, Window <- 3, Buckets <- 2, Requests <- 1, Mitigation <- 1,
  Capacity <- 1, WorkerCapacity <- 1, Reports <- 1, Commands <- 1, MaxTime <- 6,
  MaxRequests <- 3
Full == INSTANCE CcProtection WITH
  Workers <- {w1}, Keys <- {"k1", "k2"}, Window <- 2, Buckets <- 2, Requests <- 1,
  Mitigation <- 1, Capacity <- 1, WorkerCapacity <- 2, Reports <- 1, Commands <- 1,
  MaxTime <- 3, MaxRequests <- 3
clientVars == <<now, entry, disp, reports, agg, saturated, sequences, sent, previous, commands,
                retry, dropped, counted, allowed, told>>

MCvars == <<scene, healthVars, connectionVars, choiceVars, reportVars, clientVars>>

MCInit ==
  /\ scene \in Scenes
  /\ IF scene = "health" THEN HealthInit ELSE Stopped!HealthInit
  /\ IF scene = "pool" THEN Pool!Init ELSE Pool!Init /\ dns = "a1"
  /\ IF scene = "choice" THEN Choice!Init ELSE (/\ site = <<>> /\ group = "default" /\ ids = {} /\ sequence = 0 /\ unhealthy = {}
         /\ cursor = "none" /\ tried = <<>>)
  /\ Report!Init
  /\ IF scene = "two_workers" THEN Two!Init ELSE IF scene = "window" THEN Slid!Init ELSE Full!Init

\* The components that do not move keep their state.
Still(own) ==
  /\ UNCHANGED scene
  /\ IF own = "healthVars" THEN TRUE ELSE UNCHANGED healthVars
  /\ IF own = "connectionVars" THEN TRUE ELSE UNCHANGED connectionVars
  /\ IF own = "choiceVars" THEN TRUE ELSE UNCHANGED choiceVars
  /\ IF own = "reportVars" THEN TRUE ELSE UNCHANGED reportVars
  /\ IF own = "clientVars" THEN TRUE ELSE UNCHANGED clientVars

MCNext ==
  \/ scene = "health" /\ HealthNext /\ Still("healthVars")
  \/ scene = "stopped" /\ Stopped!HealthNext /\ Still("healthVars")
  \/ scene = "pool" /\ Pool!Next /\ Still("connectionVars")
  \/ scene = "choice" /\ Choice!Next /\ Still("choiceVars")
  \/ scene = "report" /\ Report!Next /\ Still("reportVars")
  \/ scene = "two_workers" /\ Two!Next /\ Still("clientVars")
  \/ scene = "window" /\ Slid!Next /\ Still("clientVars")
  \/ scene = "full" /\ Full!Next /\ Still("clientVars")

MCSpec == MCInit /\ [][MCNext]_MCvars

ASSUME Pool!ConnectionsAssumption
ASSUME Choice!SelectionAssumption /\ Report!ReportAssumption
ASSUME Two!CcAssumption /\ Slid!CcAssumption /\ Full!CcAssumption

(* The snapshot published is current, no probe runs for an origin that is  *)
(* gone, and a stopped checker stays stopped; the report merges the        *)
(* workers' views in any order to the same, most cautious one.  A          *)
(* transport has one owner, a closed one is not used again, the handler of *)
(* an exchange runs once, and a transport outlives the operations started  *)
(* on it; a request tries each origin once, healthy ones first, and new    *)
(* requests are spread by weight.                                          *)
OriginsInOrder ==
  /\ [](scene = "health" => HealthTypeOK /\ SnapshotCurrent /\ ProbesAreCurrent /\ MembersMatchSettings)
  /\ [](scene = "stopped" => Stopped!StaysStopped)
  /\ [](scene = "report" => Report!ArrivalOrderFree /\ Report!Conservative)
  /\ [](scene = "pool" => /\ Pool!TypeOK /\ Pool!OneOwner /\ Pool!ClosedStaysClosed /\ Pool!HandledOnce)
  /\ [](scene = "choice" => Choice!EachOnce /\ Choice!HealthyFirst /\ Choice!WeightShare)
  /\ [][scene = "pool" => Pool!KeepsHandled]_MCvars

(* Counts reported by the workers add up at the aggregator, every worker   *)
(* enforces what was published, no window lets more than its limit pass,   *)
(* and a mitigation is renewed only for requests not known before.         *)
LimitsAddUp ==
  /\ [](scene = "two_workers" => Two!AddsUp /\ Two!Agreement)
  /\ [](scene = "window" => Slid!WindowLimit)
  /\ [](scene = "full" => Full!AddsUp)
  /\ [][scene = "window" => Slid!RenewsForNews]_MCvars
=============================================================================
