------------------------------ MODULE MCProgress ------------------------------
(* What must eventually happen, on instances small enough for liveness:    *)
(* one component moves, under the fairness its module justifies.           *)
EXTENDS Integers, Sequences

CONSTANTS
  None, Junk,
  Scenes    \* of the run

VARIABLES
  scene,   \* the component that moves, with its instance
  claims_task, claims_nextId, claims_aggregate, claims_applied, claims_job,   \* SyncRuntime
  commands_db, commands_txn, commands_held, commands_issued,   \* ResourceTransactions
  watch_projection, watch_announced, watch_repair, watch_catalog, watch_phase, watch_purpose,
  watch_co, watch_woken, watch_lane, watch_stopped, watch_known, watch_dispatched,
  watch_transfer, watch_reports, watch_inbox, watch_node, watch_log, watch_sent, watch_faults,   \* NodeSession
  projected_rows, projected_version, projected_locks, projected_notices, projected_agents,
  projected_index, projected_identities, projected_members, projected_ready, projected_repair,
  projected_cooldown, projected_starting, projected_refreshers, projected_tokens, projected_passes,
  projected_faults, projected_losses, projected_healed,   \* NodeProjection
  silent_now, silent_beat, silent_enabled, silent_outbox, silent_published, silent_deadlines,
  silent_generation, silent_seeded, silent_workers, silent_shown, silent_dirty, silent_expired,
  silent_faults, silent_toggles,   \* NodePresence
  update_binary, update_previous, update_record, update_state, update_desired, update_run,
  update_transfer, update_sockets, update_served, update_losses, update_proven, update_faults,
  update_releases,   \* SelfUpdate
  reload_disk, reload_source, reload_desired, reload_session, reload_op, reload_sequence,
  reload_committed, reload_expired, reload_stopping, reload_failed, reload_retired,
  reload_worker, reload_loop, reload_inbox, reload_results, reload_acked, reload_spoiled,
  reload_crashes,   \* ConfigActivation
  request_ses, request_cache   \* HttpSession

SomeLinks == [r \in {"p1", "z1", "z2", "c1", "c2", "n1"} |->
                CASE r = "p1" -> {} [] r \in {"z1", "z2"} -> {"p1"} [] r = "c1" -> {"z1"} [] r = "c2" -> {"z2"}
                  [] r = "n1" -> {"c1"}]
Do(do, r, refs, on) == [do |-> do, row |-> r, refs |-> refs, on |-> on]
\* A node moves and registers under two clusters that change.
FleetCommands ==
  {Do("update", "c1", {"z2"}, TRUE), Do("remove", "c1", {}, TRUE), Do("update", "n1", {"c2"}, TRUE),
   Do("remove", "n1", {}, TRUE)}

Claims == INSTANCE SyncRuntime WITH
  Resources <- {"z"}, Workers <- {"w1"}, FailCap <- 1, MaxVersion <- 2, MaxTasks <- 3,
  TypeOf <- [r \in {"z"} |-> "dns_zone"], LoopType <- [w \in {"w1"} |-> "dns_zone"],
  MayAwait <- {}, NoOwner <- "nobody", task <- claims_task, nextId <- claims_nextId,
  aggregate <- claims_aggregate, applied <- claims_applied, job <- claims_job
claimsVars == <<claims_task, claims_nextId, claims_aggregate, claims_applied, claims_job>>

Fleet == INSTANCE ResourceTransactions WITH
  Txns <- {"t1", "t2"}, DnsProviders <- {"p1"}, CertProviders <- {}, Zones <- {"z1", "z2"},
  Clusters <- {"c1", "c2"}, Nodes <- {"n1"}, Websites <- {}, Certs <- {}, CachePolicies <- {},
  SecurityPolicies <- {}, SecurityLists <- {}, Bindings <- "bindings",
  Present <- {"p1", "z1", "z2", "c1", "c2", "n1"}, Links <- SomeLinks, Unready <- {},
  Outdated <- {}, RowOrder <- <<"p1", "z1", "z2", "c1", "c2", "n1">>, Commands <- FleetCommands,
  MaxCommands <- 2, db <- commands_db, txn <- commands_txn, held <- commands_held,
  issued <- commands_issued
commandsVars == <<commands_db, commands_txn, commands_held, commands_issued>>

Watch == INSTANCE NodeSession WITH
  MaxConfig <- 2, MaxMessages <- 1, MaxFaults <- 1, Chunks <- 2, Kinds <- {"probe", "apply"},
  projection <- watch_projection, announced <- watch_announced, repair <- watch_repair,
  catalog <- watch_catalog, phase <- watch_phase, purpose <- watch_purpose, co <- watch_co,
  woken <- watch_woken, lane <- watch_lane, stopped <- watch_stopped, known <- watch_known,
  dispatched <- watch_dispatched, transfer <- watch_transfer, reports <- watch_reports,
  inbox <- watch_inbox, node <- watch_node, log <- watch_log, sent <- watch_sent,
  faults <- watch_faults
watchVars == <<watch_projection, watch_announced, watch_repair, watch_catalog, watch_phase,
               watch_purpose, watch_co, watch_woken, watch_lane, watch_stopped, watch_known,
               watch_dispatched, watch_transfer, watch_reports, watch_inbox, watch_node,
               watch_log, watch_sent, watch_faults>>

Projected == INSTANCE NodeProjection WITH
  Nodes <- 1, Refresher <- {"r1"}, MaxVersion <- 1, MaxPasses <- 5, MaxFaults <- 1,
  rows <- projected_rows, version <- projected_version, locks <- projected_locks,
  notices <- projected_notices, agents <- projected_agents, index <- projected_index,
  identities <- projected_identities, members <- projected_members, ready <- projected_ready,
  repair <- projected_repair, cooldown <- projected_cooldown, starting <- projected_starting,
  refreshers <- projected_refreshers, tokens <- projected_tokens, passes <- projected_passes,
  faults <- projected_faults, losses <- projected_losses, healed <- projected_healed
projectedVars == <<projected_rows, projected_version, projected_locks, projected_notices,
                   projected_agents, projected_index, projected_identities, projected_members,
                   projected_ready, projected_repair, projected_cooldown, projected_starting, projected_refreshers,
                   projected_tokens, projected_passes, projected_faults, projected_losses,
                   projected_healed>>

Silent == INSTANCE NodePresence WITH
  WatchedNodes <- {"n1"}, Worker <- {"w1"}, Window <- 1, DueLimit <- 1, MaxTime <- 3, MaxOutages <- 1,
  MaxToggles <- 0, MaxOutbox <- 2, now <- silent_now, beat <- silent_beat,
  enabled <- silent_enabled, outbox <- silent_outbox, published <- silent_published,
  deadlines <- silent_deadlines, generation <- silent_generation, seeded <- silent_seeded,
  workers <- silent_workers, shown <- silent_shown, dirty <- silent_dirty,
  expired <- silent_expired, outages <- silent_faults, toggles <- silent_toggles
silentVars == <<silent_now, silent_beat, silent_enabled, silent_outbox, silent_published,
                silent_deadlines, silent_generation, silent_seeded, silent_workers,
                silent_shown, silent_dirty, silent_expired, silent_faults, silent_toggles>>

Update == INSTANCE SelfUpdate WITH
  Images <- 1..4, Original <- 1, Checked <- 1..3,
  Reads <- [i \in 1..4 |-> IF i = 3 THEN {3} ELSE {1, 2, 4}], Chunks <- 2, Workers <- {1, 2},
  MaxFaults <- 2, MaxReleases <- 1,
  FaultKinds <- {"io", "crash", "exec", "assembly", "workers", "session", "bytes", "check", "state",
                 "activation", "restart"},
  binary <- update_binary, previous <- update_previous, record <- update_record,
  state <- update_state, desired <- update_desired, run <- update_run,
  transfer <- update_transfer, sockets <- update_sockets, served <- update_served,
  losses <- update_losses,
  proven <- update_proven, faults <- update_faults, releases <- update_releases
updateVars == <<update_binary, update_previous, update_record, update_state, update_desired,
                update_run, update_transfer, update_sockets, update_served, update_losses, update_proven,
                update_faults, update_releases>>

Reload == INSTANCE ConfigActivation WITH
  Workers <- {1}, MaxRevision <- 2, Invalid <- {2}, MaxSequence <- 2, MaxCrashes <- 0,
  MayLose <- TRUE, MayRetire <- FALSE, MayStop <- FALSE, MayFailDisk <- FALSE,
  MaySpoil <- FALSE, disk <- reload_disk, source <- reload_source, desired <- reload_desired,
  session <- reload_session, op <- reload_op, sequence <- reload_sequence,
  committed <- reload_committed, expired <- reload_expired, stopping <- reload_stopping,
  failed <- reload_failed, retired <- reload_retired, worker <- reload_worker,
  loop <- reload_loop, inbox <- reload_inbox, results <- reload_results, acked <- reload_acked,
  spoiled <- reload_spoiled, crashes <- reload_crashes
reloadVars == <<reload_disk, reload_source, reload_desired, reload_session, reload_op,
                reload_sequence, reload_committed, reload_expired, reload_stopping,
                reload_failed, reload_retired, reload_worker, reload_loop, reload_inbox,
                reload_results, reload_acked, reload_spoiled, reload_crashes>>

Request == INSTANCE HttpSession WITH
  Clients <- {"c1"}, Refreshes <- {"r1"}, Origins <- <<"a">>, Kinds <- {"cache"},
  MaxWaits <- 1, MaxEntries <- 1, MaxFills <- 1, MaxBlocks <- 1, TimerRace <- FALSE,
  ses <- request_ses, cache <- request_cache
requestVars == <<request_ses, request_cache>>

MCvars == <<scene, claimsVars, commandsVars, watchVars, projectedVars, silentVars, updateVars, reloadVars, requestVars>>

MCInit ==
  /\ scene \in Scenes
  /\ Claims!Init
  /\ Fleet!Init
  /\ Watch!Init
  /\ Projected!Init
  /\ Silent!PresenceInit
  /\ Update!Init
  /\ Reload!Init
  /\ IF scene = "request" THEN Request!Init ELSE (Request!Init /\ request_cache.entry.id = 0 /\ request_cache.filling["whole"] = Request!Nobody)

\* The components that do not move keep their state.
Still(own) ==
  /\ UNCHANGED scene
  /\ IF own = "claimsVars" THEN TRUE ELSE UNCHANGED claimsVars
  /\ IF own = "commandsVars" THEN TRUE ELSE UNCHANGED commandsVars
  /\ IF own = "watchVars" THEN TRUE ELSE UNCHANGED watchVars
  /\ IF own = "projectedVars" THEN TRUE ELSE UNCHANGED projectedVars
  /\ IF own = "silentVars" THEN TRUE ELSE UNCHANGED silentVars
  /\ IF own = "updateVars" THEN TRUE ELSE UNCHANGED updateVars
  /\ IF own = "reloadVars" THEN TRUE ELSE UNCHANGED reloadVars
  /\ IF own = "requestVars" THEN TRUE ELSE UNCHANGED requestVars

MCNext ==
  \/ scene = "claims" /\ Claims!Next /\ Still("claimsVars")
  \/ scene = "commands" /\ Fleet!Next /\ Still("commandsVars")
  \/ scene = "watch" /\ Watch!Next /\ Still("watchVars")
  \/ scene = "projected" /\ Projected!Next /\ Still("projectedVars")
  \/ scene = "silent" /\ Silent!PresenceNext /\ Still("silentVars")
  \/ scene = "update" /\ Update!Next /\ Still("updateVars")
  \/ scene = "reload" /\ Reload!Next /\ Still("reloadVars")
  \/ scene = "request" /\ Request!Next /\ Still("requestVars")

MCSpec ==
  /\ MCInit /\ [][MCNext]_MCvars
  /\ WF_claimsVars(scene = "claims" /\ (Claims!Finish("w1") \/ Claims!Abandon("w1")))
  /\ WF_claimsVars(scene = "claims" /\ Claims!BecomesDue("z")) /\ SF_claimsVars(scene = "claims" /\ Claims!Claim("w1", "z"))
  /\ \A t \in {"t1", "t2"} : /\ WF_commandsVars(scene = "commands" /\ Fleet!Step(t))
                             /\ WF_commandsVars(scene = "commands" /\ Fleet!Commit(t))
                             /\ WF_commandsVars(scene = "commands" /\ Fleet!Victim(t))
  /\ WF_watchVars(scene = "watch" /\ Watch!Reader) /\ WF_watchVars(scene = "watch" /\ Watch!Join)
  /\ WF_watchVars(scene = "watch" /\ Watch!Repaired) /\ WF_watchVars(scene = "watch" /\ Watch!Wake)
  /\ WF_watchVars(scene = "watch" /\ (Watch!Compare \/ Watch!WatchSignal \/ Watch!LastLook \/ Watch!Deliver))
  /\ \A c \in {"reader", "watch"} : /\ WF_watchVars(scene = "watch" /\ Watch!Step(c))
                                    /\ WF_watchVars(scene = "watch" /\ watch_stopped /\ Watch!Interrupt(c))
  /\ \A i \in 1..2 : WF_watchVars(scene = "watch" /\ i \in DOMAIN watch_reports
                                    /\ \E o \in {"accepted", "rejected"} : Watch!Persist(i, o))
  /\ WF_projectedVars(scene = "projected" /\ Projected!Refresh("r1"))
  /\ WF_projectedVars(scene = "projected" /\ Projected!RequestRepair(1))
  /\ WF_projectedVars(scene = "projected" /\ Projected!CooldownEnds)
  /\ WF_silentVars(scene = "silent" /\ Silent!Tick) /\ WF_silentVars(scene = "silent" /\ Silent!Read("n1"))
  /\ WF_silentVars(scene = "silent" /\ Silent!Work("w1"))
  /\ \A e \in Silent!Notice : WF_silentVars(scene = "silent" /\ Silent!Delivered(e))
  /\ WF_updateVars(scene = "update" /\ Update!Step)
  /\ SF_updateVars(scene = "update" /\ update_state = None /\ Update!ApplyDesiredState)
  /\ WF_reloadVars(scene = "reload" /\ Reload!StageState) /\ WF_reloadVars(scene = "reload" /\ Reload!Compensate)
  /\ WF_reloadVars(scene = "reload" /\ Reload!PrepareDone) /\ WF_reloadVars(scene = "reload" /\ Reload!KeepPrevious)
  /\ WF_reloadVars(scene = "reload" /\ Reload!SendActivate) /\ WF_reloadVars(scene = "reload" /\ Reload!Commit)
  /\ WF_reloadVars(scene = "reload" /\ Reload!Expire) /\ WF_reloadVars(scene = "reload" /\ Reload!RollbackDone)
  /\ WF_reloadVars(scene = "reload" /\ Reload!RollbackTimeout) /\ WF_reloadVars(scene = "reload" /\ Reload!RestoreDisk)
  /\ WF_reloadVars(scene = "reload" /\ Reload!ReportDone)
  /\ WF_reloadVars(scene = "reload" /\ Reload!StopAccepting(1)) /\ WF_reloadVars(scene = "reload" /\ Reload!Retire(1))
  /\ \A s \in {"c1", "r1"} : /\ WF_requestVars(scene = "request" /\ Request!Expire(s))
                             /\ WF_requestVars(scene = "request" /\ Request!RunExpired(s))

(* The service gets on: queued work is claimed, every command ends, a      *)
(* watch is answered or its session ends, a lost projection is repaired,   *)
(* and a silent node is shown offline.                                     *)
ServiceGetsOn ==
  /\ scene = "claims" => Claims!QueuedIsClaimed
  /\ scene = "commands" => Fleet!EveryCommandEnds
  /\ scene = "watch" => Watch!WatchAnswered
  /\ scene = "projected" => Projected!LostIsRepaired
  /\ scene = "silent" => Silent!OfflineIsShown

(* The node gets on: whatever release is advertised, it is back in a       *)
(* session on a proven image again and again and accepts what queued at    *)
(* its listeners; a reload settles and no worker keeps an uncommitted      *)
(* configuration; a silent origin is given up and a request that waits for *)
(* another's fill gets on.                                                 *)
NodeGetsOn ==
  /\ scene = "update" => Update!AlwaysBack /\ Update!QueuedAccepted
  /\ scene = "reload" => Reload!Settles /\ Reload!UnconfirmedStops
  /\ scene = "request" => Request!OriginIsGivenUp /\ Request!WaiterProceeds
=============================================================================
