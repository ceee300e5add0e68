# FlexEdge: a TLA+ model of the control service and its nodes

FlexEdge is an edge platform: a control **service** (C++ coroutines over
PostgreSQL and Redis, several Worker event loops per process, several processes
possible) and **nodes** that terminate and proxy HTTP. This directory holds TLA+
modules translated from that code, TLC configurations for small instances, and
TLAPS proofs for all instances. `PROJECT.json` maps every definition to the
lines it models.

All paths below are relative to the repository; `features/` stands for
`src/service/features/`.

## 1. The system

### 1.1 Service

| Component | State | Operations | Hard behaviour |
|---|---|---|---|
| Sync marker runtime (`features/sync_runtime`) | `sys_sync_task`: version, processed version, lease, waiting columns, result | queue a version, claim, renew, write a fenced result, park, resume, recover, repair | attempts run outside any transaction while edits, deletions, other loops and recovery commit |
| DNS zone synchronisation (`features/dns_sync`) | zone revision, remote records | runtime work plus inspections | three failures settle a task; a deleted zone is itself work |
| Certificate issuance (`features/certificate`) | issuance revision, ACME order, challenge records | runtime work; parks on the zone's task | waits on another resource's task |
| Provider verification (`features/provider_verification`) | generation, verification result | runtime work | edits that remove the marker |
| Website DNS probe (`features/website_dns`) | probe revision and result | runtime work, manual re-queue, inspections | the same version is queued again under a running attempt |
| Background streams (`features/background`) | Redis stream, pending list, retry set, attempts, byte counter, failure stream, consumer names | admit, read, claim due, reclaim, retry, remove, archive, remove names | takeover of entries from loops that are only slow |
| Node report queue (`features/node_channel/report_*`) | the stream, positions, cleanup hints, answers; the receipt ledger in PostgreSQL | enqueue, persist, complete, retry, clean the ledger | effects exactly once although delivery is at least once and the ledger is cleaned |
| Access log ingest (`features/log_ingest`) | the stream; log tables | push, insert, finish, fail, retry, replay; live tail | rows at most once although the key does not identify an event |
| Node channel session (`features/node_channel/session.h`, `channel_service.h`) | session, principal, dispatched release | authenticate, deliver, answer | takeover by a newer connection |
| Node dispatch and releases (`features/node_dispatch`) | releases, objects, targets, apply history | publish, fan out, record results | release against moving targets |
| Node presence (`features/node_presence`) | presence keys | heartbeat, expire, notify | expiry races heartbeat |
| Notification outbox, live resources (`features/live_resource`) | outbox rows, snapshot cache | enqueue in a transaction, relay, read | relay crash, stale snapshots |
| Cache tasks (`features/cache_tasks`) | tasks, items, leases, generations | claim, send, report | lease, attempt and generation must agree |
| Rate limiting, login throttle | window counters | consume, reset | windows and concurrency |
| Attempt traces (`features/attempt_trace`) | recorded text | record, redact | none that others depend on |
| Domain services and controllers (`src/service/domains`) | aggregates | commands and reads | each command moves aggregate and marker in one transaction |
| Provider and ACME drivers | none | requests | pure I/O |

### 1.2 Node

| Component | State | Operations | Hard behaviour |
|---|---|---|---|
| Control channel (`src/node/control`) | connection, pending replies | connect, send, reply, time out, reconnect | late replies, hand-over on upgrade |
| Log producer and delivery (`runtime/log_producer.h`, `control/log_delivery.h`) | staged, posted, retained and in-flight batches | append, flush, send, acknowledge, drop | back-pressure across threads, resends |
| Configuration activation (`runtime/config_activation.h`, `state_store.h`) | active and stored configuration | prepare, activate, persist, recover | crash between activation and persistence |
| Self update (`runtime/self_updater.h`, `upgrade_*`, `listener_handoff.h`) | upgrade record, candidate process | download, start, confirm, roll back | crash at every step |
| Data plane (`src/node/data`) | listeners, workers, sessions | accept, proxy, reload, drain | reload under load |
| Response cache (`data/response_cache.h`) | memory and disk entries, fills | look up, fill, collapse, purge, evict | purge racing a fill |
| Origin health (`data/origin_health.h`, `health_*`) | per-origin state | probe, eject, select | |
| Request protection and rules; shared policies (`src/common`) | none (pure), protection counters | evaluate | |

The web console (`src/web`) is a user interface and is not modelled.

### 1.3 Interactions

Domain commands change an aggregate and upsert its marker in one transaction.
Claim loops pick markers up, call providers, and write results through a lease
fence. A node's session turns messages into entries of two reliable streams
(reports and log deliveries); Workers' loops consume them into PostgreSQL. The
report's answer travels back through a Redis key. What changed is announced
through the outbox. On the node, workers of the data plane post log batches to
the control thread, which sends them one at a time and keeps them until the
service acknowledges.

### 1.4 What makes each part correct

* Runtime: only a result for the version wanted *now* is ever stored; nothing
  queued is stranded; a lost lease never comes back.
* Reports: effects at most once; the answer is the truth; budgets neither leak
  nor run negative; the ledger drains.
* Logs: acknowledged events are kept; each is stored at most once; deliveries end.
  Traces of attempts account for what they leave out and show no secret.
* Work against providers: no more requests than the budget allows; a zone shown as
  synchronised is served as desired, the user's own records left alone; a stored
  certificate belongs to the key of its order.
* Resources and releases: no live row refers to a deleted one; a committed release
  has its objects; every enabled node is told of the newest release.
* Console: no change is missed by an open view; a snapshot is never older than a
  change it was woken for; a delivery that was put off has someone to make it.
* Channel: the projection in Redis is the database once it settles and never goes
  back; nothing is acknowledged that was not stored; presence follows heartbeats.
* Node, data plane: one response per request; nothing purged is served again; one
  owner per connection; origin health and request limits follow what happened.
* Node, control: an unproven binary can be rolled back, listening sockets survive
  an upgrade, workers serve the committed configuration; section 6 has the failures
  for which the code keeps neither fallback nor sockets.

## 2. Modules

A component's module holds its state, one action per handler or transaction, and
its properties. A `...Proofs` module extends it with theorems (`ReleaseBuild` and
`ReliableStream` hold their lemmas and theorem themselves; `LogProofs`, `RedisProofs`,
`NodeProofs`, `NodeProjectionProofs` and `ReportQueueProofs` hold those of the two or
three components that meet there). An `MC...`
module puts several components *side by side* for one run, extending those that
have theorems and instantiating the others: the variable
`scene` picks at the start which instance moves, all others stand still (`Still`),
so that one run asks its question of several components, or of one component
under several sets of bounds. Where components really share state, the component
modules themselves model it (see "meets" below).

| Module | Models | State | Meets |
|---|---|---|---|
| `SyncRuntime` | statements on `sys_sync_task`; commands, claim loops, maintenance | `task`, `aggregate`, `applied`, `job` | |
| `LatestWins` | what the runtime promises (abstract) | wanted and stored version | refined by `SyncRuntime` |
| `ReliableStream` | Lua scripts of a reliable stream | a queue record | |
| `ReportQueue` | connection, report Workers, ledger cleanup | `q`, ledger, hints, `job` | `ReliableStream` |
| `LogIngest` | connection, log Workers, replay | `q`, `payload`, `rows`, `job` | `ReliableStream` |
| `LogDelivery` | log producers and the control worker of a node | staged, retained, in flight | mailboxes of the control stream |
| `CacheTasks` | a cache operation from console to node and back | task, targets, workers, commands, node | |
| `RateLimit` | token buckets in Redis and their callers | buckets, waiting callers, clocks | |
| `DnsSync` | a zone at its provider | desired, remote, runtime, attempt, late writes | console edits, management API |
| `CertificateIssuance` | attempts, progress, challenges, orders | certificate, orders, attempts | the zone's synchronisation |
| `ResourceTransactions` | commands as lists of statements under row locks | rows, private copies, locks | all aggregates |
| `ReleaseBuild` | compilation and content-addressed storage of a release | objects, publications | |
| `NodeDispatch` | publication, targets, reports of applying | nodes, targets, releases, reports | |
| `NotificationStream` | outbox, relay, streams, readers | rows, claims, streams, cursors | |
| `SnapshotReads` | hub, shared reads, snapshot cache, patches | epochs, flights, cache, views | |
| `AttemptTrace`, `Redaction` | recorder of an attempt; what may reach it | document; secrets and texts | |
| `NodeProjection` | credentials and desired state in Redis | rows, locks, agent and node hashes, refreshers | |
| `NodeSession` | one node's WebSocket on the service | coroutines, lane, reports, transfers | the projection |
| `NodePresence` | deadlines, expiry, seeding | deadlines, workers, outbox | |
| `HttpSession` | requests of a data worker | sessions, their timers and operations | the cache's tickets |
| `ResponseCache` | the shared cache with its files | root, disk, jobs of writers | |
| `OriginHealth`, `HealthReport`, `OriginSelection` | health of origins, merged report, candidates | memberships, probes, timer | requests, activation |
| `OriginConnections` | transports, pool, exchanges | generations, idle list, handlers | |
| `CcProtection` | request limits | rings of buckets, totals, dispositions | control loop |
| `ConfigActivation` | taking a configuration into use | disk, workers, channels, votes | |
| `SelfUpdate` | replacing the node's binary | binary, link, record, sockets, process | |

### 2.1 SyncRuntime

The first part of the module has the statements on a row of `sys_sync_task` as
operators from a row to a row, the second the transactions that use them.

`task[r]` is the row of resource `r`; `id = 0` means there is none. `live` says
whether `lease_until` is in the future: time is the action `LeaseExpires`, and
`BecomesDue` for `next_run_at`. `aggregate[r]` is the version column and
`deleted_at` of the aggregate; `applied[r]` is the version of the last result
that was stored with it. `job[w]` is what claim loop `w` captured in an earlier
transaction: everything a loop does after a `co_await` uses `job`, not the row.

One action is one transaction. `Enqueue`, `Requeue`, `EditProvider`,
`DeleteZone` and `Delete` are the commands; `Claim` and `ClaimInspection` lease a
row; `Complete`, `FinishRemoval`, `StoreFailure`, `Fail`, `Park`, `KeepSettled`
and `GiveWay` are the ways an attempt ends in the database; `Abandon` is a stop, a
crash or an error without a result, which leaves the lease behind;
`ScanExpired`/`RecoverExpired` and `ScanMissing`/`Repair` are maintenance in its
two transactions; `ResumeStaleWaiters` is the third. The four marker types share
the module; `TypeOf` selects the guards that differ.

* `GiveWay` completes an obsolete task under the fence. `FenceImpliesCurrent`
  shows that this cannot happen: the branch is defensive.
* The zone's `reconcile_tasks` scans and repairs under one lock, unlike the other
  three; no reachable state of the model makes it necessary.
* `recover_expired` on the lease of an inspection reopens a settled task
  (`dns_sync/maintenance.h:67`). `OkMeansApplied` and `RowsAreSound` hold anyway.
* `remove_marker` resumes no waiter; `ResumeStaleWaiters` does.
* A zone whose task settled after three failures is inspected again later; a
  deleted zone is not.

### 2.2 Streams: ReliableStream, ReportQueue, LogIngest

A queue is one record. Redis runs a script atomically, so each script is one
operator from a queue to a queue, and each user composes them into actions. An
entry is named by its id, a number in order of appending; the pending list is
`owner`; `idle` are entries untouched for the reclaim time; the retry ZSET is
split into `later` and `due`. The value of an attempts field only sets the length
of a backoff, so only its presence is kept (`tried`). `Former` is the name of any
consumer that no longer runs. `claim_next` asks for a due retry, an abandoned
entry and a new one in three calls; their order is not imposed, because each may
find what appeared since the call before it.

`ReportQueue` has the reports of one node, hence one row lock. `persist_report` is
`LockNode`, `CheckOwner`, then `Commit`, `CommitUnseen` (the commit happened, its
answer was lost), `Reject` or `Fail`; `Confirm`, `Refuse` and `RetryLater` are the
scripts that end a claim. `PickHint` .. `FinishSweep` is the ledger cleanup by
hints, `PickReceipt` .. `DeleteReceipt` the one by scanning the ledger. `LoseRedis`
deletes every Redis key; the entry ids go on because they are times. The 300
second life of an answer key is not modelled (an answer is only ever read once).

`LogIngest` has the deliveries of one node. `payload[id]` is the set of events of
entry `id` (kept after the entry is gone, as history), `rows` the primary keys of
stored rows. The key contains the event's time; `occurred_timestamp` replaces a
time too far ahead of the entry's by the entry's, so `Key` depends on the entry for
the events in `Ahead`, and `do_nothing` does not recognise such an event again.
`insert_envelope` is `LockOwner`, `LookUp`, then `Commit`, `CommitUnseen`,
`Reject` or `Fail`. `Push` may append the same events again at any time: that is
the node's resend after a lost acknowledgement. `ReplayFailed` is available in
the queue's interface (only tests call it today). A loss of Redis is not part of
this module: it loses acknowledged deliveries, and the code does not claim
otherwise.

### 2.3 Abstractions worth knowing, module by module

* `CacheTasks`: a lease is live or lapsed; `next_attempt_at` only delays; the
  refusal of a node without support is written without the fence, as in the code.
* `RateLimit`: tokens are counted in parts of a window so that the script's
  division is exact; the formatting of Lua's floats is not modelled.
* `DnsSync`: one zone, the default line, TTL/priority/proxy as one flag `tuned`;
  the pages of a listing are one observation; an attempt that lost its lease has
  at most one request in flight, which may land late; endpoints never share
  addresses. A foreign CNAME is held back while the runtime names another id, and a
  failed removal is not retried by itself: both are the code's behaviour. Loading the
  zone and loading what nodes and clusters project into it are two statements
  (`LoadZoneSyncState`, `LoadProjectedRecords`) between which commands commit; only
  enabled clusters project. Creating a cluster marks no zone dirty; the code does
  not either.
* `CertificateIssuance`: one authorization per order; the zone's synchronisation is
  one step that may find a conflicting record, leaving the marker finished without the
  challenge applied, which is when the check of `persistence.h:121` decides; the ACME
  server is external. A lost answer of `create_order` leaves an
  order nobody uses.
* `ResourceTransactions`: a transaction is the list of statements it still has to
  run; PostgreSQL's row lock modes are numbers that conflict when they add up to
  five; a circle of waiters loses one member. Challenge records of a zone that is gone
  or already as wanted change nothing and do not roll back; a release of an older
  schema is published again (`Outdated`).
* `NodeDispatch`: a publication is two steps (read the nodes, commit). A node moved
  while its former cluster publishes keeps a stale pending target there, and a
  heartbeat does not clear `last_apply_error`.
* `NodeProjection`: each worker begins with a full pass (`starting`); notices are
  claimed one at a time, which only leaves out that two workers hold different ones; a
  Redis command that runs after its client timed out is not modelled. `NodePresence`: the clocks of Redis, database and process are one.
* `NotificationStream`, `SnapshotReads`: a view is the set, or the number, of
  committed changes it accounts for. Deadlines of a connection (`refresh_at_`, and the
  one in its mailbox) are none, set for the interval the gate is in, or old, kept from
  an interval that is over: that is what `sse.h:255-257` leaves behind and what may
  fire on a gate it does not belong to. A recovery invalidates the Redis scopes and
  then tells the hub, two steps. Snapshot parts only: the incremental parts of
  `sse.h:164-186` (task history and log tail) are not modelled.
* `AttemptTrace`: the summary has both caps of `mapper.h:198`: `SummarySteps` entries,
  of which any number of first ones may be what fits into its bytes. `DocumentAgrees`
  asks that a summary which leaves entries out says so, and that one which does not
  counts every call. `Redaction`: a body is its content type, what it starts
  with and the leaves that a rule can tell apart. A body of text, or of no type, that
  begins with `-----BEGIN` and does not parse as a chain is kept as scrubbed text, as in
  the code; the comment at `redaction.h:433` says that such a body is never kept raw.
* `HttpSession`: a handler is one step on the worker's loop; what interleaves are
  completions, timers and shutdown. Completions of an attempt that was given up stay
  in flight and arrive during the next one (scene `failover`). `TimerRace` lets a
  timer's handler be queued behind the completion that beats it.
* `ResponseCache`: storing, revalidating and invalidating are several steps between
  which other writers act, a write may fail and the node may crash. `raised` records
  the epoch number every invalidation took, so that `EpochsAreOwn` can say when two
  took the same one.
* `OriginHealth`: the probe interval is open (due or not). `OriginConnections`:
  HTTP/2 and TLS differ in connect stages only; closing the pool at shutdown is not
  modelled; nothing ends a tunnel by itself. `CcProtection`: one clock, equal
  limits, fewer buckets.
* `ConfigActivation`: a configuration is its revision; messages to workers may be
  refused, workers may retire, the process may stop or crash between two writes.
* `SelfUpdate`: an image is a binary with its digest; `Reads` says whose persisted
  state an image can load; sockets are counts per worker in one of the phases
  inherited, queued (adopted and not activated), accepting or released; `served` says
  that this chain of execs has accepted, and only the end of the process resets it; `losses` collects the faults that cost sockets or the fallback; a hard crash of an unconfirmed image
  that the supervisor restarts is not rolled back; power loss before the candidate
  is on disk and SIGTERM during the drain are not covered.

## 3. Runs

| Run | Scenes | Properties |
|---|---|---|
| `sync_runtime` | a zone with two loops and a certificate that parks on it, or a provider with two loops and a website | `MarkerMatchesAggregate`, `FenceImpliesCurrent`, `OkMeansApplied`, `ImplementsLatestWins`, `LostLeaseStaysLost`, `RepairOnlyCreates` |
| `reports` | `reports`, `cache_task`, `cache_task_fleet` | `AppliedOnce`, `AnswerIsTrue`, `BytesMatch`, `CompletedMeansDone` |
| `logs` | `ingest`, `delivery`, `caps`, `steps`, `retention`, `texts`, `credentials`, `bodies` | `StoredOnce`, `AcceptedIsKept`, `BudgetsMatch`, `TakenIsKept`, `TraceIsComplete`, `KnownSecretsHidden` |
| `providers` | `quota`, `zone` (console edits), `managed` (management API), `removal`, `issuance`, `renewal` | `Budget`, `ExpiresFull`, `AllOrNone`, `SyncedIsServed`, `StoredKeyIsTheOrders` |
| `aliyun_sweep` | a zone whose provider uses relative names | violates `AccessNameIsOwned`, see section 6 |
| `resources` | `store`, `lifecycles`, `fleet`, `sites`, `reported`, `many`, `moved` | `CommittedIsStored`, `RefsLive`, `EveryNodeDesiresCurrent` |
| `console` | `stream`, `streams`, `claims`, `patches`, `cached`, `recovered`, `failing`, `gate`, `leaving` | `NothingMissed`, `SettledIsFresh` |
| `channel` | `projection`, `watch`, `messages`, `presence`, `fleet` | `SettledAgrees`, `NeverOlder`, `SessionTellsTruth`, `PresenceFollowsHeartbeats` |
| `edge_data` | `serving`, `failover`, `refresh`, `purge`, `replace`, `restart` | `OneResponseEach`, `PurgedStaysPurged` |
| `origins` | `health`, `stopped`, `pool`, `choice`, `report`, `two_workers`, `window`, `full` | `HealthFollowsOutcomes`, `OriginsInOrder`, `LimitsAddUp` |
| `edge_control` | `update`, `lossy`, `faults`, `crash` | `UnprovenHasFallback`, `ListenersStay`, `ServesCommitted` |
| `progress` | `claims`, `commands`, `watch`, `projected`, `silent`, `update`, `reload`, `request` | `ServiceGetsOn`, `NodeGetsOn` |

`about` in `PROJECT.json` says in a sentence what each shows. A property defined in
an `MC` module conjoins, scene by scene, the properties of the component that moves
(for instance `SessionTellsTruth` has `OneWriter`, `FramesAgree`, `NoMissedRelease`,
`AcknowledgedIsStored`, `ChunksOfOneBinary`, ... of `NodeSession`).

**Bounds.** Each scene is small enough to be explored in full and large enough for
its race. `MaxVersion` 2 lets an edit overtake an attempt and a deletion overtake an
edit; `MaxTasks` 3 bounds rows ever inserted (a marker can be lost and repaired);
`FailCap` bounds `count_fails`, which the code only compares with its limit.
`MaxAppends` 2 gives two reports or deliveries, which compete for an archive that
holds one record. Budgets, caps and rings are one or two, so that they are hit. One
or two faults per scene (`MaxFaults`, `MaxLosses`, `MaxCrashes`, `MaxRestarts`): each
hazard in the list is one fault, or a race between one that lost a claim and one
that has it, hence two loops. `OnePair` leaves out behaviours in which both pairs of
`sync_runtime` move: they share no row. Loops, workers or clients are symmetric in
the safety runs only.

`gate` has three changes, delivered as they commit, so that a released gate is
deferred again while an old deadline is still about; `leaving` has two, delivered in
the same way, and a connection that goes. A recovery meets two changes in `recovered`
and a failing read or Redis call in `failing`. `failover` has two origins, so that completions of the first attempt meet the
second; `restart` has two invalidations, failing writes and a crash; `update` has every
kind of fault in `FaultKinds`, three of them (`workers`, `assembly`, `activation`) with
which listeners are given up and one (`undo`) with which the fallback is. `removal` of a
zone is bounded by `MaxRevision` 3 and one fault. In `pool` a request meets one fault, so
a retried send does not fail again. In `fleet` one cluster has a release of an older
schema (`Outdated`).

**Deadlock** is not checked: a system in which everything is settled, and whose
bounds are used up, really stops. That nothing stops earlier is what `progress`
asks.

**Fairness** (run `progress`). Commands, connections, crashes and losses owe
nothing. Attempts and steps end because provider polling, HTTP, Redis and database
calls have deadlines. Loops come back to claiming within seconds and to maintenance
every 15 seconds, oldest first, so what is selectable again and again is selected
once (strong fairness of `ClaimsHappen`). A session compares what it applied with what it
is told each time it begins (`control_channel.h:565-568`), so an image without state of
its own, to which this happens again and again, gets its desired state once (strong
fairness of `update_state = None /\ Update!ApplyDesiredState`). Statements of a transaction are executed,
and a deadlock is resolved by the database. A session's coroutines, the presence
workers and the projection's refreshers are loops with timers (weak fairness). A
node's process is restarted by its supervisor, and each step of an update, of a
reload or of a request ends by completion or timer. `ServiceGetsOn` is
`QueuedIsClaimed`, `EveryCommandEnds`, the answered watch, `LostIsRepaired` and
`OfflineIsShown`; `NodeGetsOn` is `AlwaysBack`, `QueuedAccepted`, `Settles`,
`UnconfirmedStops`, `OriginIsGivenUp` and `WaiterProceeds`.

The modules state further liveness properties that no kept run checks, because
strong fairness multiplies the search: `LeaseEnds`, `StaleWaiterResumes`,
`MissingMarkerIsRepaired`, `LedgerDrains`, `AbandonedIsTakenUp`, `DeliveryEnds`,
`PublishedIsDelivered`, `Converges`, `StopCompletes`, `EveryPublicationEnds` and
others. They document what is expected, no more.

**Mutants.** Definitions marked "Mutant" or "Broken on purpose" are variants of the
definition below them, with a mistake the code could plausibly have; each property is
violated when the variant replaces the original.

## 4. Proofs

Every theorem is for all sets of loops, workers, resources, events, buckets and
nodes and for all bounds: the bounds of a run are constants like any other, so a
proof covers every number of versions, appends, faults and passes. Each invariant
was found and checked with TLC before it was proved. A proof that a step preserves
an invariant has one lemma or case per action. What the cases share (which fields
an action changes, what a script leaves in a queue) is stated once, in the lemmas
called `...Facts`, `...Frame` and `...Keeps...`.

| Component | Theorems | Run property |
|---|---|---|
| Runtime (`SyncRuntimeProofs`) | `TypeCorrect`, `RowsStaySound` | |
| | `MarkersMatch`, `FenceIsSound`, `SuccessIsApplied` | `MarkerMatchesAggregate`, `FenceImpliesCurrent`, `OkMeansApplied` |
| | `LostLeasesStayLost`, `RepairsOnlyCreate` | `LostLeaseStaysLost`, `RepairOnlyCreates` |
| | `RuntimeImplementsLatestWins` (refinement) | `ImplementsLatestWins` |
| Reports (`ReportQueueProofs`) | `ReportTypeCorrect`, `ReportNothingStranded` | |
| | `ReportAppliedOnce`, `ReportAnswerIsTrue`, `ReportBytesMatch` | `AppliedOnce`, `AnswerIsTrue`, `BytesMatch` |
| Cache tasks (`ReportQueueProofs`) | `CompletedIsDone` | `CompletedMeansDone` |
| Logs (`LogProofs`) | `LogTypeCorrect`, `LogNothingStranded` | |
| | `LogStoredOnce`, `LogAcceptedIsKept`, `LogBudgetsMatch` | `StoredOnce`, `AcceptedIsKept`, `BudgetsMatch` |
| Log delivery (`LogProofs`) | `DeliveryKeeps` | `TakenIsKept` |
| Rate limit (`RedisProofs`) | `RateTypes`, `WaitIsLongEnough` | |
| | `BudgetHolds`, `KeysExpireFull`, `AllBucketsOrNone` | `Budget`, `ExpiresFull`, `AllOrNone` |
| Live views (`RedisProofs`) | `ReadsHold`, `ReadsTypeCorrect`, `LiveViewsAreFresh` | `SettledIsFresh` |
| Notifications (`RedisProofs`) | `NoticeHolds`, `NothingIsMissed` | `NothingMissed` |
| Projection (`NodeProjectionProofs`) | `ProjectionHolds`, `ProjectionSpares` | |
| | `ProjectionNeverOlder`, `ProjectionSettles` | `NeverOlder`, `SettledAgrees` |
| Presence (`NodeProjectionProofs`) | `PresenceHolds`, `PresenceIsFollowed` | `PresenceFollowsHeartbeats` |
| Releases (`ReleaseBuild`) | `ReleasesAreStored` | `CommittedIsStored` |
| Origin health (`NodeProofs`) | `HealthHolds`, `HealthTypeCorrect`, `HealthStaysCurrent`, `StoppedStaysStopped` | |
| | `OutcomesDecideHealth` | `HealthFollowsOutcomes` |
| Self update (`NodeProofs`) | `UpdateTypeCorrect`, `BinaryIsChecked`, `PendingHasOther` | |
| | `FallbackHolds`, `ListenersSurvive` | `UnprovenHasFallback`, `ListenersStay` |

**Runtime.** The fence compares row id, version, owner and lease. That this implies
a current version follows only when the row is tied to its aggregate (`RowsAgree`)
and the attempt to the row it captured (`AttemptsFollow`: never ahead of it, and of
the same operation at the same version), with row ids never reused (`IdsAreOld`).
`LostLeasesStayLost` rests on a lemma that no step but its own claim gives a loop a
lease, `RepairsOnlyCreate` on `RepairEnds`: what the repair's second transaction
checks again. The refinement maps a resource to the version wanted and the version
stored; every transaction is a step of `LatestWins` or a stutter.

**Reports.** The ledger alone does not make effects unique, because its receipts are
deleted. The argument: a queued report that was applied has its receipt
(`LedgerCovers`); a receipt is only deleted under the row lock after the report was
seen to be gone, and gone is for ever (`DeadIsGone`, from ids in order,
`NoFuture`); a loop commits only after it saw, under the same lock, that it owns a
queued entry, so that the ledger is still reliable for it even if Redis has since
lost the entry (`OwnedCovers`). Truth of a failure needs that a refusal which still
passes the fence has no effect behind it and none coming (`RejectedIsNot`,
`FailedIsFinal`). The byte counters need that an id is queued, hinted or archived,
never two of them (`Apart`), so that every script moves the bytes of one entry once.
`ReportNothingStranded` is inductive as `Tidy`: retry state and attempts belong to
retained entries, the pending list is what is retained and was delivered, and what
was not delivered is still ahead of the group.

**Cache tasks.** Commands and results cross queues that lose, repeat and delay them,
while the task is retried under new generations. What carries the argument is in
the results, not in the order they come: one that says ok was executed for the
generation it names (`ResultsTrue`), and `record_result` takes it for a target of
that generation only (`TargetsDone`). An owned task is running and only its owner's
lease lets it be finished (`LeaseOK`), so that a worker whose lease lapsed ends
nothing.

**Logs.** What the lookup found stays true until the commit, because only the holder
of the lock inserts (`LocksAreHeld`, `LookedIsTrue`); a loop that is about to finish
a delivery has all of it stored (`StoredIsStored`), so what leaves the queue is
stored or archived, and a replay carries its events over before the record goes.
Budgets and strandedness are argued as for reports, with the same lemmas about the
scripts (`ReliableStream`: `TidyAppend`, `TidyClaims`, `TidyRemove`, ...).

**Log delivery.** The events of a source stand in one line: accepted by the service,
in flight, pending, waiting, posted to the mailbox, staged (`LinedUp`: each part is
ascending and lies above the part before it), so that no loop can lose, repeat or
reorder one without leaving the line. Requests under way carry the present delivery
or what is accepted already (`WireIsCarried`), because a request that timed out may
still be stored; a reply counts only for the request that waits, and then it is true
(`ReplyIsTrue`). The figures the node reports follow from counting the line
(`TakenAreCounted`, `RetainedMatches`), and `NoLostWakeUp` says that a sending loop
that waits with something to send has its token, and so has a source whose batch fits
again.

**Rate limit.** A bucket has at most its capacity, and what callers took from it is
covered by what it had and what refilled since (`BucketInv`, `LevelInv`); what a
refused caller is told is enough for every bucket that was short (`WaitInv`).
These theorems have the hypothesis that the Redis clock does not go back
(`MaxBack = 0`; section 6 says what happens otherwise); `AllBucketsOrNone` does not
need it (`Shapes`).

**Live views.** A view may lack a change only where something is bound to bring it.
`Carries` says it of a snapshot that was read: unless its version was invalidated or
a gate owes a delivery, it has every change delivered, and every patch up to the
epoch its read began with. `Shows` says it of what is displayed and of the mailbox
beside it (`StreamsOK`). The Redis cache keeps its promise because the generation a
reader took before the database read is compared when it stores (`CacheOK`). Each
worker has one flight, flown by a connection that is open (`FlightsOK`), and a gate
that owes a delivery belongs to a worker with connections (`GatesOK`). Who releases it is a second invariant,
`OwnersOK`: as long as no connection has left, an open connection carries the deadline of
the deferral under way and none that is older, or no deadline at all while the gate owes
nothing. It is the connection that made the last release: its timer was reset then, so
the deadline it takes from the next delivery is the gate's. Others may keep old ones,
which fire on a gate that is not due and do nothing (`sse.h:244-257`, `fanout.h:383`).
When the owner leaves, nothing takes its place (section 6, `DeferralIsOwned`). `SnapshotAssumption` has
`Cacheable => MaxPatches = 0`: resources with patches are not kept in the Redis cache.

**Notifications.** An event is *out* once its row is erased, a fence names it or a
claim has it among its published rows. The core is `OutIsPending`: an event that is out
and that a subscription does not know of is in the batch in hand, ahead of the
cursor, in a gap the next read detects, or the reader owes a recovery. A trim keeps
this only because the reader's cursor and its count of entries agree: an entry is
ahead of the cursor exactly when it is not yet counted as seen (`Aligned`), so a
trimmed one shows as a gap. A loss of Redis keeps it because generations are never
reused and a reader that has to capture the heads a second time is interrupted
(`ReaderOK`). An oversized event may be skipped after a recovery since what was
published before it is known (`RecoveryCovers`). At most one copy: a fence stays
until the row is erased, so a row that is claimed again after a lost reply or an
uncertain commit is still fenced (`CopiesFenced`, `ClaimsApart`). The theorems have
the hypothesis `~EarlySubscribers`: a subscription opened before the reader's first
head capture is the disagreement `ChangesArrive` of section 6.

**Projection.** Two invariants. `ProjectionInv`: the row lock that `LockRow` took is
still held when `Write` runs, so what is written is the row as it is
(`WriteIsCurrent`); agents are numbered by the change that created them
(`AgentsAreNew`), and no record is newer than its row (`RecordsAreOld`). That gives
`ProjectionNeverOlder`. A node *without* a row cannot be locked, and
`ProjectionSettles` is about exactly that hole. `SettledInv` says, of every node that
a full pass begun after the last loss has got past, that it agrees with its row or is
still owed by a notice or by a claim that has not reached it (`PassedAgrees`).
For a pass that has read a node as missing: if the node exists by now, a cleanup
that passes the token comparison does not hit its agent (`TokenIsOld`), and the
change was announced (`EventSees` for claims) or someone else accounts for it
(`FullSees`). For what is left behind in Redis: a row's agent with a record or a
binding is in the index (`KnownIsTracked`), and bindings and records that the scans
for orphans have passed are (`BindingsTracked`, `RecordsTracked`,
`InspectedIsTracked`: a record rewritten since it was inspected belongs to its
node). `ProjectionSpares` is the same invariant read as an action property.

**Presence.** A node's deadline lives in Redis only, and Redis may lose it. A
published heartbeat leaves a fence, and the fence stands for the deadline: while the
window of the node's newest heartbeat is open and that heartbeat is fenced, the
deadline is armed at its end (`FencedArmed`), so a repeated notice that the fence
refuses loses nothing. Once a data set is seeded, an online node is armed or its newest
notice is still to be published (`SeededArms`); while a worker seeds it, the node's row
may also be ahead of that worker (`SeedCovers`), and the token with which the seed is
completed is never that of a later data set (`TokensFresh`). A worker that stalls
between inspection and expiry compares the score it read: the score lies in the past,
and if it is still armed, the data set is seeded (`InspectedPast`), so that `SeededArms`
says why the node is not online. What was announced is over and what is armed after it
is later (`EndedPast`), hence `WindowsEndOnce`. `ViewsTold` is `StaleViewPending` with
an unpublished notice in place of any notice: removing one that is published takes
nothing from a view. The promises are for nodes that are not enabled again
(`Steady`): a seed leaves out disabled nodes, see `node_presence.h:158` in section 6.
Likewise `ExpiresOffline` speaks of `node_online_predicate`, not of the window alone:
of a disabled node a late notice may be published after Redis lost a newer one.

**Releases.** What a publication links, and what a release names, is stored
(`StoreTypes`, `LinkedIsStored`). That the compiler's result is a list of artifacts
(`ArtifactsAreLists`) is a hypothesis about the initial state: it is a fold over
data, which only TLC evaluates.

**Origin health.** Entries are shared between a configuration, the one that is being
prepared or was displaced, requests and probes. The proof needs that a configuration
and its memberships belong together, no entry having two origins (`AllPaired`), and
that a live probe belongs to the present membership (`ProbesOwn`). The flag of an
entry is what the last run of equal outcomes that reached its threshold said
(`AllFollow`, with the lemma `RecordFollows` for one more outcome), where healthy and unhealthy
outcomes have thresholds of their own. `HealthStaysCurrent` says that probes, memberships and the
published snapshot are those of the present settings, `StoppedStaysStopped` that no
probe or timer survives a completed stop. That an outcome of a request counts for its
own settings only is not among them (section 6, `OutcomesOfOwnSettings`).

**Self update.** Every path between the two renames, the record and the exec keeps a
proven image within reach: `ImageRuns`, `ConfirmedIsProven`, `FilesUsable`,
`RecordHasLink`, `RecordIsPending`, `CandidateIsOther`, `InstallOrder` (which file is
written first). The exception is an undo that fails after the rename: from then on
`losses` has `undo`, and the theorem promises a fallback no more. The sockets of a chain
of execs that has accepted are open in every phase, or `losses` names the failure with
which they were given up.

**Assumptions** are the named `ASSUME`s of the modules. Names are distinct
(`NamesAssumption`, `NoOwnerAssumption`, `ProjectionAssumption`), bounds, sizes,
capacities and periods are natural numbers (`BoundAssumption`, `FailCapAssumption`,
`BudgetAssumption`, `RateAssumption`, `BoundsAssumption`, `HealthAssumption`,
`SnapshotAssumption`, `NotificationAssumption`, `PresenceAssumption`), a log batch fits the node's budget
(`BoundsAssumption`), origins are finitely many (`HealthAssumption`), a cleanup hint accounts for no more bytes
than the entry it replaces (`SizeAssumption`), there is a resource and its type is
given (`ResourceAssumption`, `TypeAssumption`), `Ahead` is a set of events
(`EventsAssumption`), the original image was checked and an image reads its own state
(`ImagesAssumption`), the nodes too old for cache commands are nodes
(`CacheTasksAssumption`), sites name known certificates (`SitesAssumption`). TLC evaluates each of them in a run.

## 5. What is only model-checked, and what is not modelled

Out of the prover's reach: liveness and fairness (run `progress`), `ENABLED`, and
what a fold or a recursive function computes for every input (compilation of a
release, merging of health reports, redaction).

Without proofs, hence for the bounds of their runs only: the properties of
`DnsSync`, `CertificateIssuance`, `ResourceTransactions`,
`NodeDispatch`, `AttemptTrace`, `Redaction`, `NodeSession`,
`HttpSession`, `ResponseCache`, `OriginConnections`, `OriginSelection`,
`HealthReport`, `CcProtection` and `ConfigActivation`. Conversely `NothingStranded`,
`WaitSuffices` and `OnlyObsoleteRemoved` are theorems and are not listed in a run.

Not modelled:

* The web console, the shared policies, rule evaluation, HTTP parsing and HTTP/2
  framing, TLS: pure functions or user interface.
* Signing and JSON of provider and ACME requests: an attempt's outcome is a choice.
* Wake-up signals (`keyed_signal_hub.h`, `work_available.h`): they shorten waits that
  are bounded anyway. The subscription of `report_waits.h`, reconnect delays.
* Incremental parts of live views (`sse.h:164-186`), the live log tail, the login throttle, attempt events and retention jobs.
* The domain effects of a report are one commit. The lock that a zone command holds
  across a provider call (`dns_zone_command_service.h:95`).

## 6. Disagreements met

While translating, the code was found to do other than a comment or a test says. The
run `aliyun_sweep` keeps one: `AccessNameIsOwned`. `load_cluster_hostnames` collects
full names, the sweep compares them with names that are relative for Aliyun, so no
address at an access name is ever swept there, while `reconciliation.h:77` says "The
cluster owns A/AAAA records at its access hostname."

The others are stated as properties in their modules and left out of the runs that
must pass, either by the property's name or by a constant that keeps the situation
away:

| Where | What happens | Property |
|---|---|---|
| `http_session.h:1106` | a timer whose handler is queued behind the completion that beats it gives up an origin whose response has begun (`TimerRace`) | `OneResponse`, `StatusIsTheOneSent` |
| `origin_response_codec.h:181` | an informational head of a later range lands inside the body | `InterimPrecedesResponse` |
| `http_session.h:1190` | an outcome is counted against the settings that replaced those of the request | `OutcomesOfOwnSettings` |
| `response_cache.h:1399` | two invalidations at once, or one after another that failed half-way, take one epoch number; a crash before `erase_metadata` restores a purged entry | `PurgedStaysPurged` without `EpochsAreOwn` |
| `response_cache.h:622` | a crash between publishing and erasing restores an entry and its replacement | `NoTwins` |
| `response_cache.h:1289` | revalidation brings a demoted body back without evicting | `MemoryWithinLimit` |
| `control_channel.h:498` | discarded stored state is not sent again while the runtime still serves it | `DiscardedIsResent` |
| `notification_reader.h:217` | a change between a snapshot and the reader's first capture is not delivered | `ChangesArrive` |
| `node_command_service.h:97` | the cluster is locked before the own row | `OwnRowFirst` |
| `recorder.h:705` | after a call beyond `max_steps` an earlier call is blamed | `BlamesLastCall` |
| `redaction.h:371` | URLs in response headers are not redacted as URLs | `UrlHeadersMasked` |
| `node_presence.h:158` | a node enabled after seeding has no deadline | `OnlineIsArmed` without `Steady` |
| `release_store.h:125` | a node moved or disabled while a release is activated gets a target | `OnlyEnabledReceive` |
| `sync_engine.h:244` | a user's CNAME at a website's name is adopted and overwritten | `UserCnameKept` |
| `sync_engine.h:272` | a challenge record created by a failed attempt is never deleted | `RetiredChallengesLeave` |
| `fanout.h:383`, `sse.h:244-257` | `publish_coalesced` says that a deferred delivery is one "which subscribers release at the deadline"; when the connection that holds its deadline leaves, the others keep an old deadline or none, the old one fires before the gate is due and is reset, and the change waits for the next one | `DeferralIsOwned` |
| `data_worker.h:532`, `edge_listener.h:378` | `tests/node_upgrade_transition.py` asserts that no "listener disappeared during exec transition"; adopted listeners that were not activated are closed when the activation (or a worker, or the assembly) of an unconfirmed release fails, and the rolled-back image starts without them | `ListenersNeverClose` |
| `self_updater.h:200-211` | when the installed binary cannot be renamed back, the process goes on, and `confirm_startup` of its next session (line 73) removes the link the binary on disk would need | `UnprovenHasFallback` without `FallbackKept` |
| `rate_limit/store.h:83` | a key expires before it is full when the Redis clock went back (`MaxBack`) | `ExpiresFull` |

## 7. Plan

1. Proofs next: `ServesCommitted` of `ConfigActivation`; then `RefsLive` of `ResourceTransactions`.
2. After that the sessions (`OneWriter`, `OneResponseEach`) and the response cache
   (`PurgedStaysPurged` with `EpochsAreOwn` as hypothesis).
