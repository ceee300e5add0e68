---------------------------- MODULE OriginHealth ----------------------------
(***************************************************************************)
(* The origin health of one data worker: the entries and memberships of    *)
(* src/node/data/origin_health.h, the supervisor of health_supervisor.h    *)
(* with its timer, its snapshots and its stop, the probes of               *)
(* health_probe.h, and the two users on the same event loop: a             *)
(* configuration that is prepared, activated and perhaps rolled back       *)
(* (data_worker.h), and requests that report their outcomes                *)
(* (http_session.h).  Everything runs on one loop; an action is one turn.  *)
(*                                                                         *)
(* An entry is named by its membership id.  A configuration gives each     *)
(* origin the version of its probe settings, zero when it has none.  The   *)
(* probe interval is left open: a probed entry may or may not be due.      *)
(***************************************************************************)
EXTENDS Naturals, Sequences, FiniteSets, FiniteSetsExt

CONSTANTS
  Keys,            \* origins
  Versions,        \* versions of an origin's settings, each positive
  HealthyAt,       \* healthy_threshold
  UnhealthyAt,     \* unhealthy_threshold
  Requests,        \* requests that may be under way at once
  Slots,           \* probes that may be under way at once
  MaxIds,          \* bound: memberships ever created
  MaxOutcomes,     \* bound: outcomes recorded
  Stops            \* whether the worker is stopped in this instance

ASSUME HealthAssumption ==
  /\ IsFiniteSet(Keys) /\ Versions \subseteq Nat \ {0} /\ HealthyAt \in Nat \ {0} /\ UnhealthyAt \in Nat \ {0}
  /\ MaxIds \in Nat /\ MaxOutcomes \in Nat /\ Stops \in BOOLEAN

VARIABLES
  config,     \* the worker's published configuration: version of each origin
  members,    \* origin_health_state::entries_: id of each origin, 0 when it has none
  ent,        \* the entries, by id
  reload,     \* the configuration on its way in, or the one it displaced
  published,  \* the last snapshot built
  stale,      \* stale_
  probe,      \* probes_
  req,        \* requests: the settings they were routed with, and their target
  life,       \* started_, stopped_, timer_pending_, stop_and_wait_completed_, the stop waiter
  hist        \* history: the outcomes each entry was given

healthVars == <<config, members, ent, reload, published, stale, probe, req, life, hist>>

Entry(version) == [healthy |-> TRUE, last |-> TRUE, streak |-> 0, checked |-> FALSE, probed |-> FALSE, version |-> version]
NoProbe == [key |-> 0, id |-> 0, version |-> 0, live |-> FALSE, ops |-> 0]
NoRequest == [phase |-> "idle", key |-> 0, version |-> 0, id |-> 0]
NoReload == [phase |-> "none", config |-> [k \in Keys |-> 0], members |-> [k \in Keys |-> 0]]

\* origin_health_state::build
Build(m, e) == [k \in Keys |-> IF m[k] = 0 THEN [id |-> 0, healthy |-> TRUE, checked |-> FALSE]
                               ELSE [id |-> m[k], healthy |-> e[m[k]].healthy, checked |-> e[m[k]].checked]]

HealthInit ==
  /\ config = [k \in Keys |-> 0] /\ members = [k \in Keys |-> 0] /\ ent = <<>> /\ hist = <<>>
  /\ reload = NoReload
  /\ published = Build(members, ent) /\ stale = FALSE
  /\ probe = [s \in Slots |-> NoProbe]
  /\ req = [r \in Requests |-> NoRequest]
  /\ life = [started |-> FALSE, stopped |-> FALSE, timer |-> FALSE, completed |-> FALSE, waiter |-> "none"]

(* -- Recording ---------------------------------------------------------- *)

Threshold(ok) == IF ok THEN HealthyAt ELSE UnhealthyAt

\* Mutant: an outcome that agrees with the published health is dropped.
RecordedUnlessPublished(e, ok) ==
  IF ok = e.healthy THEN e
  ELSE LET run == IF ok = e.last THEN e.streak + 1 ELSE 1
       IN [e EXCEPT !.last = ok, !.streak = run, !.healthy = IF run >= Threshold(ok) THEN ok ELSE @]

\* origin_health_entry::record
Recorded(e, ok) ==
  LET run == IF ok = e.last THEN e.streak + 1 ELSE 1
  IN [e EXCEPT !.last = ok, !.streak = run, !.healthy = IF run >= Threshold(ok) THEN ok ELSE @]

Outcomes == FoldFunctionOnSet(LAMBDA h, n : Len(h) + n, 0, hist, DOMAIN hist)
Logged(id, ok, version) ==
  /\ Outcomes < MaxOutcomes
  /\ hist' = [hist EXCEPT ![id] = Append(@, [ok |-> ok, version |-> version])]

\* snapshot: rebuilt on demand.
Refresh == IF stale THEN Build(members, ent) ELSE published

(* -- Requests ----------------------------------------------------------- *)

\* select_origin_candidates: the origins and thresholds of the configuration at hand.
Route(r) ==
  /\ req[r].phase = "idle" /\ ~life.stopped
  /\ \E k \in Keys : config[k] # 0 /\ req' = [req EXCEPT ![r] = [phase |-> "routed", key |-> k, version |-> config[k], id |-> 0]]
  /\ published' = Refresh /\ stale' = FALSE
  /\ UNCHANGED <<config, members, ent, reload, probe, life, hist>>

\* try_next_origin: the target is looked up when the origin is tried.
Connect(r) ==
  /\ req[r].phase = "routed"
  /\ published' = Refresh /\ stale' = FALSE
  /\ req' = [req EXCEPT ![r].phase = "connected", ![r].id = published'[req[r].key].id]
  /\ UNCHANGED <<config, members, ent, reload, probe, life, hist>>

\* origin_health_state::record: the membership must be the target's.
Counts(r) == members[req[r].key] # 0 /\ members[req[r].key] = req[r].id

Outcome(r, ok) ==
  /\ req[r].phase = "connected"
  /\ req' = [req EXCEPT ![r] = NoRequest]
  /\ IF ~Counts(r) THEN UNCHANGED <<ent, hist, stale>>
     ELSE LET id == members[req[r].key] IN
          /\ Logged(id, ok, req[r].version)
          /\ ent' = [ent EXCEPT ![id] = Recorded(@, ok)]
          /\ stale' = (stale \/ ent'[id].healthy # ent[id].healthy)
  /\ UNCHANGED <<config, members, reload, published, probe, life>>

\* The request goes away without an outcome.
Abandon(r) ==
  /\ req[r].phase # "idle" /\ req' = [req EXCEPT ![r] = NoRequest]
  /\ UNCHANGED <<config, members, ent, reload, published, stale, probe, life, hist>>

(* -- Probes ------------------------------------------------------------- *)

Busy(p) == {s \in Slots : p[s].live \/ p[s].ops > 0}

\* stop_complete
StopComplete(p, l) == l.stopped /\ ~l.timer /\ Busy(p) = {}

\* notify_stop_waiters
Notify(p, l) ==
  IF StopComplete(p, l) THEN [l EXCEPT !.completed = TRUE, !.waiter = IF @ = "waiting" THEN "resumed" ELSE @] ELSE l

\* complete: a result counts once; the operations still have to come back.
CompleteProbe(s, ok) ==
  /\ probe[s].live
  /\ probe' = [probe EXCEPT ![s].live = FALSE]
  /\ Logged(probe[s].id, ok, probe[s].version)
  /\ ent' = [ent EXCEPT ![probe[s].id] = [Recorded(@, ok) EXCEPT !.checked = TRUE]]
  /\ UNCHANGED <<config, members, reload, published, stale, req, life>>

\* set_on_retired: the snapshot has to be rebuilt.
Retired == TRUE

\* operation_completed: the last one of a completed probe retires it.
OperationCompleted(s) ==
  /\ ~probe[s].live /\ probe[s].ops > 0
  /\ probe' = [probe EXCEPT ![s] = IF @.ops = 1 THEN NoProbe ELSE [@ EXCEPT !.ops = probe[s].ops - 1]]
  /\ IF probe[s].ops = 1 THEN stale' = Retired /\ life' = Notify(probe', life) ELSE UNCHANGED <<stale, life>>
  /\ UNCHANGED <<config, members, ent, reload, published, req, hist>>

\* cancel_probes
Cancelled(p) == [s \in Slots |-> [p[s] EXCEPT !.live = FALSE]]

\* claim_due, and the slots this instance has.
Due(k) == config[k] # 0 /\ members[k] # 0

\* start: the deadline timer and the connect are under way.
Started(k) == [key |-> k, id |-> members[k], version |-> config[k], live |-> TRUE, ops |-> 2]

\* start, when preparing the request fails: over at once, as a failure.
FailedAtOnce(e) == [Recorded(e, FALSE) EXCEPT !.probed = TRUE, !.checked = TRUE]

\* tick: a probe for each due origin; those of bad cannot prepare their request.
Probed(due, bad) ==
  /\ \E slot \in [due \ bad -> Slots \ Busy(probe)] :
       /\ \A j, k \in due \ bad : slot[j] = slot[k] => j = k
       /\ probe' = [s \in Slots |-> IF \E k \in due \ bad : slot[k] = s
                                    THEN Started(CHOOSE k \in due \ bad : slot[k] = s) ELSE probe[s]]
  /\ ent' = [id \in DOMAIN ent |-> IF \E k \in bad : members[k] = id THEN FailedAtOnce(ent[id])
                                  ELSE IF \E k \in due : members[k] = id THEN [ent[id] EXCEPT !.probed = TRUE]
                                  ELSE ent[id]]
  /\ hist' = [id \in DOMAIN hist |-> IF \E k \in bad : members[k] = id
                THEN Append(hist[id], [ok |-> FALSE, version |-> config[CHOOSE k \in bad : members[k] = id]])
                ELSE hist[id]]
  /\ stale' = (stale \/ bad # {})

\* tick: the probes, then the timer again.
Tick(l) ==
  IF l.stopped THEN life' = Notify(probe, l) /\ UNCHANGED <<probe, ent, hist, stale>>
  ELSE /\ \E due \in SUBSET {k \in Keys : Due(k)} : \E bad \in SUBSET due :
            /\ \A k \in Keys : Due(k) /\ ~ent[members[k]].probed => k \in due
            /\ Outcomes + Cardinality(bad) <= MaxOutcomes /\ Probed(due, bad)
       /\ life' = [l EXCEPT !.timer = TRUE]

(* -- Lifecycle ---------------------------------------------------------- *)

\* request_start's handler
MayStart == ~life.started /\ ~life.stopped

RequestStart ==
  /\ MayStart /\ Tick([life EXCEPT !.started = TRUE])
  /\ UNCHANGED <<config, members, reload, published, req>>

TimerFires ==
  /\ life.timer
  /\ Tick([life EXCEPT !.timer = FALSE])
  /\ UNCHANGED <<config, members, reload, published, req>>

\* The timer cannot be armed: the supervisor stops itself.
TimerFails ==
  /\ Stops /\ life.timer
  /\ probe' = Cancelled(probe)
  /\ life' = Notify(probe', [life EXCEPT !.timer = FALSE, !.stopped = TRUE])
  /\ UNCHANGED <<config, members, ent, reload, published, stale, req, hist>>

\* request_stop, or stop_and_wait of the worker's stop hook.
Stop(waits) ==
  /\ Stops /\ ~life.completed
  /\ waits => life.waiter = "none"
  /\ probe' = Cancelled(probe)
  /\ LET l == Notify(probe', [life EXCEPT !.stopped = TRUE])
     IN life' = IF ~waits THEN l ELSE [l EXCEPT !.waiter = IF StopComplete(probe', l) THEN "resumed" ELSE "waiting"]
  /\ UNCHANGED <<config, members, ent, reload, published, stale, req, hist>>

(* -- Configurations ----------------------------------------------------- *)

\* prepare(active, next): origins whose settings changed get a new membership.
Replaced(next) == {k \in Keys : config[k] # next[k]}

\* origin_health_state::prepare: kept entries are shared, others are created.
Prepare(next) ==
  /\ reload.phase \in {"none", "prepared"} /\ ~life.stopped /\ next # config
  /\ LET fresh == {k \in Keys : next[k] # 0 /\ (members[k] = 0 \/ k \in Replaced(next))} IN
     /\ Len(ent) + Cardinality(fresh) <= MaxIds
     /\ \E ids \in [fresh -> (Len(ent) + 1)..(Len(ent) + Cardinality(fresh))] :
          /\ \A j, k \in fresh : ids[j] = ids[k] => j = k
          /\ reload' = [phase |-> "prepared", config |-> next,
                        members |-> [k \in Keys |-> IF k \in fresh THEN ids[k] ELSE IF next[k] = 0 THEN 0 ELSE members[k]]]
          /\ ent' = [id \in 1..(Len(ent) + Cardinality(fresh)) |->
                       IF id <= Len(ent) THEN ent[id] ELSE Entry(next[CHOOSE k \in fresh : ids[k] = id])]
          /\ hist' = [id \in DOMAIN ent' |-> IF id <= Len(ent) THEN hist[id] ELSE <<>>]
  /\ UNCHANGED <<config, members, published, stale, probe, req, life>>

\* exchange_runtime: health, then configuration, in one turn.
Exchange(phase) ==
  /\ config' = reload.config /\ members' = reload.members /\ stale' = TRUE
  /\ probe' = Cancelled(probe) /\ life' = Notify(probe', life)
  /\ reload' = [phase |-> phase, config |-> config, members |-> members]

Activate ==
  /\ reload.phase = "prepared" /\ ~life.stopped /\ Exchange("tentative")
  /\ UNCHANGED <<ent, published, req, hist>>

\* rollback, of a candidate that was only prepared or is already active.
Rollback ==
  /\ \/ reload.phase = "prepared" /\ reload' = NoReload /\ UNCHANGED <<config, members, stale, probe, life>>
     \/ reload.phase = "tentative" /\ Exchange("none")
  /\ UNCHANGED <<ent, published, req, hist>>

Finalize ==
  /\ reload.phase = "tentative" /\ reload' = NoReload
  /\ UNCHANGED <<config, members, ent, published, stale, probe, req, life, hist>>

(* -- Specification ------------------------------------------------------ *)

HealthNext ==
  \/ \E r \in Requests : Route(r) \/ Connect(r) \/ Abandon(r) \/ \E ok \in BOOLEAN : Outcome(r, ok)
  \/ \E s \in Slots : OperationCompleted(s) \/ \E ok \in BOOLEAN : CompleteProbe(s, ok)
  \/ RequestStart \/ TimerFires \/ TimerFails \/ \E waits \in BOOLEAN : Stop(waits)
  \/ \E next \in [Keys -> Versions \cup {0}] : Prepare(next)
  \/ Activate \/ Rollback \/ Finalize

HealthSpec == HealthInit /\ [][HealthNext]_healthVars

\* The loop runs cancelled timers and operations to their handlers.
HealthFairness == WF_healthVars(TimerFires) /\ \A s \in Slots : WF_healthVars(OperationCompleted(s))
FairHealthSpec == HealthSpec /\ HealthFairness

(* -- Properties --------------------------------------------------------- *)

(* Entries, memberships, probes and requests keep their shape, and two     *)
(* origins never share an entry.                                           *)
HealthTypeOK ==
  /\ \A k \in Keys : members[k] \in 0..Len(ent) /\ (members[k] = 0) = (config[k] = 0) /\ published[k].id \in 0..Len(ent)
  /\ \A j, k \in Keys : members[j] = members[k] /\ j # k => members[j] = 0
  /\ DOMAIN hist = DOMAIN ent /\ stale \in BOOLEAN
  /\ \A s \in Slots : probe[s].live => probe[s].ops > 0 /\ probe[s].id \in DOMAIN ent
  /\ \A r \in Requests : req[r].phase \in {"idle", "routed", "connected"}

(* What an entry says follows from the outcomes it was given and nothing   *)
(* else: the last run that reached its threshold decides, none leaves the  *)
(* origin healthy ("filtering against a published snapshot would lose      *)
(* opposite-direction outcomes").                                          *)
RunEnding(h, i) == i + 1 - Min({j \in 1..i : \A n \in j..i : h[n].ok = h[i].ok})
Decided(h) == {i \in DOMAIN h : RunEnding(h, i) >= Threshold(h[i].ok)}
HealthFollowsOutcomes ==
  \A id \in DOMAIN ent : ent[id].healthy = IF Decided(hist[id]) = {} THEN TRUE ELSE hist[id][Max(Decided(hist[id]))].ok

(* A snapshot that is not marked stale shows every member as it is, except *)
(* for a result whose probe has operations to come back.                   *)
SnapshotCurrent == stale \/ published = Build(members, ent) \/ \E s \in Slots : ~probe[s].live /\ probe[s].ops > 0

(* Every probe that can still record belongs to the membership and the     *)
(* settings its origin has now, through activation and rollback.           *)
ProbesAreCurrent == \A s \in Slots : probe[s].live => /\ members[probe[s].key] = probe[s].id
                                                      /\ probe[s].version = config[probe[s].key]

(* An entry belongs to one version of its origin's settings: what was      *)
(* learned under other settings never decides about these.                 *)
MembersMatchSettings == \A k \in Keys : members[k] # 0 => ent[members[k]].version = config[k]

(* Once the stop has completed no probe and no timer comes back, whatever  *)
(* was posted before it.                                                   *)
StaysStopped == life.completed => life.stopped /\ ~life.timer /\ Busy(probe) = {}

(* The worker's stop hook that waits for the supervisor goes on.           *)
StopCompletes == life.waiter = "waiting" ~> life.waiter = "resumed"

(* "A target identifies one membership so late request completions cannot  *)
(* affect a retired and re-added origin": an outcome counts only for the   *)
(* settings the request was routed with.                                   *)
OutcomesOfOwnSettings == \A id \in DOMAIN hist : \A i \in DOMAIN hist[id] : hist[id][i].version = ent[id].version
=============================================================================
