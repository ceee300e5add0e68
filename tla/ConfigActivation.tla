---------------------------- MODULE ConfigActivation ----------------------------
(***************************************************************************)
(* How a node takes a configuration into use.  The control loop stages the *)
(* configuration on disk, asks every data worker to prepare it, switches   *)
(* the active state on disk, collects the workers' votes and commits, or   *)
(* rolls back the workers and then the disk (config_activation.h,          *)
(* data_plane.h, data_worker.h, state_store.h).  Requests travel in one    *)
(* bounded channel per worker and may be refused; workers may retire; the  *)
(* process may be told to stop, and may crash between any two writes.      *)
(*                                                                         *)
(* A configuration is its revision (node spec revision and release         *)
(* generation move together here); Nil is no configuration.                *)
(***************************************************************************)
EXTENDS Integers, Sequences, SequencesExt, FiniteSets

CONSTANTS Workers,      \* the data loops
          MaxRevision,  \* revisions 1..MaxRevision are published
          Invalid,      \* revisions that do not compile
          MaxSequence,  \* bound on data_plane::sequence_ in one process
          MaxCrashes,   \* bound on restarts of the process
          MayLose,      \* a request can be refused by a full channel
          MayRetire,    \* a data loop can stop by itself
          MayStop,      \* SIGTERM
          MayFailDisk,  \* a write of a file can fail
          MaySpoil      \* the stored state can become unreadable

ActivationAssumption ==
    /\ IsFiniteSet(Workers) /\ Workers # {}
    /\ MaxRevision \in Nat \ {0} /\ Invalid \subseteq 1 .. MaxRevision
    /\ MaxSequence \in Nat /\ MaxCrashes \in Nat
    /\ {MayLose, MayRetire, MayStop, MayFailDisk, MaySpoil} \subseteq BOOLEAN

Nil == 0
Configs == 1 .. MaxRevision
Sequences == 1 .. MaxSequence

VARIABLES
    disk,       \* the state directory: active, staged and previous state, stored objects
    source,     \* runtime_state of the control loop: the committed configuration
    desired,    \* the control plane's desired configuration
    session,    \* control channel: "restoring", "connected" or "down"
    op,         \* the coordinator's reload or report
    sequence,   \* data_plane::sequence_
    committed,  \* data_plane::committed_sequence_
    expired,    \* sequences whose deadline has passed
    stopping,   \* data_plane::stopping_
    failed,     \* data_plane_unavailable was thrown
    retired,    \* data_plane::retired_workers_
    worker,     \* the runtime and the reload participant of every data worker
    loop,       \* event loop: "running", "stopping" or "gone"
    inbox,      \* request channels
    results,    \* replies not yet received
    acked,      \* the last configuration reported as applied
    spoiled,    \* whether the stored state was ever damaged
    crashes

vars == <<disk, source, desired, session, op, sequence, committed, expired, stopping,
          failed, retired, worker, loop, inbox, results, acked, spoiled, crashes>>

controlVars == <<disk, source, desired, session, op, sequence, committed, expired, failed,
                 retired, acked, spoiled, crashes>>
workerVars == <<worker, loop, inbox, results>>

\* No operation holds the lease.
NoOp == [phase |-> "idle", config |-> Nil, sequence |-> 0, staged |-> FALSE,
         durable |-> FALSE, previous |-> Nil, seen |-> {}, bad |-> FALSE]

\* A worker before its first configuration.
FreshWorker == [serving |-> Nil, slot |-> Nil, reload |-> 0, phase |-> "none",
                settled |-> 0, stopping |-> FALSE]

Init ==
    /\ desired = 1 /\ acked = Nil /\ spoiled = FALSE /\ crashes = 0
    /\ disk = [active |-> Nil, staged |-> Nil, previous |-> Nil, objects |-> {}]
    /\ source = Nil /\ session = "restoring" /\ op = NoOp /\ sequence = 0 /\ committed = 0
    /\ expired = {} /\ stopping = FALSE /\ failed = FALSE /\ retired = {}
    /\ worker = [w \in Workers |-> FreshWorker]
    /\ loop = [w \in Workers |-> "running"]
    /\ inbox = [w \in Workers |-> <<>>] /\ results = [w \in Workers |-> <<>>]

-----------------------------------------------------------------------------
(* data_plane: sending and receiving.                                      *)

\* The workers whose channel refuses the next request.
Refusals == { lost \in SUBSET Workers :
                /\ \A w \in Workers : loop[w] = "gone" => w \in lost
                /\ \A w \in lost : MayLose \/ loop[w] # "running" }

Request(kind, s, c, done) ==
    [kind |-> kind, sequence |-> s, config |-> c, committed |-> done]

\* send: every worker not known to be retired is tried, whatever happens to the others.
Sent(m, lost) ==
    inbox' = [w \in Workers |-> IF w \in lost \cup retired THEN inbox[w] ELSE Append(inbox[w], m)]

\* A refusal, or a worker already known to be retired, fails the operation.
SendFails(lost) == lost \cup retired # {}

Running == ~stopping /\ \A w \in Workers : loop[w] = "running"

\* Compensation starts: every survivor is asked to roll back; no refusal skips the others.
StartRollback(o) ==
    \E lost \in Refusals :
        /\ Sent(Request("rollback", o.sequence, Nil, committed), lost)
        /\ op' = [o EXCEPT !.phase = "rollback", !.seen = {}, !.bad = FALSE]
        /\ UNCHANGED <<session, failed, stopping>>

\* The operation ends with an error: the session is torn down, and the next one restores
\* the persisted state first.  An unavailable data plane ends the process instead.
Ended(unavailable) ==
    /\ op' = NoOp
    /\ session' = IF unavailable \/ stopping' THEN "down" ELSE "restoring"
    /\ failed' = (failed \/ unavailable)

-----------------------------------------------------------------------------
(* The coordinator.                                                        *)

\* begin_reload: the plane must be running and the configuration not older than the current.
BeginReload(c, staged) ==
    IF ~Running \/ c < source
      THEN /\ stopping' = stopping
           /\ Ended(~stopping /\ ~Running)
           /\ UNCHANGED <<sequence, inbox>>
      ELSE /\ sequence < MaxSequence
           /\ sequence' = sequence + 1
           /\ stopping' = stopping
           /\ \E lost \in Refusals :
                LET o == [NoOp EXCEPT !.phase = IF SendFails(lost) THEN "failing" ELSE "preparing",
                                      !.config = c, !.sequence = sequence', !.staged = staged] IN
                /\ Sent(Request("prepare", sequence', c, committed), lost)
                /\ op' = o
                /\ UNCHANGED <<session, failed>>

\* restore_persisted_state, with nothing stored or with a state this build cannot use.
RestoreNothing ==
    /\ session = "restoring" /\ op.phase = "idle" /\ disk.active \notin disk.objects
    /\ disk' = IF disk.active = Nil THEN disk
               ELSE [disk EXCEPT !.previous = disk.active, !.active = Nil]
    /\ session' = IF stopping THEN "down" ELSE "connected"
    /\ UNCHANGED <<source, desired, op, sequence, committed, expired, stopping, failed, retired,
                   acked, spoiled, crashes, workerVars>>

\* restore_persisted_state with a usable state: activate_persisted_config.
RestoreState ==
    /\ session = "restoring" /\ op.phase = "idle" /\ disk.active \in disk.objects
    /\ BeginReload(disk.active, FALSE)
    /\ UNCHANGED <<disk, source, desired, committed, expired, retired, acked, spoiled, crashes,
                   worker, loop, results>>

\* receive_desired_state: only a state that differs from the running one is fetched; its
\* objects are stored before anything else.
StageObjects ==
    /\ session = "connected" /\ op.phase = "idle" /\ desired # source /\ sequence < MaxSequence
    /\ disk' = [disk EXCEPT !.objects = @ \cup {desired}]
    /\ op' = [NoOp EXCEPT !.phase = "staging", !.config = desired]
    /\ UNCHANGED <<source, desired, session, sequence, committed, expired, stopping, failed,
                   retired, acked, spoiled, crashes, workerVars>>

\* state_store::stage, then compiled_config and begin_reload.
StageState ==
    /\ op.phase = "staging"
    /\ disk' = [disk EXCEPT !.staged = op.config]
    /\ IF op.config \in Invalid
         THEN stopping' = stopping /\ Ended(FALSE) /\ UNCHANGED <<sequence, inbox>>
         ELSE BeginReload(op.config, TRUE)
    /\ UNCHANGED <<source, desired, committed, expired, retired, acked, spoiled, crashes,
                   worker, loop, results>>

StageFails ==
    /\ MayFailDisk /\ op.phase = "staging"
    /\ stopping' = stopping /\ Ended(FALSE)
    /\ UNCHANGED <<disk, source, desired, sequence, committed, expired, retired, acked, spoiled,
                   crashes, workerVars>>

Awaiting == op.phase \in {"preparing", "activating", "rollback", "reporting"}
Complete == op.seen \cup retired = Workers

\* What the coordinator's request was, as named in the replies.
Kind == [preparing |-> "prepare", activating |-> "activate", rollback |-> "rollback",
         reporting |-> "report"]

\* receive: replies of other operations are ignored; a retirement fails all but a rollback.
Receive(w) ==
    /\ Awaiting /\ ~Complete /\ results[w] # <<>>
    /\ op.phase # "rollback" => op.sequence \notin expired
    /\ LET r == Head(results[w])
           mine == r.kind = Kind[op.phase] /\ r.sequence = op.sequence IN
       /\ results' = [results EXCEPT ![w] = Tail(@)]
       /\ retired' = IF r.kind = "retired" THEN retired \cup {w} ELSE retired
       /\ op' = IF r.kind = "retired"
                  THEN IF op.phase = "rollback" THEN op ELSE [op EXCEPT !.phase = "failing"]
                  ELSE IF mine THEN [op EXCEPT !.seen = @ \cup {w}, !.bad = @ \/ ~r.ok] ELSE op
       /\ failed' = (failed \/ (r.kind = "retired" /\ op.phase = "reporting"))
    /\ UNCHANGED <<disk, source, desired, session, sequence, committed, expired, stopping,
                   acked, spoiled, crashes, worker, loop, inbox>>

\* A missing reply, or a refused request, fails the operation at the deadline.
Expire ==
    /\ op.sequence > 0 /\ op.phase \in {"preparing", "prepared", "switching", "activating"}
    /\ expired' = expired \cup {op.sequence}
    /\ op.sequence \notin expired
    /\ UNCHANGED <<disk, source, desired, session, op, sequence, committed, stopping, failed,
                   retired, acked, spoiled, crashes, workerVars>>

\* config_activation: a failed prepare or activation is compensated.
Compensate ==
    /\ \/ op.phase = "failing" /\ op.config # Nil
       \/ op.phase \in {"preparing", "activating"} /\ ~Complete /\ op.sequence \in expired
       \/ op.phase \in {"preparing", "activating"} /\ Complete /\ op.bad
       \/ op.phase = "activating" /\ Complete /\ (~Running \/ op.sequence \in expired)
    /\ StartRollback(op)
    /\ UNCHANGED <<disk, source, desired, sequence, committed, expired, retired, acked, spoiled,
                   crashes, worker, loop, results>>

PrepareDone ==
    /\ op.phase = "preparing" /\ Complete /\ ~op.bad
    /\ op' = [op EXCEPT !.phase = IF op.staged THEN "prepared" ELSE "switching"]
    /\ UNCHANGED <<disk, source, desired, session, sequence, committed, expired, stopping, failed,
                   retired, acked, spoiled, crashes, workerVars>>

\* ~data_plane_reload: a prepare that nobody decides is discarded without waiting.
Abandon ==
    /\ op.phase = "prepared"
    /\ \E lost \in Refusals : Sent(Request("discard", op.sequence, Nil, 0), lost)
    /\ stopping' = stopping /\ Ended(FALSE)
    /\ UNCHANGED <<disk, source, desired, sequence, committed, expired, retired, acked, spoiled,
                   crashes, worker, loop, results>>

\* activate_staged, first write: the active state becomes the previous one.
KeepPrevious ==
    /\ op.phase = "prepared"
    /\ disk' = IF disk.active = Nil THEN disk ELSE [disk EXCEPT !.previous = disk.active]
    /\ op' = [op EXCEPT !.phase = "switching", !.previous = disk.active]
    /\ UNCHANGED <<source, desired, session, sequence, committed, expired, stopping, failed,
                   retired, acked, spoiled, crashes, workerVars>>

\* activate_staged, second write, then activate_workers.
SendActivate ==
    /\ op.phase = "switching"
    /\ disk' = IF op.staged THEN [disk EXCEPT !.active = disk.staged, !.staged = Nil] ELSE disk
    /\ LET o == [op EXCEPT !.durable = op.staged, !.seen = {}] IN
       \/ ~Running /\ op' = [o EXCEPT !.phase = "failing"] /\ UNCHANGED inbox
       \/ Running /\ \E lost \in Refusals :
            /\ Sent(Request("activate", op.sequence, Nil, committed), lost)
            /\ op' = [o EXCEPT !.phase = IF SendFails(lost) THEN "failing" ELSE "activating"]
    /\ UNCHANGED <<source, desired, session, sequence, committed, expired, stopping, failed,
                   retired, acked, spoiled, crashes, worker, loop, results>>

\* A write of activate_staged fails: there is nothing durable to roll back.
SwitchFails ==
    /\ MayFailDisk /\ op.staged /\ op.phase \in {"prepared", "switching"}
    /\ StartRollback(op)
    /\ UNCHANGED <<disk, source, desired, sequence, committed, expired, retired, acked, spoiled,
                   crashes, worker, loop, results>>

\* commit_reload: the decision; telling the workers may fail without consequence.
Commit ==
    /\ op.phase = "activating" /\ Complete /\ ~op.bad /\ Running /\ op.sequence \notin expired
    /\ committed' = op.sequence /\ source' = op.config
    /\ acked' = IF op.staged THEN op.config ELSE acked
    /\ op' = NoOp /\ session' = "connected"
    /\ \E lost \in Refusals : Sent(Request("finalize", op.sequence, Nil, committed'), lost)
    /\ UNCHANGED <<disk, desired, sequence, expired, stopping, failed, retired, spoiled, crashes,
                   worker, loop, results>>

\* rollback_workers returns: all survivors confirmed, or the data plane is unavailable.
RollbackDone ==
    /\ op.phase = "rollback" /\ Complete
    /\ failed' = (failed \/ retired # {})
    /\ stopping' = (stopping \/ retired # {})
    /\ op' = [op EXCEPT !.phase = "restoring"]
    /\ UNCHANGED <<disk, source, desired, session, sequence, committed, expired, retired, acked,
                   spoiled, crashes, workerVars>>

\* The rollback's own deadline passes first.
RollbackTimeout ==
    /\ op.phase = "rollback" /\ ~Complete
    /\ failed' = TRUE /\ stopping' = TRUE
    /\ op' = [op EXCEPT !.phase = "restoring"]
    /\ UNCHANGED <<disk, source, desired, session, sequence, committed, expired, retired, acked,
                   spoiled, crashes, workerVars>>

\* rollback_active, when activate_staged had succeeded.
RestoreDisk ==
    /\ op.phase = "restoring"
    /\ disk' = IF op.durable THEN [disk EXCEPT !.active = op.previous] ELSE disk
    /\ stopping' = stopping /\ Ended(failed)
    /\ UNCHANGED <<source, desired, sequence, committed, expired, retired, acked, spoiled,
                   crashes, workerVars>>

RestoreDiskFails ==
    /\ MayFailDisk /\ op.phase = "restoring" /\ op.durable
    /\ stopping' = TRUE /\ Ended(TRUE)
    /\ UNCHANGED <<disk, source, desired, sequence, committed, expired, retired, acked, spoiled,
                   crashes, workerVars>>

\* report: a heartbeat asks every worker for its load; a failure only loses the numbers,
\* unless a worker turns out to be retired.
Report ==
    /\ session = "connected" /\ op.phase = "idle" /\ sequence < MaxSequence
    /\ sequence' = sequence + 1
    /\ \E lost \in Refusals :
         /\ Sent(Request("report", sequence', Nil, committed), lost)
         /\ op' = [NoOp EXCEPT !.phase = "reporting", !.sequence = sequence']
    /\ UNCHANGED <<disk, source, desired, session, committed, expired, stopping, failed, retired,
                   acked, spoiled, crashes, worker, loop, results>>

ReportDone ==
    /\ op.phase = "reporting" \/ (op.phase = "failing" /\ op.config = Nil)
    /\ op' = NoOp
    /\ stopping' = (stopping \/ failed)
    /\ session' = IF stopping' THEN "down" ELSE session
    /\ UNCHANGED <<disk, source, desired, sequence, committed, expired, failed, retired, acked,
                   spoiled, crashes, workerVars>>

-----------------------------------------------------------------------------
(* data_worker.                                                            *)

\* finalize: only a tentative reload of that sequence is settled.
Finalized(k, s) ==
    IF k.phase = "tentative" /\ k.reload = s
      THEN [k EXCEPT !.phase = "none", !.reload = 0, !.slot = Nil,
                     !.settled = IF s > @ THEN s ELSE @]
      ELSE k

\* Mutant: the displaced runtime is dropped instead of exchanged back.
RollbackForgets(k, s) ==
    IF s <= k.settled THEN k
    ELSE IF k.phase = "none" \/ k.reload # s THEN [k EXCEPT !.settled = s]
    ELSE [k EXCEPT !.settled = s, !.phase = "none", !.reload = 0, !.slot = Nil]

\* rollback: what is settled stays; later requests of the sequence are refused.
RolledBack(k, s) ==
    IF s <= k.settled THEN k
    ELSE IF k.phase = "none" \/ k.reload # s THEN [k EXCEPT !.settled = s]
    ELSE [k EXCEPT !.settled = s, !.phase = "none", !.reload = 0, !.slot = Nil,
                   !.serving = IF k.phase = "tentative" THEN k.slot ELSE @]

\* require_accepting and require_current.
Current(w, k, m) ==
    ~k.stopping /\ loop[w] = "running" /\ m.sequence > k.settled /\ m.sequence \notin expired

\* prepare: an abandoned older prepare is dropped before its replacement is looked at.
MayPrepare(w, k, m) ==
    Current(w, k, m) /\ k.phase # "tentative" /\ (k.phase = "prepared" => m.sequence > k.reload)

PreparedBy(k, m, ok) ==
    IF ok THEN [k EXCEPT !.phase = "prepared", !.reload = m.sequence, !.slot = m.config]
          ELSE [k EXCEPT !.phase = "none", !.reload = 0, !.slot = Nil]

\* activate: exchange_runtime leaves the displaced configuration in the slot.
MayActivate(w, k, m) == Current(w, k, m) /\ k.phase = "prepared" /\ k.reload = m.sequence

ActivatedBy(k) == [k EXCEPT !.phase = "tentative", !.serving = k.slot, !.slot = k.serving]

Answer(w, m, ok) ==
    results' = [results EXCEPT ![w] = Append(@, [kind |-> m.kind, sequence |-> m.sequence, ok |-> ok])]

\* run: a decision the request carries settles a tentative reload first.
Learned(k, m) ==
    IF k.phase = "tentative" /\ k.reload <= m.committed THEN Finalized(k, k.reload) ELSE k

Handle(w) ==
    /\ loop[w] # "gone" /\ inbox[w] # <<>>
    /\ inbox' = [inbox EXCEPT ![w] = Tail(@)]
    /\ LET m == Head(inbox[w])
           k == Learned(worker[w], m) IN
       \/ /\ m.kind = "prepare"
          /\ \E bound \in BOOLEAN :   \* listeners, TLS contexts and health state were built
               LET ok == MayPrepare(w, k, m) /\ m.config >= k.serving
                         /\ (bound \/ m.config = k.serving) IN
               /\ worker' = [worker EXCEPT ![w] = IF MayPrepare(w, k, m) THEN PreparedBy(k, m, ok) ELSE k]
               /\ Answer(w, m, ok)
       \/ /\ m.kind = "activate"
          /\ worker' = [worker EXCEPT ![w] = IF MayActivate(w, k, m) THEN ActivatedBy(k) ELSE k]
          /\ Answer(w, m, MayActivate(w, k, m))
       \/ /\ m.kind = "finalize"
          /\ worker' = [worker EXCEPT ![w] = Finalized(k, m.sequence)] /\ UNCHANGED results
       \/ /\ m.kind = "rollback"
          /\ worker' = [worker EXCEPT ![w] = RolledBack(k, m.sequence)] /\ Answer(w, m, TRUE)
       \/ /\ m.kind = "discard"
          /\ worker' = [worker EXCEPT ![w] = RolledBack(k, m.sequence)] /\ UNCHANGED results
       \/ /\ m.kind = "report"
          /\ worker' = [worker EXCEPT ![w] = k] /\ Answer(w, m, TRUE)
    /\ UNCHANGED <<controlVars, stopping, loop>>

\* stop_accepting: a prepared reload is dropped, a tentative one is left to the coordinator.
StopAccepting(w) ==
    /\ stopping /\ loop[w] # "gone" /\ ~worker[w].stopping
    /\ LET k == [worker[w] EXCEPT !.stopping = TRUE] IN
       worker' = [worker EXCEPT ![w] = IF k.phase = "prepared"
                                         THEN [k EXCEPT !.phase = "none", !.reload = 0, !.slot = Nil]
                                         ELSE k]
    /\ UNCHANGED <<controlVars, stopping, loop, inbox, results>>

\* A data loop fails: admission ends first, its stop hook runs later.
LoopStops(w) ==
    /\ MayRetire /\ loop[w] = "running"
    /\ loop' = [loop EXCEPT ![w] = "stopping"]
    /\ UNCHANGED <<controlVars, stopping, worker, inbox, results>>

Retire(w) ==
    /\ loop[w] = "stopping"
    /\ loop' = [loop EXCEPT ![w] = "gone"]
    /\ worker' = [worker EXCEPT ![w] = [FreshWorker EXCEPT !.stopping = TRUE, !.settled = worker[w].settled]]
    /\ inbox' = [inbox EXCEPT ![w] = <<>>]
    /\ results' = [results EXCEPT ![w] = Append(@, [kind |-> "retired", sequence |-> 0, ok |-> TRUE])]
    /\ UNCHANGED <<controlVars, stopping>>

-----------------------------------------------------------------------------
(* The environment.                                                        *)

Publish ==
    /\ \E c \in Configs \ {desired} : desired' = c
    /\ UNCHANGED <<disk, source, session, op, sequence, committed, expired, stopping, failed,
                   retired, acked, spoiled, crashes, workerVars>>

Shutdown ==
    /\ MayStop /\ ~stopping /\ stopping' = TRUE
    /\ UNCHANGED <<controlVars, workerVars>>

\* The control connection ends between two operations; the next session restores first.
Disconnect ==
    /\ session = "connected" /\ op.phase = "idle"
    /\ session' = IF stopping THEN "down" ELSE "restoring"
    /\ UNCHANGED <<disk, source, desired, op, sequence, committed, expired, stopping, failed,
                   retired, acked, spoiled, crashes, workerVars>>

\* A stored object fails its verification from now on.
Spoil ==
    /\ MaySpoil /\ disk.objects # {}
    /\ \E c \in disk.objects : disk' = [disk EXCEPT !.objects = @ \ {c}]
    /\ spoiled' = TRUE
    /\ UNCHANGED <<source, desired, session, op, sequence, committed, expired, stopping, failed,
                   retired, acked, crashes, workerVars>>

\* The process dies, or ends after "down", and is started again with what is on disk.
Restart ==
    /\ crashes < MaxCrashes /\ crashes' = crashes + 1
    /\ source' = Nil /\ session' = "restoring" /\ op' = NoOp /\ sequence' = 0 /\ committed' = 0
    /\ expired' = {} /\ stopping' = FALSE /\ failed' = FALSE /\ retired' = {}
    /\ worker' = [w \in Workers |-> FreshWorker]
    /\ loop' = [w \in Workers |-> "running"]
    /\ inbox' = [w \in Workers |-> <<>>] /\ results' = [w \in Workers |-> <<>>]
    /\ UNCHANGED <<disk, desired, acked, spoiled>>

Coordinate ==
    \/ RestoreNothing \/ RestoreState \/ StageObjects \/ StageState \/ StageFails \/ Expire
    \/ Compensate \/ PrepareDone \/ Abandon \/ KeepPrevious \/ SendActivate \/ SwitchFails
    \/ Commit \/ RollbackDone \/ RollbackTimeout \/ RestoreDisk \/ RestoreDiskFails
    \/ Report \/ ReportDone \/ \E w \in Workers : Receive(w)

Next ==
    \/ Coordinate
    \/ \E w \in Workers : Handle(w) \/ StopAccepting(w) \/ LoopStops(w) \/ Retire(w)
    \/ Publish \/ Shutdown \/ Disconnect \/ Spoil \/ Restart

Spec == Init /\ [][Next]_vars

\* Every loop runs what is queued on it, and a deadline or a reply wakes the coordinator.
Fairness ==
    /\ WF_vars(StageState) /\ WF_vars(Compensate) /\ WF_vars(PrepareDone)
    /\ WF_vars(KeepPrevious) /\ WF_vars(SendActivate) /\ WF_vars(Commit) /\ WF_vars(Expire)
    /\ WF_vars(RollbackDone) /\ WF_vars(RollbackTimeout) /\ WF_vars(RestoreDisk)
    /\ WF_vars(ReportDone)
    /\ \A w \in Workers : WF_vars(StopAccepting(w)) /\ WF_vars(Retire(w))

FairSpec == Spec /\ Fairness

-----------------------------------------------------------------------------
(* Properties.                                                             *)

Maybe == {Nil} \cup Configs

TypeOK ==
    /\ disk \in [active: Maybe, staged: Maybe, previous: Maybe, objects: SUBSET Configs]
    /\ source \in Maybe /\ desired \in Configs /\ acked \in Maybe
    /\ session \in {"restoring", "connected", "down"}
    /\ op.phase \in {"idle", "staging", "preparing", "prepared", "switching", "activating",
                     "rollback", "restoring", "reporting", "failing"}
    /\ sequence \in 0 .. MaxSequence /\ committed \in 0 .. sequence
    /\ expired \subseteq Sequences /\ retired \subseteq Workers
    /\ {stopping, failed, spoiled} \subseteq BOOLEAN
    /\ \A w \in Workers :
         /\ loop[w] \in {"running", "stopping", "gone"}
         /\ worker[w].serving \in Maybe /\ worker[w].slot \in Maybe
         /\ worker[w].reload \in 0 .. sequence /\ worker[w].settled \in 0 .. sequence

\* A worker serves something other than the committed configuration only while that
\* configuration is being decided; once an operation is over, no late prepare, activate or
\* rollback leaves two workers on different configurations, unless the data plane was given up.
ServesCommitted ==
    \A w \in Workers :
        loop[w] = "running" /\ worker[w].serving # source =>
            \/ op.phase \in {"activating", "rollback", "failing"} /\ worker[w].serving = op.config
            \/ failed

\* Between operations the disk holds what the workers serve: commit and compensation leave
\* neither ahead of the other (commit_staged, rollback_active), unless the plane was given up.
DiskFollows ==
    op.phase = "idle" /\ ~failed /\ (source # Nil \/ session = "connected") => disk.active = source

\* A configuration whose application was reported to the control plane is not lost by a
\* later failed apply, a failed write or a crash between two writes.
AckedSurvives == ~spoiled => disk.active >= acked

\* At every write a crash finds an active state whose objects are stored.
Loadable == ~spoiled => disk.active \in disk.objects \cup {Nil}

\* A running process never goes back to an older configuration (validate_next).
GoesForward ==
  source' = Nil \/ source' >= source

\* The comment of stored_state_unusable: the control plane resends the state that was
\* discarded; so a node with nothing left to fetch has a stored state.
DiscardedIsResent ==
    session = "connected" /\ op.phase = "idle" /\ desired = source => disk.active = source

\* Every reload ends: by its own deadline, or by the rollback's.
Settles == (op.phase # "idle") ~> (op.phase = "idle")

\* A worker that may serve a configuration nobody committed stops accepting, is rolled
\* back or sees it committed (request_stop_accepting after an unconfirmed rollback).
UnconfirmedStops ==
    \A w \in Workers :
        (worker[w].serving # source) ~> (worker[w].serving = source \/ worker[w].stopping)

=============================================================================
