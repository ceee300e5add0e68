---------------------------- MODULE SyncRuntime -----------------------------
(***************************************************************************)
(* The marker runtime: aggregates queue versions of work, claim loops lease *)
(* a due marker, run it outside the database and write one fenced result.  *)
(* Each action is one database transaction (or one statement between two   *)
(* co_awaits); what a loop read in an earlier transaction is in job[w].    *)
(*                                                                         *)
(* A resource has at most one row of sys_sync_task, its coalesced marker:  *)
(* the version to process, how far it got, the lease of the attempt that   *)
(* runs it and the task it waits on.  The statements that write a row      *)
(* (service/features/sync_runtime/state.h, worker.h) come first, as        *)
(* operators on rows.                                                      *)
(*                                                                         *)
(* Time is reduced to what the statements compare with NOW():              *)
(*   due  - next_attempt_at <= NOW() (on a settled row: its next           *)
(*          inspection is due)                                             *)
(*   live - lease_until > NOW()                                            *)
(***************************************************************************)
EXTENDS Integers

CONSTANTS Resources,   \* aggregates: providers, zones, certificates, websites
          Workers,     \* claim loops; a loop owns one lease_owner token
          NoOwner,     \* lease_owner IS NULL
          FailCap,     \* bound: count_fails is not told apart above this
          TypeOf,      \* the marker type of a resource
          LoopType,    \* the marker type a claim loop serves
          MayAwait,    \* <<r, a>>: an attempt of r may park on the task of a
          MaxVersion,  \* bound: versions an aggregate reaches
          MaxTasks     \* bound: rows ever inserted

Types == {"provider", "dns_zone", "certificate", "website"}

ASSUME NoOwnerAssumption == NoOwner \notin Workers
ASSUME FailCapAssumption == FailCap \in Nat \ {0}
ASSUME TypeAssumption == /\ TypeOf \in [Resources -> Types]
                         /\ LoopType \in [Workers -> Types]
                         /\ MayAwait \subseteq Resources \X Resources
ASSUME ResourceAssumption == Resources # {}
ASSUME BoundAssumption == MaxVersion \in Nat /\ MaxTasks \in Nat

-----------------------------------------------------------------------------
(* The rows of sys_sync_task and every statement that writes one.          *)

Fails == 0 .. FailCap

Row == [id : Nat, version : Nat, removal : BOOLEAN, processed : Nat,
        done : BOOLEAN, ok : BOOLEAN, fails : Fails, due : BOOLEAN,
        owner : Workers \cup {NoOwner}, live : BOOLEAN,
        waitTask : Nat, waitVersion : Nat]

(* Row ids are drawn from 1, 2, ...; id 0 stands for "no row".             *)
NoRow == [id |-> 0, version |-> 0, removal |-> FALSE, processed |-> 0,
          done |-> FALSE, ok |-> FALSE, fails |-> 0, due |-> FALSE,
          owner |-> NoOwner, live |-> FALSE, waitTask |-> 0, waitVersion |-> 0]

NewRow(id, version, removal) ==
    [NoRow EXCEPT !.id = id, !.version = version, !.removal = removal, !.due = TRUE]

(* Broken on purpose: ON CONFLICT DO NOTHING.                              *)
UpsertRowInsertOnly(row, id, version, removal) ==
    IF row.id = 0 THEN NewRow(id, version, removal) ELSE row

(* Broken on purpose: the result columns survive a newer version.          *)
RequeuedKeepsResult(row, version, removal) ==
    LET newer == version > row.version IN
    [row EXCEPT !.version = version, !.removal = removal,
                !.fails = 0, !.due = TRUE,
                !.owner = IF newer THEN NoOwner ELSE @,
                !.live = IF newer THEN FALSE ELSE @,
                !.waitTask = 0, !.waitVersion = 0]

(* A newer or the same version resets the row to queued work; only a newer *)
(* one takes the lease from a running attempt.                             *)
Requeued(row, version, removal) ==
    LET newer == version > row.version IN
    [row EXCEPT !.version = version, !.removal = removal, !.processed = 0,
                !.done = FALSE, !.ok = FALSE, !.fails = 0, !.due = TRUE,
                !.owner = IF newer THEN NoOwner ELSE @,
                !.live = IF newer THEN FALSE ELSE @,
                !.waitTask = 0, !.waitVersion = 0]

UpsertRow(row, id, version, removal) ==
    IF row.id = 0 THEN NewRow(id, version, removal)
    ELSE IF version >= row.version THEN Requeued(row, version, removal)
    ELSE row

Unleased(row) == [row EXCEPT !.owner = NoOwner, !.live = FALSE]

Leased(row, w) == [row EXCEPT !.owner = w, !.live = TRUE]

(* The fence of every result statement: the captured row, version and      *)
(* owner, under an unexpired lease.                                        *)
Fence(row, job, w) ==
    /\ row.id = job.id
    /\ row.version = job.version
    /\ row.owner = w
    /\ row.live

(* Recovery's opposite fence: the same lease, expired.                     *)
ExpiredFence(row, job) ==
    /\ row.id = job.id
    /\ row.version = job.version
    /\ row.owner = job.owner
    /\ row.owner # NoOwner
    /\ ~row.live

(* count_fails + 1.                                                         *)
OneMore(n) == IF n < FailCap THEN n + 1 ELSE FailCap

CompletedRow(row) ==
    [Unleased(row) EXCEPT !.done = TRUE, !.ok = TRUE, !.fails = 0, !.due = FALSE,
                          !.processed = row.version,
                          !.waitTask = 0, !.waitVersion = 0]

(* A terminal failure settles the version, a retryable one queues it again;*)
(* an inspection restarts the failure count.                               *)
FailedRow(row, terminal, restart) ==
    [Unleased(row) EXCEPT !.done = terminal, !.ok = FALSE, !.due = FALSE,
                          !.fails = IF restart THEN 1 ELSE OneMore(row.fails),
                          !.processed = IF terminal THEN row.version ELSE @,
                          !.waitTask = 0, !.waitVersion = 0]

WaitingRow(row, awaitedId, awaitedVersion) ==
    [Unleased(row) EXCEPT !.done = FALSE, !.ok = FALSE, !.fails = 0, !.due = TRUE,
                          !.waitTask = awaitedId, !.waitVersion = awaitedVersion]

ReleasedRow(row) == [Unleased(row) EXCEPT !.due = TRUE]

InspectedRow(row) == [Unleased(row) EXCEPT !.due = FALSE]

RecoveredRow(row) ==
    [Unleased(row) EXCEPT !.done = FALSE, !.ok = FALSE, !.due = FALSE,
                          !.fails = OneMore(row.fails)]

ResumedRow(row) == [row EXCEPT !.waitTask = 0, !.waitVersion = 0, !.due = FALSE]

(* running_result_writer::resume: a removal resumes every waiter of the    *)
(* task, a settled version the waiters it satisfies.                       *)
Resume(table, id, version, removed) ==
    [r \in Resources |->
        IF /\ table[r].waitTask # 0
           /\ table[r].waitTask = id
           /\ removed \/ table[r].waitVersion <= version
        THEN ResumedRow(table[r]) ELSE table[r]]

(* A waiter whose awaited task is gone or already processed the awaited    *)
(* version.                                                                *)
StaleWaiter(table, r) ==
    /\ table[r].waitTask # 0
    /\ \A a \in Resources :
          table[a].id = table[r].waitTask => table[a].processed >= table[r].waitVersion

-----------------------------------------------------------------------------

VARIABLES task,       \* sys_sync_task, by resource
          nextId,     \* the next row id
          aggregate,  \* version column and deleted_at of each aggregate
          applied,    \* the version whose result the aggregate last stored
          job         \* what each claim loop is doing, and what it captured

vars == <<task, nextId, aggregate, applied, job>>

Kinds == {"idle", "run", "inspect", "recover", "repair"}

Job == [kind : Kinds, resource : Resources, id : Nat, version : Nat,
        removal : BOOLEAN, owner : Workers \cup {NoOwner}]

Idle == [kind |-> "idle", resource |-> CHOOSE r \in Resources : TRUE, id |-> 0,
         version |-> 0, removal |-> FALSE, owner |-> NoOwner]

NewJob(kind, r, w) ==
    [kind |-> kind, resource |-> r, id |-> task[r].id, version |-> task[r].version,
     removal |-> task[r].removal, owner |-> w]

Aggregate == [version : Nat, deleted : BOOLEAN]

TypeOK == /\ task \in [Resources -> Row]
          /\ nextId \in Nat \ {0}
          /\ aggregate \in [Resources -> Aggregate]
          /\ applied \in [Resources -> Nat]
          /\ job \in [Workers -> Job]

Init == /\ task = [r \in Resources |-> NoRow]
        /\ nextId = 1
        /\ aggregate = [r \in Resources |-> [version |-> 0, deleted |-> FALSE]]
        /\ applied = [r \in Resources |-> 0]
        /\ job = [w \in Workers |-> Idle]

Exists(r) == task[r].id # 0

-----------------------------------------------------------------------------
(* Commands of the domains: each changes the aggregate and its marker in   *)
(* one transaction.                                                        *)

(* upsert_marker; a new row takes a new id.                                *)
Upsert(r, version, removal) ==
    /\ Exists(r) \/ nextId <= MaxTasks
    /\ task' = [task EXCEPT ![r] = UpsertRow(@, nextId, version, removal)]
    /\ nextId' = IF Exists(r) THEN nextId ELSE nextId + 1

(* Creation (version 0 -> 1) and every later change that queues a version. *)
Enqueue(r) ==
    /\ ~aggregate[r].deleted
    /\ aggregate[r].version < MaxVersion
    /\ aggregate' = [aggregate EXCEPT ![r].version = @ + 1]
    /\ Upsert(r, aggregate[r].version + 1, FALSE)
    /\ UNCHANGED <<applied, job>>

(* A manual check queues the current version again.                        *)
Requeue(r) ==
    /\ TypeOf[r] = "website"
    /\ ~aggregate[r].deleted
    /\ aggregate[r].version > 0
    /\ Upsert(r, aggregate[r].version, FALSE)
    /\ UNCHANGED <<aggregate, applied, job>>

(* remove_marker: the row disappears; its waiters are not resumed here.    *)
RemoveMarker(r) == task' = [task EXCEPT ![r] = NoRow]

(* A provider edited without new credentials gets a new generation and     *)
(* loses its marker.                                                       *)
EditProvider(r) ==
    /\ TypeOf[r] = "provider"
    /\ ~aggregate[r].deleted
    /\ aggregate[r].version \in 1 .. (MaxVersion - 1)
    /\ aggregate' = [aggregate EXCEPT ![r].version = @ + 1]
    /\ RemoveMarker(r)
    /\ UNCHANGED <<nextId, applied, job>>

(* Deleting a zone queues the removal of its remote records; any other     *)
(* aggregate loses its marker (a certificate keeps its issuance revision). *)
DeleteZone(r) ==
    /\ TypeOf[r] = "dns_zone"
    /\ ~aggregate[r].deleted
    /\ aggregate[r].version \in 1 .. (MaxVersion - 1)
    /\ aggregate' = [aggregate EXCEPT ![r] = [version |-> @.version + 1, deleted |-> TRUE]]
    /\ Upsert(r, aggregate[r].version + 1, TRUE)
    /\ UNCHANGED <<applied, job>>

Delete(r) ==
    /\ TypeOf[r] # "dns_zone"
    /\ ~aggregate[r].deleted
    /\ aggregate[r].version \in 1 .. (MaxVersion - 1)
    /\ aggregate' = [aggregate EXCEPT
           ![r] = [version |-> IF TypeOf[r] = "certificate" THEN @.version ELSE @.version + 1,
                   deleted |-> TRUE]]
    /\ RemoveMarker(r)
    /\ UNCHANGED <<nextId, applied, job>>

-----------------------------------------------------------------------------
(* The claim loop.                                                         *)

IsIdle(w) == job[w].kind = "idle"

Become(w, j) == job' = [job EXCEPT ![w] = j]

Serves(w, r) == LoopType[w] = TypeOf[r]

Claimable(r) ==
    /\ Exists(r)
    /\ ~task[r].done
    /\ task[r].due
    /\ task[r].owner = NoOwner
    /\ task[r].waitTask = 0
    /\ task[r].version = aggregate[r].version
    /\ aggregate[r].deleted => TypeOf[r] = "dns_zone" /\ task[r].removal

Claim(w, r) ==
    /\ IsIdle(w)
    /\ Serves(w, r)
    /\ Claimable(r)
    /\ task' = [task EXCEPT ![r] = Leased(@, w)]
    /\ Become(w, NewJob("run", r, w))
    /\ UNCHANGED <<nextId, aggregate, applied>>

(* claim_due_check: a settled task lends its lease to an inspection.       *)
Inspectable(r) ==
    /\ TypeOf[r] \in {"dns_zone", "website"}
    /\ Exists(r)
    /\ ~aggregate[r].deleted
    /\ task[r].version = aggregate[r].version
    /\ task[r].done
    /\ task[r].due
    /\ task[r].owner = NoOwner
    /\ task[r].waitTask = 0

ClaimInspection(w, r) ==
    /\ IsIdle(w)
    /\ Serves(w, r)
    /\ Inspectable(r)
    /\ task' = [task EXCEPT ![r] = Leased(@, w)]
    /\ Become(w, NewJob("inspect", r, w))
    /\ UNCHANGED <<nextId, aggregate, applied>>

-----------------------------------------------------------------------------
(* Results of an attempt.  The fence decides whether one counts; a stale   *)
(* result changes nothing.  Either way the attempt is over.                *)

Running(w) == job[w].kind \in {"run", "inspect"}

Holds(w) == Running(w) /\ Fence(task[job[w].resource], job[w], w)

(* The aggregate is still at the attempt's version: what the result        *)
(* transaction checks on the aggregate row before it writes.               *)
IsCurrent(w) ==
    LET r == job[w].resource IN
    /\ aggregate[r].version = job[w].version
    /\ aggregate[r].deleted => TypeOf[r] = "dns_zone"

(* Broken on purpose: an expired lease can be renewed.                     *)
RenewExpired(w) ==
    LET row == task[job[w].resource] IN
    /\ Running(w)
    /\ row.id = job[w].id /\ row.version = job[w].version /\ row.owner = w
    /\ task' = [task EXCEPT ![job[w].resource].live = TRUE]
    /\ UNCHANGED <<nextId, aggregate, applied, job>>

(* renew_running_lease, before each outbound call: an attempt that finds   *)
(* its lease gone throws and ends (Fail, Abandon).                         *)
Renew(w) ==
    /\ Holds(w)
    /\ task' = [task EXCEPT ![job[w].resource].live = TRUE]
    /\ UNCHANGED <<nextId, aggregate, applied, job>>

(* Write the row, then the resumptions it causes, under the fence.         *)
Result(w, row, resumes, removed) ==
    LET r == job[w].resource
        written == [task EXCEPT ![r] = row] IN
    task' = IF ~Holds(w) THEN task
            ELSE IF resumes THEN Resume(written, job[w].id, job[w].version, removed)
            ELSE written

Stored(w) == applied' = IF Holds(w) THEN [applied EXCEPT ![job[w].resource] = job[w].version]
                        ELSE applied

(* Broken on purpose: the aggregate is written without its version check   *)
(* and before the fence is known to hold.                                  *)
CompleteUnchecked(w) ==
    LET r == job[w].resource IN
    /\ Running(w)
    /\ ~job[w].removal
    /\ Result(w, CompletedRow(task[r]), TRUE, FALSE)
    /\ applied' = [applied EXCEPT ![r] = job[w].version]
    /\ Become(w, Idle)
    /\ UNCHANGED <<nextId, aggregate>>

Complete(w) ==
    LET r == job[w].resource IN
    /\ Running(w)
    /\ IsCurrent(w)
    /\ ~job[w].removal
    /\ Result(w, CompletedRow(task[r]), TRUE, FALSE)
    /\ Stored(w)
    /\ Become(w, Idle)
    /\ UNCHANGED <<nextId, aggregate>>

(* The remote records of a deleted zone are gone: the task goes too.       *)
FinishRemoval(w) ==
    LET r == job[w].resource IN
    /\ Running(w)
    /\ IsCurrent(w)
    /\ job[w].removal
    /\ Result(w, NoRow, TRUE, TRUE)
    /\ Stored(w)
    /\ Become(w, Idle)
    /\ UNCHANGED <<nextId, aggregate>>

(* The outcome is stored although some of its parts failed (a record the   *)
(* provider refused, a hostname that points elsewhere): the version is     *)
(* processed, the task settled as failed.                                  *)
StoreFailure(w) ==
    LET r == job[w].resource IN
    /\ Running(w)
    /\ TypeOf[r] \in {"dns_zone", "website"}
    /\ IsCurrent(w)
    /\ ~job[w].removal
    /\ Result(w, FailedRow(task[r], TRUE, TypeOf[r] = "website"), TRUE, FALSE)
    /\ Stored(w)
    /\ Become(w, Idle)
    /\ UNCHANGED <<nextId, aggregate>>

(* The attempt itself failed.                                              *)
Fail(w, terminal) ==
    /\ Running(w)
    /\ Result(w, FailedRow(task[job[w].resource], terminal, TypeOf[job[w].resource] = "dns_zone" /\ job[w].kind = "inspect"),
              terminal, FALSE)
    /\ Become(w, Idle)
    /\ UNCHANGED <<nextId, aggregate, applied>>

Park(w, a, v) ==
    /\ job[w].kind = "run"
    /\ <<job[w].resource, a>> \in MayAwait
    /\ Exists(a)
    /\ v \in 1 .. task[a].version
    /\ Result(w, WaitingRow(task[job[w].resource], task[a].id, v), FALSE, FALSE)
    /\ Become(w, Idle)
    /\ UNCHANGED <<nextId, aggregate, applied>>

(* An inspection that found nothing new keeps the settled state.           *)
KeepSettled(w) ==
    /\ job[w].kind = "inspect"
    /\ IsCurrent(w)
    /\ Result(w, InspectedRow(task[job[w].resource]), FALSE, FALSE)
    /\ Become(w, Idle)
    /\ UNCHANGED <<nextId, aggregate, applied>>

(* The aggregate moved on: the attempt gives its lease back (a deleted     *)
(* website completes its obsolete task).                                   *)
GiveWay(w) ==
    LET r == job[w].resource
        obsolete == TypeOf[r] = "website" /\ aggregate[r].deleted IN
    /\ Running(w)
    /\ ~IsCurrent(w)
    /\ Result(w, IF obsolete THEN CompletedRow(task[r]) ELSE ReleasedRow(task[r]),
              obsolete, FALSE)
    /\ Become(w, Idle)
    /\ UNCHANGED <<nextId, aggregate, applied>>

(* The process stops, or the transaction fails: nothing is written and the *)
(* lease stays behind.                                                     *)
Abandon(w) ==
    /\ ~IsIdle(w)
    /\ Become(w, Idle)
    /\ UNCHANGED <<task, nextId, aggregate, applied>>

-----------------------------------------------------------------------------
(* Maintenance of the loop.                                                *)

(* recover_stale_running selects expired leases, then recovers each in a   *)
(* transaction of its own.                                                 *)
ScanExpired(w, r) ==
    /\ IsIdle(w)
    /\ Serves(w, r)
    /\ task[r].owner # NoOwner
    /\ ~task[r].live
    /\ Become(w, NewJob("recover", r, task[r].owner))
    /\ UNCHANGED <<task, nextId, aggregate, applied>>

RecoverExpired(w) ==
    LET r == job[w].resource IN
    /\ job[w].kind = "recover"
    /\ task' = IF ExpiredFence(task[r], job[w])
               THEN [task EXCEPT ![r] = RecoveredRow(@)] ELSE task
    /\ Become(w, Idle)
    /\ UNCHANGED <<nextId, aggregate, applied>>

ResumeStaleWaiters(w) ==
    LET stale == {r \in Resources : Serves(w, r) /\ StaleWaiter(task, r)} IN
    /\ IsIdle(w)
    /\ stale # {}
    /\ task' = [r \in Resources |-> IF r \in stale THEN ResumedRow(task[r]) ELSE task[r]]
    /\ UNCHANGED <<nextId, aggregate, applied, job>>

(* An aggregate whose current version has no marker, and still needs one.  *)
MarkerMissing(r) ==
    /\ aggregate[r].version > 0
    /\ ~(Exists(r) /\ task[r].version = aggregate[r].version)
    /\ aggregate[r].deleted => TypeOf[r] = "dns_zone" /\ applied[r] < aggregate[r].version
    /\ TypeOf[r] = "certificate" => applied[r] < aggregate[r].version

ScanMissing(w, r) ==
    /\ IsIdle(w)
    /\ Serves(w, r)
    /\ MarkerMissing(r)
    /\ Become(w, [NewJob("repair", r, NoOwner) EXCEPT !.version = aggregate[r].version])
    /\ UNCHANGED <<task, nextId, aggregate, applied>>

(* Broken on purpose: the scan's answer is trusted.                        *)
StillMissingUnchecked(w) ==
    LET r == job[w].resource IN
    /\ aggregate[r].version = job[w].version
    /\ aggregate[r].deleted => TypeOf[r] = "dns_zone"

(* The scan's candidate is checked again under the aggregate's lock (zones *)
(* are scanned and repaired under one lock: their scan's condition holds). *)
StillMissing(w) ==
    LET r == job[w].resource IN
    /\ aggregate[r].version = job[w].version
    /\ aggregate[r].deleted => TypeOf[r] = "dns_zone" /\ applied[r] < aggregate[r].version
    /\ ~(Exists(r) /\ task[r].version = job[w].version)

Repair(w) ==
    LET r == job[w].resource IN
    /\ job[w].kind = "repair"
    /\ IF StillMissing(w) THEN Upsert(r, job[w].version, aggregate[r].deleted)
       ELSE UNCHANGED <<task, nextId>>
    /\ Become(w, Idle)
    /\ UNCHANGED <<aggregate, applied>>

-----------------------------------------------------------------------------
(* Time.                                                                   *)

LeaseExpires(r) ==
    /\ task[r].live
    /\ task' = [task EXCEPT ![r].live = FALSE]
    /\ UNCHANGED <<nextId, aggregate, applied, job>>

BecomesDue(r) ==
    /\ Exists(r)
    /\ ~task[r].due
    /\ task' = [task EXCEPT ![r].due = TRUE]
    /\ UNCHANGED <<nextId, aggregate, applied, job>>

Command(r) == Enqueue(r) \/ Requeue(r) \/ EditProvider(r) \/ DeleteZone(r) \/ Delete(r)

Finish(w) == \/ Complete(w)
             \/ FinishRemoval(w)
             \/ StoreFailure(w)
             \/ Fail(w, TRUE)
             \/ Fail(w, FALSE)
             \/ KeepSettled(w)
             \/ GiveWay(w)
             \/ \E a \in Resources : \E v \in 1 .. task[a].version : Park(w, a, v)

Maintain(w) == \/ RecoverExpired(w)
               \/ Repair(w)
               \/ ResumeStaleWaiters(w)
               \/ \E r \in Resources : ScanExpired(w, r) \/ ScanMissing(w, r)

Next == \/ \E r \in Resources : Command(r) \/ LeaseExpires(r) \/ BecomesDue(r)
        \/ \E w \in Workers :
              \/ Finish(w)
              \/ Maintain(w)
              \/ Abandon(w)
              \/ Renew(w)
              \/ \E r \in Resources : Claim(w, r) \/ ClaimInspection(w, r)

Spec == Init /\ [][Next]_vars

(* Fairness.  Time passes; an attempt ends (its polling and HTTP deadlines *)
(* are bounded); a loop returns to its maintenance every 15 seconds and to *)
(* its claims after that, oldest due marker first, so what it finds        *)
(* selectable again and again it does once.  Commands owe nothing.         *)
AttemptsEnd == \A w \in Workers : WF_vars(Finish(w) \/ Abandon(w))

ClaimsHappen == /\ \A r \in Resources : WF_vars(BecomesDue(r))
                /\ \A w \in Workers, r \in Resources :
                      Serves(w, r) => SF_vars(Claim(w, r))

RecoveryHappens == /\ \A r \in Resources : WF_vars(LeaseExpires(r))
                   /\ \A w \in Workers :
                         /\ SF_vars(\E r \in Resources : ScanExpired(w, r))
                         /\ SF_vars(RecoverExpired(w))

RepairHappens == \A w \in Workers :
                    /\ SF_vars(\E r \in Resources : ScanMissing(w, r))
                    /\ SF_vars(Repair(w))
                    /\ SF_vars(ResumeStaleWaiters(w))

ClaimSpec == Spec /\ AttemptsEnd /\ ClaimsHappen
RecoverySpec == Spec /\ AttemptsEnd /\ RecoveryHappens
RepairSpec == Spec /\ AttemptsEnd /\ RepairHappens

-----------------------------------------------------------------------------
(* Safety.                                                                 *)

(* The CHECK constraints of sys_sync_task, and the two states the claim     *)
(* query excludes but no constraint does: a row never waits and runs at    *)
(* once, and a waiting row is not settled.  A statement that broke one     *)
(* would abort its transaction, or strand the row.                         *)
RowIsSound(row) ==
    row.id # 0 =>
       /\ row.version > 0 /\ row.processed <= row.version
       /\ row.ok => row.done
       /\ row.done => row.processed = row.version
       /\ (row.waitTask = 0) = (row.waitVersion = 0)
       /\ row.live => row.owner # NoOwner
       /\ row.waitTask # 0 => row.owner = NoOwner /\ ~row.done

RowsAreSound == \A r \in Resources : RowIsSound(task[r])

(* A marker is never behind or ahead of its aggregate: upsert_marker and   *)
(* remove_marker run in the transaction that moves the version column, so  *)
(* the claim query's version comparison never hides queued work.           *)
MarkerMatchesAggregate ==
    \A r \in Resources : Exists(r) => task[r].version = aggregate[r].version

(* A result the lease fence accepts is a result for the aggregate as it is *)
(* now: no attempt that lost a race with an edit, a deletion or a recovery *)
(* passes it, although none of these transactions looks at the attempt.    *)
FenceImpliesCurrent ==
    \A w \in Workers : Holds(w) =>
       LET r == job[w].resource IN
       /\ aggregate[r].version = job[w].version
       /\ aggregate[r].deleted => job[w].removal

(* A task shown as succeeded has its aggregate's current version stored.   *)
OkMeansApplied ==
    \A r \in Resources :
       Exists(r) /\ task[r].done /\ task[r].ok => applied[r] = aggregate[r].version

(* Only results for the version wanted at that moment are stored, in this  *)
(* and in every later step: the runtime implements LatestWins.             *)
Latest == INSTANCE LatestWins WITH
              RemovalIsWork <- {r \in Resources : TypeOf[r] = "dns_zone"},
              wanted <- [r \in Resources |-> aggregate[r].version],
              stored <- applied,
              open <- [r \in Resources |-> ~aggregate[r].deleted]

ImplementsLatestWins == Latest!Spec

(* Action properties.                                                      *)

(* A repair creates a missing marker; it never resets one that appeared    *)
(* between its scan and its transaction.                                   *)
RepairOnlyCreates ==
    [][\A w \in Workers :
          job[w].kind = "repair" /\ job'[w].kind = "idle" =>
             \A r \in Resources :
                Exists(r) /\ task[r].version = aggregate[r].version => task'[r] = task[r]]_vars

(* An attempt that was superseded, removed or recovered stays without its  *)
(* lease for as long as it runs.                                           *)
LostLeaseStaysLost ==
    [][\A w \in Workers : Running(w) /\ ~Holds(w) /\ job'[w] = job[w] => ~Holds(w)']_vars

(* Liveness.                                                               *)

Queued(r) == /\ Exists(r)
             /\ ~task[r].done
             /\ task[r].owner = NoOwner
             /\ task[r].waitTask = 0

(* Queued work is picked up: no row is left in a state that neither the    *)
(* claim query nor the loop's maintenance selects.                         *)
QueuedIsClaimed == \A r \in Resources : Queued(r) ~> ~Queued(r)

(* Every lease ends: a crashed or stalled attempt gives its row back.      *)
LeaseEnds ==
    \A r \in Resources : (task[r].owner # NoOwner) ~> (task[r].owner = NoOwner)

(* A waiter whose awaited version is processed or whose awaited task is    *)
(* gone resumes, also when it parked after that result was committed.      *)
StaleWaiterResumes ==
    \A r \in Resources : StaleWaiter(task, r) ~> ~StaleWaiter(task, r)

(* An aggregate that lost its marker gets one again.                       *)
MissingMarkerIsRepaired ==
    \A r \in Resources : MarkerMissing(r) ~> (~MarkerMissing(r) \/ nextId > MaxTasks)
=============================================================================
