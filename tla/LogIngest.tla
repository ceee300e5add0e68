----------------------------- MODULE LogIngest ------------------------------
(***************************************************************************)
(* Log deliveries: a connection appends a batch of events to the durable   *)
(* queue and acknowledges it to the node; a claiming Worker inserts the    *)
(* events into the database (service/features/log_ingest/enqueue.h,        *)
(* queue.h, worker.h, ingest.h).  A delivery reaches the database more     *)
(* than once: the node sends it again when the acknowledgement was lost,   *)
(* the queue delivers it again after a crash, a stall or a commit whose    *)
(* answer was lost, an operator replays an archived one.                   *)
(*                                                                         *)
(* The primary key of a log row contains the time of the event, and the    *)
(* time of an event ahead of the service's clock is replaced by that of    *)
(* the queue entry: the key alone does not recognise the event again.  The *)
(* lookup under the row lock of the node does.                             *)
(*                                                                         *)
(* All deliveries are of one node, so there is one row lock.               *)
(***************************************************************************)
EXTENDS ReliableStream

CONSTANTS Events,      \* identities of log events
          Ahead,       \* events the node stamped ahead of the service's clock
          EntrySize,   \* bytes accounted to a queued delivery
          FailedSize   \* bytes accounted to an archived delivery

ASSUME EventsAssumption == Ahead \subseteq Events
ASSUME SizeAssumption == EntrySize \in Nat /\ FailedSize \in Nat

VARIABLES q,        \* the delivery stream
          payload,  \* the events of every delivery ever appended
          rows,     \* keys of the stored log rows
          lock,     \* the transaction that holds the node's row lock
          job       \* what each loop is doing

vars == <<q, payload, rows, lock, job>>

Kinds == {"idle", "claimed", "locked", "looked", "stored", "rejected", "retry"}

Job == [kind : Kinds, id : 0 .. MaxAppends, fresh : SUBSET Events]

Idle == [kind |-> "idle", id |-> 0, fresh |-> {}]

(* A row key: the event, and the entry whose time it got (0: its own).     *)
Keys == Events \X (0 .. MaxAppends)

Key(e, id) == IF e \in Ahead THEN <<e, id>> ELSE <<e, 0>>

TypeOK == /\ q \in Queue
          /\ payload \in [Ids -> SUBSET Events]
          /\ rows \subseteq Keys
          /\ lock \in Workers \cup {NoOne}
          /\ job \in [Workers -> Job]

Init == /\ q = EmptyQueue
        /\ payload = [i \in Ids |-> {}]
        /\ rows = {}
        /\ lock = NoOne
        /\ job = [w \in Workers |-> Idle]

At(w, kind) == job[w].kind = kind

Go(w, kind) == job' = [job EXCEPT ![w].kind = kind]

Rest(w) == job' = [job EXCEPT ![w] = Idle]

Unlock(w) == lock' = IF lock = w THEN NoOne ELSE lock

IsStored(e) == \E i \in 0 .. MaxAppends : <<e, i>> \in rows

-----------------------------------------------------------------------------
(* The connection: the node is told "acknowledged" once this has happened, *)
(* and sends the delivery again when it does not hear so.                  *)

Push(events) ==
    /\ q.last < MaxAppends
    /\ Admit(q, Cardinality(q.stream), EntrySize)
    /\ q' = AddEntry(q, EntrySize)
    /\ payload' = [payload EXCEPT ![q.last + 1] = events]
    /\ UNCHANGED <<rows, lock, job>>

(* Broken on purpose: the archived bytes are never released.               *)
ReplayUncounted(id) ==
    /\ q.last < MaxAppends
    /\ id \in q.failed
    /\ Admit(q, Cardinality(q.stream), EntrySize)
    /\ q' = [AddEntry(q, EntrySize) EXCEPT !.failed = @ \ {id}]
    /\ payload' = [payload EXCEPT ![q.last + 1] = payload[id]]
    /\ UNCHANGED <<rows, lock, job>>

(* replay_failed: an archived delivery becomes a new entry.                *)
ReplayFailed(id) ==
    /\ q.last < MaxAppends
    /\ id \in q.failed
    /\ Admit(q, Cardinality(q.stream), EntrySize)
    /\ q' = Unarchive(AddEntry(q, EntrySize), id, FailedSize)
    /\ payload' = [payload EXCEPT ![q.last + 1] = payload[id]]
    /\ UNCHANGED <<rows, lock, job>>

-----------------------------------------------------------------------------
(* run_worker reclaims every five seconds, then looks for a due retry and  *)
(* for a new entry, in separate calls.                                     *)

ClaimedBy(w, id) ==
    /\ At(w, "idle")
    /\ job' = IF q'.owner[id] = w
              THEN [job EXCEPT ![w] = [kind |-> "claimed", id |-> id, fresh |-> {}]] ELSE job
    /\ UNCHANGED <<payload, rows, lock>>

TakeDue(w, id) == id \in q.due /\ q' = ClaimDue(q, id, w) /\ ClaimedBy(w, id)

TakeAbandoned(w, id) == CanReclaim(q, id) /\ q' = Reclaim(q, id, w) /\ ClaimedBy(w, id)

TakeNew(w) == CanRead(q) /\ q' = ReadNext(q, w) /\ ClaimedBy(w, q.read + 1)

-----------------------------------------------------------------------------
(* insert_envelope: the row lock of a registered node, the lookup of the   *)
(* stored events, the insert and its commit.                               *)

(* Broken on purpose: the node is read without a lock.                     *)
LockOwnerUnlocked(w) ==
    /\ At(w, "claimed")
    /\ Go(w, "locked")
    /\ UNCHANGED <<q, payload, rows, lock>>

LockOwner(w) ==
    /\ At(w, "claimed")
    /\ lock = NoOne /\ lock' = w
    /\ Go(w, "locked")
    /\ UNCHANGED <<q, payload, rows>>

(* exclude_stored_events                                                   *)
LookUp(w) ==
    /\ At(w, "locked")
    /\ job' = [job EXCEPT ![w].kind = "looked",
                          ![w].fresh = {e \in payload[job[w].id] : ~IsStored(e)}]
    /\ UNCHANGED <<q, payload, rows, lock>>

(* A key that exists is skipped (do_nothing).                              *)
Inserted(w) ==
    /\ rows' = rows \cup {Key(e, job[w].id) : e \in job[w].fresh}
    /\ Unlock(w)
    /\ UNCHANGED <<q, payload>>

Commit(w) == At(w, "looked") /\ Inserted(w) /\ Go(w, "stored")

(* The commit took place but its answer was lost.                          *)
CommitUnseen(w) == At(w, "looked") /\ Inserted(w) /\ Go(w, "retry")

(* The envelope, its node, its websites or its values are not acceptable.  *)
Reject(w) ==
    /\ job[w].kind \in {"claimed", "locked", "looked"}
    /\ Go(w, "rejected")
    /\ Unlock(w)
    /\ UNCHANGED <<q, payload, rows>>

(* Broken on purpose: a delivery that failed is finished.                  *)
FailFinishes(w) ==
    /\ job[w].kind \in {"claimed", "locked", "looked"}
    /\ Go(w, "stored")
    /\ Unlock(w)
    /\ UNCHANGED <<q, payload, rows>>

(* Any other failure of the transaction.                                   *)
Fail(w) ==
    /\ job[w].kind \in {"claimed", "locked", "looked"}
    /\ Go(w, "retry")
    /\ Unlock(w)
    /\ UNCHANGED <<q, payload, rows>>

-----------------------------------------------------------------------------
(* The end of a claim: scripts fenced by the ownership of the entry.       *)

Owns(w) == Owned(q, job[w].id, w) /\ job[w].id \in q.stream

(* A former owner is refused (an error) or finds the entry gone.           *)
Finish(w) ==
    /\ At(w, "stored")
    /\ q' = IF Owns(w) THEN Remove(q, job[w].id, EntrySize) ELSE q
    /\ Rest(w)
    /\ UNCHANGED <<payload, rows, lock>>

(* fail: archived, or retained for a retry when the archive is full.       *)
Refuse(w) ==
    LET id == job[w].id IN
    /\ At(w, "rejected")
    /\ CASE Owns(w) /\ CanArchive(q, FailedSize) ->
              q' = Remove(Archive(q, id, FailedSize), id, EntrySize) /\ Rest(w)
         [] Owns(w) /\ ~CanArchive(q, FailedSize) -> UNCHANGED q /\ Go(w, "retry")
         [] OTHER -> UNCHANGED q /\ Rest(w)
    /\ UNCHANGED <<payload, rows, lock>>

ScheduleRetry(w) ==
    /\ At(w, "retry")
    /\ q' = IF Owned(q, job[w].id, w) THEN Retry(q, job[w].id, w) ELSE q
    /\ Rest(w)
    /\ UNCHANGED <<payload, rows, lock>>

-----------------------------------------------------------------------------
(* Consumer names, failures and time, as in every reliable stream.         *)

CleanNames(w, c) ==
    /\ At(w, "idle")
    /\ NameIsEmpty(q, c)
    /\ q' = RemoveName(q, c)
    /\ UNCHANGED <<payload, rows, lock, job>>

(* A call of a script failed: the claim stays with this consumer.          *)
Abandon(w) ==
    /\ job[w].kind \in {"stored", "rejected", "retry"}
    /\ Rest(w)
    /\ UNCHANGED <<q, payload, rows, lock>>

Crash(w) ==
    /\ Rest(w)
    /\ Unlock(w)
    /\ q' = Disown(q, w)
    /\ UNCHANGED <<payload, rows>>

GoIdle(id) ==
    /\ q.owner[id] # NoOne /\ id \notin q.idle
    /\ q' = GoesIdle(q, id)
    /\ UNCHANGED <<payload, rows, lock, job>>

ComeDue(id) ==
    /\ id \in q.later
    /\ q' = ComesDue(q, id)
    /\ UNCHANGED <<payload, rows, lock, job>>

Claim(w) == TakeNew(w) \/ \E id \in Ids : TakeDue(w, id) \/ TakeAbandoned(w, id)

Insert(w) == LockOwner(w) \/ LookUp(w) \/ Commit(w) \/ CommitUnseen(w) \/ Reject(w) \/ Fail(w)

Settle(w) == Finish(w) \/ Refuse(w) \/ ScheduleRetry(w)

Next == \/ \E events \in SUBSET Events \ {{}} : Push(events)
        \/ \E id \in Ids : ReplayFailed(id) \/ GoIdle(id) \/ ComeDue(id)
        \/ \E w \in Workers : Claim(w) \/ Insert(w) \/ Settle(w) \/ Abandon(w) \/ Crash(w)
        \/ \E w \in Workers, c \in Consumers : CleanNames(w, c)

Spec == Init /\ [][Next]_vars

(* Fairness.  A step of a loop ends (its calls have deadlines), time       *)
(* passes, a loop comes back to claiming within seconds, and neither       *)
(* crashes nor failures of the database nor stalls longer than the five    *)
(* minutes after which a claim is taken over strike every try.             *)
StepsEnd == \A w \in Workers : WF_vars(Insert(w) \/ Settle(w) \/ Abandon(w))

Holds(w, id) == job[w].id = id /\ Owned(q, id, w)

DrainHappens ==
    \A id \in Ids :
       /\ WF_vars(GoIdle(id))
       /\ SF_vars(q.read + 1 = id /\ \E w \in Workers : TakeNew(w))
       /\ SF_vars(\E w \in Workers : TakeAbandoned(w, id))
       /\ SF_vars(\E w \in Workers : Holds(w, id) /\ LockOwner(w))
       /\ SF_vars(\E w \in Workers : Holds(w, id) /\ LookUp(w))
       /\ SF_vars(\E w \in Workers : Holds(w, id) /\ Commit(w))
       /\ SF_vars(\E w \in Workers : Holds(w, id) /\ Finish(w))

DrainSpec == Spec /\ StepsEnd /\ DrainHappens

-----------------------------------------------------------------------------
(* Properties.                                                             *)

(* An event is stored at most once, however often the node sends it, the   *)
(* queue delivers it and an operator replays it, by whatever loops at the  *)
(* same time, and whatever time its row got.                               *)
StoredOnce == \A e \in Events, i, j \in 0 .. MaxAppends :
                 <<e, i>> \in rows /\ <<e, j>> \in rows => i = j

(* No acknowledged event is lost: it is stored, or a delivery with it is   *)
(* still queued or archived for replay.                                    *)
AcceptedIsKept == \A id \in Ids : \A e \in payload[id] :
                     IsStored(e) \/ \E i \in q.stream \cup q.failed : e \in payload[i]

(* The byte counters are what the queued and the archived deliveries       *)
(* account for, also after replays: neither budget leaks.                  *)
BudgetsMatch == /\ q.bytes = EntrySize * Cardinality(q.stream)
                /\ q.failedBytes = FailedSize * Cardinality(q.failed)

(* Liveness: a queued delivery leaves the queue (stored or archived); no   *)
(* crash, backoff or lost name leaves one behind that nobody can claim.    *)
DeliveryEnds == \A id \in Ids : (id \in q.stream) ~> (id \notin q.stream)
=============================================================================
