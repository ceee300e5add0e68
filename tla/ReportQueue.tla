---------------------------- MODULE ReportQueue -----------------------------
(***************************************************************************)
(* Node reports: a connection appends a report to the durable queue, a     *)
(* claiming Worker applies it to the database and answers the connection   *)
(* (service/features/node_channel/report_queue.h, report_persistence.h).   *)
(* The queue delivers a report again after a crash or a stall; the ledger  *)
(* of receipts, written with the effects, keeps it from counting twice.    *)
(* The ledger is cleaned while Workers that lost a claim may still run:    *)
(* the row lock of the node orders them.                                   *)
(*                                                                         *)
(* A report is named by its entry id.  All reports are of one node, so     *)
(* there is one row lock.  Each action is one script, one statement or one *)
(* commit; job[w] is what the loop knows between two of them.              *)
(***************************************************************************)
EXTENDS ReliableStream

CONSTANTS EntrySize,     \* bytes accounted to a queued report
          CleanupSize,   \* bytes accounted to a pending receipt cleanup
          FailedSize,    \* bytes accounted to an archived report
          MaxLosses      \* bound: times Redis loses its data

ASSUME SizeAssumption == /\ EntrySize \in Nat /\ CleanupSize \in Nat /\ FailedSize \in Nat
                         /\ CleanupSize <= EntrySize
                         /\ MaxLosses \in Nat

VARIABLES q,          \* the report stream
          positions,  \* HASH report id -> entry: reports that are queued
          cleanup,    \* ZSET and HASH of completed reports whose receipt stays
          answer,     \* report-receipt keys: what the connection is told
          receipts,   \* table of report receipts, the ledger
          applied,    \* how often the effects of a report were committed
          malformed,  \* queued payloads that do not decode
          lock,       \* the transaction that holds the node's row lock
          losses,     \* data losses so far
          job         \* what each loop is doing

vars == <<q, positions, cleanup, answer, receipts, applied, malformed, lock, losses, job>>

Kinds == {"idle",
          "claimed", "locked", "owned", "applied", "rejected", "retry",  \* a report
          "sweep", "sweepLocked", "sweepDead", "swept",                  \* a cleanup hint
          "orphan", "orphanLocked", "orphanDead"}                        \* a receipt

Job == [kind : Kinds, id : 0 .. MaxAppends]

Idle == [kind |-> "idle", id |-> 0]

TypeOK == /\ q \in Queue
          /\ positions \subseteq Ids /\ cleanup \subseteq Ids /\ receipts \subseteq Ids
          /\ malformed \subseteq Ids
          /\ answer \in [Ids -> {"none", "ok", "failed"}]
          /\ applied \in [Ids -> Nat]
          /\ lock \in Workers \cup {NoOne}
          /\ losses \in 0 .. MaxLosses
          /\ job \in [Workers -> Job]

Init == /\ q = EmptyQueue
        /\ positions = {} /\ cleanup = {} /\ receipts = {} /\ malformed = {}
        /\ answer = [i \in Ids |-> "none"]
        /\ applied = [i \in Ids |-> 0]
        /\ lock = NoOne
        /\ losses = 0
        /\ job = [w \in Workers |-> Idle]

At(w, kind) == job[w].kind = kind

Go(w, kind) == job' = [job EXCEPT ![w].kind = kind]

Take(w, kind, id) == job' = [job EXCEPT ![w] = [kind |-> kind, id |-> id]]

Rest(w) == job' = [job EXCEPT ![w] = Idle]

Lock(w) == lock = NoOne /\ lock' = w

Unlock(w) == lock' = IF lock = w THEN NoOne ELSE lock

-----------------------------------------------------------------------------
(* The connection.                                                         *)

Enqueue(bad) ==
    /\ q.last < MaxAppends
    /\ Admit(q, Cardinality(q.stream) + Cardinality(cleanup), EntrySize)
    /\ q' = AddEntry(q, EntrySize)
    /\ positions' = positions \cup {q.last + 1}
    /\ malformed' = IF bad THEN malformed \cup {q.last + 1} ELSE malformed
    /\ UNCHANGED <<cleanup, answer, receipts, applied, lock, losses, job>>

-----------------------------------------------------------------------------
(* claim_next tries a due retry, an abandoned report and a new one in three *)
(* calls; what each finds may have appeared since the call before it.      *)

ClaimedBy(w, id) ==
    /\ At(w, "idle")
    /\ IF q'.owner[id] = w THEN Take(w, "claimed", id) ELSE UNCHANGED job
    /\ UNCHANGED <<positions, cleanup, answer, receipts, applied, malformed, lock, losses>>

TakeDue(w, id) == id \in q.due /\ q' = ClaimDue(q, id, w) /\ ClaimedBy(w, id)

TakeAbandoned(w, id) == CanReclaim(q, id) /\ q' = Reclaim(q, id, w) /\ ClaimedBy(w, id)

TakeNew(w) == CanRead(q) /\ q' = ReadNext(q, w) /\ ClaimedBy(w, q.read + 1)

-----------------------------------------------------------------------------
(* persist_report: the node's row lock, then the ownership check, then the *)
(* ledger, then the effects.                                               *)

LockNode(w) ==
    /\ At(w, "claimed")
    /\ job[w].id \notin malformed
    /\ Lock(w)
    /\ Go(w, "locked")
    /\ UNCHANGED <<q, positions, cleanup, answer, receipts, applied, malformed, losses>>

(* Broken on purpose: the claim is trusted.                                *)
OwnsUnchecked(w) == TRUE

Owns(w) == Owned(q, job[w].id, w) /\ job[w].id \in q.stream

(* owns: the fence also makes the claim fresh.                             *)
CheckOwner(w) ==
    /\ At(w, "locked")
    /\ IF Owns(w)
       THEN q' = Claimed(q, job[w].id, w) /\ Go(w, "owned") /\ UNCHANGED lock
       ELSE UNCHANGED q /\ Rest(w) /\ Unlock(w)
    /\ UNCHANGED <<positions, cleanup, answer, receipts, applied, malformed, losses>>

(* The commit: nothing new when the ledger has the report.                 *)
Effects(w) ==
    /\ receipts' = receipts \cup {job[w].id}
    /\ applied' = IF job[w].id \in receipts THEN applied
                  ELSE [applied EXCEPT ![job[w].id] = @ + 1]
    /\ Unlock(w)
    /\ UNCHANGED <<q, positions, cleanup, answer, malformed, losses>>

Commit(w) == At(w, "owned") /\ Effects(w) /\ Go(w, "applied")

(* The commit took place but its answer was lost.                          *)
CommitUnseen(w) == At(w, "owned") /\ Effects(w) /\ Go(w, "retry")

(* Broken on purpose: the credentials are checked before the ledger.       *)
RejectBeforeLedger(w) ==
    /\ At(w, "claimed") \/ At(w, "owned")
    /\ Go(w, "rejected")
    /\ Unlock(w)
    /\ UNCHANGED <<q, positions, cleanup, answer, receipts, applied, malformed, losses>>

(* Stale credentials or an outdated revision: rolled back for good.        *)
Reject(w) ==
    /\ \/ At(w, "claimed") /\ job[w].id \in malformed
       \/ At(w, "owned") /\ job[w].id \notin receipts
    /\ Go(w, "rejected")
    /\ Unlock(w)
    /\ UNCHANGED <<q, positions, cleanup, answer, receipts, applied, malformed, losses>>

(* A database failure, or the follow-up of a committed report failed.      *)
Fail(w) ==
    /\ \/ At(w, "claimed") /\ job[w].id \notin malformed
       \/ At(w, "locked") \/ At(w, "owned") \/ At(w, "applied")
    /\ Go(w, "retry")
    /\ Unlock(w)
    /\ UNCHANGED <<q, positions, cleanup, answer, receipts, applied, malformed, losses>>

-----------------------------------------------------------------------------
(* complete and retry: scripts fenced by the ownership of the entry.       *)

(* A confirmed report leaves a cleanup hint in place of its entry.         *)
Confirm(w) ==
    LET id == job[w].id IN
    /\ At(w, "applied")
    /\ IF Owns(w)
       THEN /\ q' = Remove(q, id, EntrySize - CleanupSize)
            /\ cleanup' = cleanup \cup {id}
            /\ answer' = [answer EXCEPT ![id] = "ok"]
            /\ positions' = positions \ {id}
       ELSE UNCHANGED <<q, cleanup, answer, positions>>
    /\ Rest(w)
    /\ UNCHANGED <<receipts, applied, malformed, lock, losses>>

(* A rejected report moves to the failure stream; a full one retains it.   *)
Refuse(w) ==
    LET id == job[w].id IN
    /\ At(w, "rejected")
    /\ CASE Owns(w) /\ CanArchive(q, FailedSize) ->
              /\ q' = Remove(Archive(q, id, FailedSize), id, EntrySize)
              /\ answer' = [answer EXCEPT ![id] = "failed"]
              /\ positions' = positions \ {id}
              /\ Rest(w)
         [] Owns(w) /\ ~CanArchive(q, FailedSize) ->
              Go(w, "retry") /\ UNCHANGED <<q, answer, positions>>
         [] OTHER -> Rest(w) /\ UNCHANGED <<q, answer, positions>>
    /\ UNCHANGED <<cleanup, receipts, applied, malformed, lock, losses>>

RetryLater(w) ==
    /\ At(w, "retry")
    /\ q' = IF Owns(w) THEN Retry(q, job[w].id, w) ELSE q
    /\ Rest(w)
    /\ UNCHANGED <<positions, cleanup, answer, receipts, applied, malformed, lock, losses>>

-----------------------------------------------------------------------------
(* Ledger cleanup: by the hint of a completed report, and by a scan of the *)
(* ledger for receipts whose hint Redis lost.                              *)

PickHint(w, id) ==
    /\ At(w, "idle")
    /\ id \in cleanup
    /\ Take(w, "sweep", id)
    /\ UNCHANGED <<q, positions, cleanup, answer, receipts, applied, malformed, lock, losses>>

PickReceipt(w, id) ==
    /\ At(w, "idle")
    /\ id \in receipts
    /\ Take(w, "orphan", id)
    /\ UNCHANGED <<q, positions, cleanup, answer, receipts, applied, malformed, lock, losses>>

LockForCleanup(w) ==
    /\ Lock(w)
    /\ \/ At(w, "sweep") /\ Go(w, "sweepLocked")
       \/ At(w, "orphan") /\ Go(w, "orphanLocked")
    /\ UNCHANGED <<q, positions, cleanup, answer, receipts, applied, malformed, losses>>

(* The report is still queued (an orphan's entry is found by its position).*)
IsLive(kind, id) == id \in q.stream /\ (kind = "orphanLocked" => id \in positions)

CheckLive(w) ==
    /\ job[w].kind \in {"sweepLocked", "orphanLocked"}
    /\ IF IsLive(job[w].kind, job[w].id) THEN Rest(w) /\ Unlock(w)
       ELSE Go(w, IF At(w, "sweepLocked") THEN "sweepDead" ELSE "orphanDead") /\ UNCHANGED lock
    /\ UNCHANGED <<q, positions, cleanup, answer, receipts, applied, malformed, losses>>

DeleteReceipt(w) ==
    /\ job[w].kind \in {"sweepDead", "orphanDead"}
    /\ receipts' = receipts \ {job[w].id}
    /\ Unlock(w)
    /\ IF At(w, "sweepDead") THEN Go(w, "swept") ELSE Rest(w)
    /\ UNCHANGED <<q, positions, cleanup, answer, applied, malformed, losses>>

(* Broken on purpose: the hint's bytes are released by every sweep.        *)
FinishSweepAlways(w) ==
    /\ At(w, "swept")
    /\ q' = ReleaseBytes(q, CleanupSize)
    /\ cleanup' = cleanup \ {job[w].id}
    /\ Rest(w)
    /\ UNCHANGED <<positions, answer, receipts, applied, malformed, lock, losses>>

(* The hint and its bytes go, once, after the receipt is gone.             *)
FinishSweep(w) ==
    LET id == job[w].id IN
    /\ At(w, "swept")
    /\ IF id \notin q.stream /\ id \in cleanup
       THEN q' = ReleaseBytes(q, CleanupSize) /\ cleanup' = cleanup \ {id}
       ELSE UNCHANGED <<q, cleanup>>
    /\ Rest(w)
    /\ UNCHANGED <<positions, answer, receipts, applied, malformed, lock, losses>>

-----------------------------------------------------------------------------
(* Consumer names, failures and time.                                      *)

(* remove_empty for its own name, remove_idle for any other.               *)
CleanNames(w, c) ==
    /\ At(w, "idle")
    /\ NameIsEmpty(q, c)
    /\ q' = RemoveName(q, c)
    /\ UNCHANGED <<positions, cleanup, answer, receipts, applied, malformed, lock, losses, job>>

(* A failed call ends the step: the transaction rolls back, the claim      *)
(* stays.                                                                  *)
Abandon(w) ==
    /\ ~At(w, "idle")
    /\ Rest(w)
    /\ Unlock(w)
    /\ UNCHANGED <<q, positions, cleanup, answer, receipts, applied, malformed, losses>>

(* The process stops and starts again under a new consumer name.           *)
Crash(w) ==
    /\ Rest(w)
    /\ Unlock(w)
    /\ q' = Disown(q, w)
    /\ UNCHANGED <<positions, cleanup, answer, receipts, applied, malformed, losses>>

LoseRedis ==
    /\ losses < MaxLosses
    /\ losses' = losses + 1
    /\ q' = LostQueue(q)
    /\ positions' = {} /\ cleanup' = {}
    /\ answer' = [i \in Ids |-> "none"]
    /\ UNCHANGED <<receipts, applied, malformed, lock, job>>

GoIdle(id) ==
    /\ q.owner[id] # NoOne /\ id \notin q.idle
    /\ q' = GoesIdle(q, id)
    /\ UNCHANGED <<positions, cleanup, answer, receipts, applied, malformed, lock, losses, job>>

ComeDue(id) ==
    /\ id \in q.later
    /\ q' = ComesDue(q, id)
    /\ UNCHANGED <<positions, cleanup, answer, receipts, applied, malformed, lock, losses, job>>

Claim(w) == TakeNew(w) \/ \E id \in Ids : TakeDue(w, id) \/ TakeAbandoned(w, id)

Persist(w) == LockNode(w) \/ CheckOwner(w) \/ Commit(w) \/ CommitUnseen(w) \/ Reject(w) \/ Fail(w)

Settle(w) == Confirm(w) \/ Refuse(w) \/ RetryLater(w)

Pick(w) == \E id \in Ids : PickHint(w, id) \/ PickReceipt(w, id)

Sweep(w) == LockForCleanup(w) \/ CheckLive(w) \/ DeleteReceipt(w) \/ FinishSweep(w)

Time(id) == GoIdle(id) \/ ComeDue(id)

Next == \/ \E bad \in BOOLEAN : Enqueue(bad)
        \/ \E w \in Workers : Claim(w) \/ Persist(w) \/ Settle(w) \/ Pick(w) \/ Sweep(w)
                              \/ Abandon(w) \/ Crash(w)
        \/ \E w \in Workers, c \in Consumers : CleanNames(w, c)
        \/ LoseRedis
        \/ \E id \in Ids : Time(id)

Spec == Init /\ [][Next]_vars

(* Fairness.  A step of a loop ends: its Redis and database calls have     *)
(* deadlines, and the row lock is handed on.  Time passes.  A loop comes   *)
(* back to claiming and sweeping (it waits 15 seconds at most), the idle   *)
(* report and the ledger scan's cursor reach every entry, and failures do  *)
(* not strike every try.  Connections, names and losses owe nothing.       *)
StepsEnd == \A w \in Workers : WF_vars(Persist(w) \/ Settle(w) \/ Sweep(w) \/ Abandon(w))

ReclaimHappens == \A id \in Ids : /\ WF_vars(GoIdle(id))
                                 /\ \A w \in Workers : SF_vars(TakeAbandoned(w, id))

SweepHappens == \A id \in Ids, w \in Workers :
                   /\ SF_vars(PickReceipt(w, id))
                   /\ SF_vars(job[w].id = id /\ LockForCleanup(w))
                   /\ SF_vars(job[w].id = id /\ CheckLive(w))
                   /\ SF_vars(job[w].id = id /\ DeleteReceipt(w))

ReclaimSpec == Spec /\ StepsEnd /\ ReclaimHappens
SweepSpec == Spec /\ StepsEnd /\ SweepHappens

-----------------------------------------------------------------------------
(* Safety.                                                                 *)

(* The effects of a report are committed at most once, however often it is *)
(* delivered, by whatever former owners, and although its receipt is       *)
(* deleted while such owners may still be running.                         *)
AppliedOnce == \A id \in Ids : applied[id] <= 1

(* What the connection is told is what happened: success was committed,    *)
(* failure left no effect behind.                                          *)
AnswerIsTrue == \A id \in Ids : /\ answer[id] = "ok" => applied[id] = 1
                                /\ answer[id] = "failed" => applied[id] = 0

(* The byte counter is what the queued reports and cleanup hints account   *)
(* for: the budget neither leaks (and one day refuses every report) nor    *)
(* runs negative.                                                          *)
BytesMatch ==
    /\ q.bytes = EntrySize * Cardinality(q.stream) + CleanupSize * Cardinality(cleanup)
    /\ q.failedBytes = FailedSize * Cardinality(q.failed)

(* Retry state and positions belong to queued reports only, and a report   *)
(* that was delivered is in the pending list until it is gone: nothing     *)
(* leaks, and nothing is delivered that no one can reclaim.                *)
NothingStranded ==
    /\ q.later \cup q.due \cup q.tried \subseteq q.stream
    /\ positions = q.stream
    /\ \A id \in Ids : (q.owner[id] # NoOne) = (id \in q.stream /\ id <= q.read)

(* A receipt covers every report that may still be applied: an applied     *)
(* report that is queued has its receipt.                                  *)
LedgerCovers == \A id \in q.stream : applied[id] = 1 => id \in receipts

(* Liveness.                                                               *)

WorkedOn(id) == \E w \in Workers :
    job[w].id = id /\ job[w].kind \in {"claimed", "locked", "owned", "applied", "rejected", "retry"}

Waiting(id) == id \in q.stream /\ id <= q.read /\ ~WorkedOn(id)

(* A delivered report whose claimant stopped, failed or backed off is      *)
(* taken up again: no crash, lost name or cancelled retry strands it.      *)
AbandonedIsTakenUp == \A id \in Ids : Waiting(id) ~> ~Waiting(id)

(* The receipt of a report that is no longer queued is deleted, also when  *)
(* Redis lost the hint: the ledger does not grow for ever.                 *)
LedgerDrains == \A id \in Ids : (id \in receipts /\ id \notin q.stream) ~> (id \notin receipts)
=============================================================================
