------------------------- MODULE ReportQueueProofs --------------------------
(***************************************************************************)
(* Node reports are applied at most once, and answered truthfully, for     *)
(* every set of loops, every budget and every number of reports; and a     *)
(* cache operation that such reports completed was carried out, for every  *)
(* set of task workers and nodes.                                          *)
(***************************************************************************)
EXTENDS ReportQueue, CacheTasks, TLAPS

(* Kinds between lock_report_node and the end of the transaction.          *)
InTransaction == {"locked", "owned", "sweepLocked", "sweepDead", "orphanLocked", "orphanDead"}

(* Nothing is known of a report before it is appended.                     *)
NoFuture ==
    /\ q.read <= q.last
    /\ \A id \in Ids : id > q.last =>
          /\ id \notin q.stream /\ id \notin receipts /\ id \notin malformed
          /\ applied[id] = 0 /\ answer[id] = "none"
    /\ \A w \in Workers : job[w].id <= q.last

(* The pending list and the cleanup hints name appended entries only.      *)
ListsAreOld == \A id \in Ids : id > q.last => q.owner[id] = NoOne /\ id \notin cleanup

(* A loop that does something does it to a report.                         *)
JobsAreSet == \A w \in Workers : job[w].kind # "idle" => job[w].id \in Ids

(* A loop inside a transaction holds the row lock.                         *)
LocksAreHeld == \A w \in Workers : job[w].kind \in InTransaction => lock = w

(* The position of a report is there exactly while it is queued.           *)
PositionsAgree == positions = q.stream

(* Under the lock and after the ownership check the ledger is reliable,    *)
(* even when Redis has lost the entry since.                               *)
OwnedCovers ==
    \A w \in Workers : job[w].kind = "owned" /\ applied[job[w].id] = 1 => job[w].id \in receipts

(* What a cleanup has found gone stays gone.                               *)
DeadIsGone ==
    \A w \in Workers : job[w].kind \in {"sweepDead", "orphanDead"} => job[w].id \notin q.stream

(* A loop has passed the ownership check and may commit.                   *)
InHand(id) == \E v \in Workers : job[v].kind = "owned" /\ job[v].id = id

(* A payload that does not decode never gets as far as a transaction.      *)
MalformedUntouched ==
    \A id \in malformed : /\ applied[id] = 0
                          /\ \A v \in Workers : job[v].id = id => job[v].kind \notin {"locked", "owned", "applied"}

(* A receipt is written with the effects.                                  *)
ReceiptIsApplied == \A id \in receipts : applied[id] = 1

(* What is about to be confirmed was committed.                            *)
AppliedIsApplied == \A w \in Workers : job[w].kind = "applied" => applied[job[w].id] = 1

(* A refusal that still passes the fence has no effect behind it, and none *)
(* coming.                                                                 *)
RejectedIsNot ==
    \A w \in Workers : job[w].kind = "rejected" /\ q.owner[job[w].id] = w =>
       applied[job[w].id] = 0 /\ ~InHand(job[w].id)

(* A report answered with a failure is gone, and nobody is about to commit *)
(* it.                                                                     *)
FailedIsFinal ==
    \A id \in Ids : answer[id] = "failed" => id \notin q.stream /\ ~InHand(id)

(* The inductive invariant.                                                *)
Inv == /\ TypeOK /\ NoFuture /\ ListsAreOld /\ JobsAreSet /\ LocksAreHeld /\ PositionsAgree
       /\ LedgerCovers /\ OwnedCovers /\ DeadIsGone /\ MalformedUntouched
       /\ ReceiptIsApplied /\ AppliedIsApplied /\ RejectedIsNot /\ FailedIsFinal
       /\ AppliedOnce /\ AnswerIsTrue

-----------------------------------------------------------------------------
(* Steps that change neither the ledger nor the effects.                   *)

(* A step of one loop that takes no entry from another loop's hands into   *)
(* its own transaction, and leaves ledger, effects and answers alone,      *)
(* preserves Inv.                                                          *)
LEMMA JobFrame ==
    ASSUME Inv, TypeOK', ListsAreOld', NEW w \in Workers, NEW k \in Kinds, NEW i \in 0 .. MaxAppends,
           job' = [job EXCEPT ![w] = [kind |-> k, id |-> i]],
           UNCHANGED <<receipts, applied, answer, malformed, positions>>,
           q'.stream = q.stream, q'.last = q.last, q'.read <= q'.last,
           \A j \in Ids : \A v \in Workers \ {w} : q'.owner[j] = v => q.owner[j] = v,
           i <= q.last, k # "idle" => i \in Ids,
           k \in InTransaction => lock' = w,
           \A v \in Workers \ {w} : job[v].kind \in InTransaction => lock' = v,
           k = "owned" => i \in q.stream /\ q'.owner[i] = w,
           k \in {"sweepDead", "orphanDead"} => i \notin q.stream,
           k \in {"locked", "owned", "applied"} => i \notin malformed,
           k = "applied" => applied[i] = 1,
           k = "rejected" => /\ applied[i] = 0
                             /\ \A v \in Workers \ {w} : ~(job[v].kind = "owned" /\ job[v].id = i)
    PROVE  Inv'
<1>1. /\ job'[w].kind = k /\ job'[w].id = i
      /\ \A v \in Workers \ {w} : job'[v] = job[v]
  BY DEF Inv, TypeOK, Job
<1>2. NoFuture' BY <1>1 DEF Inv, NoFuture
<1>3. JobsAreSet' BY <1>1 DEF Inv, JobsAreSet
<1>4. LocksAreHeld' BY <1>1 DEF Inv, LocksAreHeld
<1>5. PositionsAgree' /\ LedgerCovers' /\ ReceiptIsApplied'
  BY DEF Inv, PositionsAgree, LedgerCovers, ReceiptIsApplied
<1>6. OwnedCovers' BY <1>1 DEF Inv, OwnedCovers, LedgerCovers
<1>7. DeadIsGone' BY <1>1 DEF Inv, DeadIsGone
<1>8. MalformedUntouched' BY <1>1 DEF Inv, MalformedUntouched
<1>9. AppliedIsApplied' BY <1>1 DEF Inv, AppliedIsApplied
<1>10. RejectedIsNot'
  <2> SUFFICES ASSUME NEW v \in Workers, job'[v].kind = "rejected", q'.owner[job'[v].id] = v,
                      NEW u \in Workers, job'[u].kind = "owned", job'[u].id = job'[v].id
               PROVE  FALSE
    <3>1. \A v \in Workers : job'[v].kind = "rejected" /\ q'.owner[job'[v].id] = v =>
             applied[job'[v].id] = 0
      BY <1>1 DEF Inv, RejectedIsNot, JobsAreSet
    <3> QED BY <3>1 DEF RejectedIsNot, InHand
  <2>1. CASE v = w BY <1>1, <2>1
  <2>2. CASE v # w /\ u = w BY <1>1, <2>2
  <2>3. CASE v # w /\ u # w BY <1>1, <2>3 DEF Inv, RejectedIsNot, InHand, JobsAreSet
  <2> QED BY <2>1, <2>2, <2>3
<1>11. FailedIsFinal' BY <1>1 DEF Inv, FailedIsFinal, InHand
<1>12. AppliedOnce' /\ AnswerIsTrue' BY DEF Inv, AppliedOnce, AnswerIsTrue
<1> QED BY <1>2, <1>3, <1>4, <1>5, <1>6, <1>7, <1>8, <1>9, <1>10, <1>11, <1>12 DEF Inv

(* A step that only touches the queue's retry state, bytes or names        *)
(* preserves Inv.                                                          *)
LEMMA QueueFrame ==
    ASSUME Inv, q' \in Queue,
           UNCHANGED <<positions, cleanup, answer, receipts, applied, malformed, lock, losses, job>>,
           q'.stream = q.stream, q'.last = q.last, q'.read = q.read, q'.owner = q.owner
    PROVE  Inv'
<1>1. TypeOK' BY DEF Inv, TypeOK
<1>2. NoFuture' /\ JobsAreSet' /\ LocksAreHeld' /\ PositionsAgree' /\ ListsAreOld'
  BY DEF Inv, NoFuture, JobsAreSet, LocksAreHeld, PositionsAgree, ListsAreOld
<1>3. LedgerCovers' /\ OwnedCovers' /\ DeadIsGone' /\ MalformedUntouched' /\ AppliedIsApplied'
  BY DEF Inv, LedgerCovers, OwnedCovers, DeadIsGone, MalformedUntouched, AppliedIsApplied
<1>4. RejectedIsNot' /\ FailedIsFinal' BY DEF Inv, RejectedIsNot, FailedIsFinal, InHand
<1>5. AppliedOnce' /\ AnswerIsTrue' /\ ReceiptIsApplied'
  BY DEF Inv, AppliedOnce, AnswerIsTrue, ReceiptIsApplied
<1> QED BY <1>1, <1>2, <1>3, <1>4, <1>5 DEF Inv

(* What a loop remembers after a step is a job.                            *)
LEMMA JobTypes ==
    ASSUME TypeOK, NEW w \in Workers
    PROVE  /\ job[w] \in Job /\ w \in Consumers /\ Idle \in Job
           /\ \A k \in Kinds : [kind |-> k, id |-> job[w].id] \in Job
           /\ \A k \in Kinds : [job EXCEPT ![w].kind = k] = [job EXCEPT ![w] = [kind |-> k, id |-> job[w].id]]
<1>1. job[w] \in Job BY DEF TypeOK
<1>2. w \in Consumers BY DEF Consumers
<1>3. Idle \in Job BY BudgetAssumption DEF Idle, Job, Kinds
<1>4. \A k \in Kinds : [kind |-> k, id |-> job[w].id] \in Job BY <1>1 DEF Job
<1>5. \A k \in Kinds : [job[w] EXCEPT !.kind = k] = [kind |-> k, id |-> job[w].id] BY <1>1 DEF Job
<1>6. \A k \in Kinds : [job EXCEPT ![w].kind = k] = [job EXCEPT ![w] = [kind |-> k, id |-> job[w].id]]
  BY <1>5
<1> QED BY <1>1, <1>2, <1>3, <1>4, <1>6

(* Ownership moves to an idle loop, which takes the report.                *)
LEMMA ClaimInv ==
    ASSUME Inv, NEW w \in Workers, NEW id \in Ids, ClaimedBy(w, id), q' \in Queue,
           q'.stream = q.stream, q'.last = q.last, q'.read <= q'.last, id <= q.last,
           q'.owner = [q.owner EXCEPT ![id] = w] \/ q'.owner = q.owner
    PROVE  Inv'
<1> USE DEF ClaimedBy, At
<1>1. TypeOK BY DEF Inv
<1>2. q.owner \in [Ids -> Consumers \cup {NoOne}] BY <1>1 DEF TypeOK, Queue
<1>3. \A j \in Ids : \A v \in Workers \ {w} : q'.owner[j] = v => q.owner[j] = v BY <1>2
<1>4. \A v \in Workers : job[v].kind \in InTransaction => lock' = v BY DEF Inv, LocksAreHeld
<1>8. ListsAreOld'
  <2>1. \A j \in Ids : j > q.last => j # id /\ q.owner[j] = NoOne /\ j \notin cleanup
    <3>1. q.last \in Nat /\ id \in Nat BY <1>1 DEF TypeOK, Queue, Ids
    <3> QED BY <3>1 DEF Inv, ListsAreOld, Ids
  <2>2. \A j \in Ids : j > q.last => q'.owner[j] = NoOne BY <1>2, <2>1
  <2> QED BY <2>1, <2>2 DEF ListsAreOld
<1>5. id \in 0 .. MaxAppends /\ "claimed" \in Kinds /\ "idle" \in Kinds
  BY BudgetAssumption DEF Ids, Kinds
<1>6. CASE q'.owner[id] = w
  <2>1. job' = [job EXCEPT ![w] = [kind |-> "claimed", id |-> id]] BY <1>6 DEF Take
  <2>2. TypeOK' BY <1>1, <1>5, <2>1 DEF TypeOK, Job
  <2>3. "claimed" \notin InTransaction BY DEF InTransaction
  <2> QED BY <1>3, <1>4, <1>5, <1>8, <2>1, <2>2, <2>3, JobFrame
<1>7. CASE q'.owner[id] # w
  <2>1. q'.owner = q.owner BY <1>2, <1>7
  <2>2. UNCHANGED job BY <1>7
  <2>3. TypeOK' BY <1>1, <2>2 DEF TypeOK
  <2>4. NoFuture' /\ JobsAreSet' /\ LocksAreHeld' /\ PositionsAgree'
    BY <2>2 DEF Inv, NoFuture, JobsAreSet, LocksAreHeld, PositionsAgree
  <2>5. LedgerCovers' /\ OwnedCovers' /\ DeadIsGone' /\ MalformedUntouched' /\ AppliedIsApplied'
    BY <2>2 DEF Inv, LedgerCovers, OwnedCovers, DeadIsGone, MalformedUntouched, AppliedIsApplied
  <2>6. RejectedIsNot' /\ FailedIsFinal' BY <2>1, <2>2 DEF Inv, RejectedIsNot, FailedIsFinal, InHand
  <2>7. AppliedOnce' /\ AnswerIsTrue' /\ ReceiptIsApplied'
    BY DEF Inv, AppliedOnce, AnswerIsTrue, ReceiptIsApplied
  <2> QED BY <1>8, <2>3, <2>4, <2>5, <2>6, <2>7 DEF Inv
<1> QED BY <1>6, <1>7

(* The loop goes on with the same report; its claim may become fresh.      *)
LEMMA GoInv ==
    ASSUME Inv, ListsAreOld', NEW w \in Workers, NEW k \in Kinds, job[w].kind # "idle",
           Go(w, k), q' \in Queue, lock' \in Workers \cup {NoOne},
           UNCHANGED <<positions, cleanup, answer, receipts, applied, malformed, losses>>,
           q'.stream = q.stream, q'.last = q.last, q'.read = q.read,
           \A j \in Ids : \A v \in Workers \ {w} : q'.owner[j] = v => q.owner[j] = v,
           k \in InTransaction => lock' = w,
           \A v \in Workers \ {w} : lock = v => lock' = v,
           k = "owned" => job[w].id \in q.stream /\ q'.owner[job[w].id] = w,
           k \in {"sweepDead", "orphanDead"} => job[w].id \notin q.stream,
           k \in {"locked", "owned", "applied"} => job[w].id \notin malformed,
           k = "applied" => applied[job[w].id] = 1,
           k = "rejected" => /\ applied[job[w].id] = 0
                             /\ \A v \in Workers \ {w} :
                                   ~(job[v].kind = "owned" /\ job[v].id = job[w].id)
    PROVE  Inv'
<1>1. TypeOK BY DEF Inv
<1>2. job' = [job EXCEPT ![w] = [kind |-> k, id |-> job[w].id]] BY <1>1, JobTypes DEF Go
<1>3. [kind |-> k, id |-> job[w].id] \in Job BY <1>1, JobTypes
<1>4. TypeOK' BY <1>1, <1>2, <1>3 DEF TypeOK
<1>5. job[w].id \in 0 .. MaxAppends BY <1>1 DEF TypeOK, Job
<1>6. job[w].id <= q.last /\ job[w].id \in Ids /\ q.read <= q.last
  BY DEF Inv, NoFuture, JobsAreSet
<1>7. \A v \in Workers \ {w} : job[v].kind \in InTransaction => lock' = v
  BY DEF Inv, LocksAreHeld
<1> QED BY <1>2, <1>4, <1>5, <1>6, <1>7, JobFrame

(* The loop is done; its lock, if it had it, is released.                  *)
LEMMA RestInv ==
    ASSUME Inv, ListsAreOld', NEW w \in Workers, Rest(w), q' \in Queue, cleanup' \in SUBSET Ids,
           lock' = lock \/ Unlock(w),
           UNCHANGED <<positions, answer, receipts, applied, malformed, losses>>,
           q'.stream = q.stream, q'.last = q.last, q'.read = q.read,
           \A j \in Ids : \A v \in Workers \ {w} : q'.owner[j] = v => q.owner[j] = v
    PROVE  Inv'
<1>1. TypeOK BY DEF Inv
<1>2. job' = [job EXCEPT ![w] = [kind |-> "idle", id |-> 0]] BY DEF Rest, Idle
<1>3. lock' \in Workers \cup {NoOne} BY <1>1 DEF TypeOK, Unlock
<1>4. TypeOK' BY <1>1, <1>3, JobTypes DEF TypeOK, Rest
<1>5. 0 \in 0 .. MaxAppends /\ 0 <= q.last /\ "idle" \in Kinds /\ "idle" \notin InTransaction
  BY <1>1, BudgetAssumption DEF TypeOK, Queue, Kinds, InTransaction
<1>6. \A v \in Workers \ {w} : job[v].kind \in InTransaction => lock' = v
  BY DEF Inv, LocksAreHeld, Unlock
<1>7. q.read <= q.last BY DEF Inv, NoFuture
<1> QED BY <1>2, <1>4, <1>5, <1>6, <1>7, JobFrame

-----------------------------------------------------------------------------
(* One step per action.                                                    *)

(* The empty system satisfies Inv.                                         *)
LEMMA InitInv == Init => Inv
<1> SUFFICES ASSUME Init PROVE Inv OBVIOUS
<1>1. Idle \in Job BY BudgetAssumption DEF Idle, Job, Kinds
<1>2. TypeOK BY <1>1, EmptyFacts, SizeAssumption DEF Init, TypeOK
<1>3. \A w \in Workers : job[w].kind = "idle" /\ job[w].id = 0 BY DEF Init, Idle
<1>4. NoFuture /\ JobsAreSet /\ LocksAreHeld /\ PositionsAgree
  BY <1>3, EmptyFacts DEF Init, NoFuture, JobsAreSet, LocksAreHeld, PositionsAgree, InTransaction
<1>7. ListsAreOld BY EmptyFacts DEF Init, ListsAreOld
<1>5. LedgerCovers /\ OwnedCovers /\ DeadIsGone /\ MalformedUntouched /\ AppliedIsApplied
  BY <1>3, EmptyFacts DEF Init, LedgerCovers, OwnedCovers, DeadIsGone, MalformedUntouched, AppliedIsApplied
<1>6. RejectedIsNot BY <1>3 DEF RejectedIsNot
<1>8. AppliedOnce /\ ReceiptIsApplied BY DEF Init, AppliedOnce, ReceiptIsApplied
<1>9. \A i \in Ids : answer[i] = "none" BY DEF Init
<1>10. FailedIsFinal /\ AnswerIsTrue BY <1>9 DEF FailedIsFinal, AnswerIsTrue
<1> QED BY <1>2, <1>4, <1>5, <1>6, <1>7, <1>8, <1>10 DEF Inv

(* A connection appends a report: its id is new everywhere.                *)
LEMMA EnqueueInv ==
    ASSUME Inv, NEW bad \in BOOLEAN, Enqueue(bad)
    PROVE  Inv'
<1> DEFINE n == q.last + 1
<1>1. TypeOK /\ q \in Queue /\ q.last < MaxAppends /\ q.last \in Nat
  BY DEF Inv, TypeOK, Enqueue, Queue
<1>2. /\ q' \in Queue /\ q'.stream = q.stream \cup {n} /\ q'.last = n /\ q'.read = q.read
      /\ q'.owner = q.owner
  BY <1>1, AppendFacts, SizeAssumption DEF Enqueue
<1>3. n \in Ids BY <1>1, BudgetAssumption DEF Ids
<1>4. /\ malformed' \subseteq malformed \cup {n} /\ malformed \subseteq malformed'
      /\ positions' = positions \cup {n}
      /\ UNCHANGED <<cleanup, answer, receipts, applied, lock, losses, job>>
  BY DEF Enqueue
<1>5. /\ n \notin q.stream /\ n \notin receipts /\ n \notin malformed /\ applied[n] = 0
      /\ answer[n] = "none" /\ \A w \in Workers : job[w].id # n
  <2>1. \A w \in Workers : job[w].id \in Nat /\ job[w].id <= q.last
    BY <1>1 DEF Inv, NoFuture, TypeOK, Job
  <2> QED BY <1>1, <1>3, <2>1 DEF Inv, NoFuture
<1> HIDE DEF n
<1>6. TypeOK' BY <1>1, <1>2, <1>3, <1>4 DEF TypeOK
<1>7. NoFuture'
  <2>1. n = q.last + 1 BY DEF n
  <2>2. \A w \in Workers : job[w].id \in Nat BY <1>1 DEF TypeOK, Job
  <2>3. q.read \in Nat /\ q.last \in Nat BY <1>1 DEF Queue
  <2>4. \A i \in Ids : i \in Nat BY DEF Ids
  <2> QED BY <1>2, <1>4, <2>1, <2>2, <2>3, <2>4 DEF Inv, NoFuture
<1>8. JobsAreSet' /\ LocksAreHeld' /\ PositionsAgree'
  BY <1>2, <1>4 DEF Inv, JobsAreSet, LocksAreHeld, PositionsAgree
<1>9. LedgerCovers' BY <1>2, <1>4, <1>5 DEF Inv, LedgerCovers
<1>10. OwnedCovers' /\ AppliedIsApplied' BY <1>4 DEF Inv, OwnedCovers, AppliedIsApplied
<1>11. DeadIsGone' BY <1>2, <1>4, <1>5 DEF Inv, DeadIsGone
<1>12. MalformedUntouched' BY <1>4, <1>5 DEF Inv, MalformedUntouched
<1>13. RejectedIsNot' BY <1>2, <1>4 DEF Inv, RejectedIsNot, InHand
<1>14. FailedIsFinal' BY <1>2, <1>4, <1>5 DEF Inv, FailedIsFinal, InHand
<1>16. ListsAreOld'
  <2>1. n = q.last + 1 BY DEF n
  <2>2. \A i \in Ids : i \in Nat BY DEF Ids
  <2> QED BY <1>1, <1>2, <1>4, <2>1, <2>2 DEF Inv, ListsAreOld
<1>15. AppliedOnce' /\ AnswerIsTrue' /\ ReceiptIsApplied'
  BY <1>4 DEF Inv, AppliedOnce, AnswerIsTrue, ReceiptIsApplied
<1> QED BY <1>6, <1>7, <1>8, <1>9, <1>10, <1>11, <1>12, <1>13, <1>14, <1>15, <1>16 DEF Inv

(* claim_next: a new, due or abandoned report changes hands.               *)
LEMMA TakeInv ==
    ASSUME Inv, NEW w \in Workers, Claim(w)
    PROVE  Inv'
<1>1. q \in Queue /\ w \in Consumers /\ q.read <= q.last /\ q.read \in Nat /\ q.last \in Nat
  BY DEF Inv, TypeOK, NoFuture, Consumers, Queue
<1>2. CASE TakeNew(w)
  <2>1. /\ q' \in Queue /\ q.read + 1 \in Ids /\ q'.stream = q.stream /\ q'.last = q.last
        /\ q'.read = q.read + 1 /\ q'.owner = [q.owner EXCEPT ![q.read + 1] = w]
    BY <1>1, <1>2, ReadFacts DEF TakeNew, CanRead
  <2>2. q.read + 1 <= q.last BY <1>1, <1>2 DEF TakeNew, CanRead
  <2>3. ClaimedBy(w, q.read + 1) BY <1>2 DEF TakeNew
  <2> QED BY <2>1, <2>2, <2>3, ClaimInv
<1>3. ASSUME NEW id \in Ids, TakeDue(w, id) PROVE Inv'
  <2>1. /\ q' \in Queue /\ q'.stream = q.stream /\ q'.last = q.last /\ q'.read = q.read
        /\ q'.owner = [q.owner EXCEPT ![id] = w] \/ q'.owner = q.owner
    BY <1>1, <1>3, DueFacts DEF TakeDue
  <2>2. ClaimedBy(w, id) BY <1>3 DEF TakeDue
  <2>3. CASE id <= q.last BY <1>1, <2>1, <2>2, <2>3, ClaimInv
  <2>4. CASE ~(id <= q.last)
    <3>1. q.owner[id] = NoOne BY <1>1, <2>4 DEF Inv, ListsAreOld, Ids
    <3>2. q' = [q EXCEPT !.due = @ \ {id}, !.tried = @ \ {id}] BY <1>3, <3>1 DEF TakeDue, ClaimDue
    <3>3. q'.owner = q.owner BY <1>1, <3>2 DEF Queue
    <3>4. UNCHANGED job BY <2>2, <3>1, <3>3, NamesAssumption DEF ClaimedBy
    <3> QED BY <2>1, <2>2, <3>3, <3>4, QueueFrame DEF ClaimedBy
  <2> QED BY <2>3, <2>4
<1>4. ASSUME NEW id \in Ids, TakeAbandoned(w, id) PROVE Inv'
  <2>1. /\ q' \in Queue /\ q'.stream = q.stream /\ q'.last = q.last /\ q'.read = q.read
        /\ q'.owner = [q.owner EXCEPT ![id] = w]
    BY <1>1, <1>4, ReclaimFacts DEF TakeAbandoned
  <2>2. ClaimedBy(w, id) BY <1>4 DEF TakeAbandoned
  <2>3. id <= q.last
    <3>1. q.owner[id] # NoOne BY <1>4 DEF TakeAbandoned, CanReclaim
    <3> QED BY <1>1, <3>1 DEF Inv, ListsAreOld, Ids
  <2> QED BY <1>1, <2>1, <2>2, <2>3, ClaimInv
<1> QED BY <1>2, <1>3, <1>4 DEF Claim

(* The commit: applied now, or found applied in the ledger.                *)
LEMMA CommitInv ==
    ASSUME Inv, NEW w \in Workers, NEW k \in {"applied", "retry"},
           At(w, "owned"), Effects(w), Go(w, k)
    PROVE  Inv'
<1> DEFINE id == job[w].id
<1>1. TypeOK /\ job[w].kind = "owned" BY DEF Inv, At
<1>2. id \in Ids /\ id <= q.last /\ lock = w
  BY <1>1 DEF Inv, JobsAreSet, NoFuture, LocksAreHeld, InTransaction
<1>3. k \in Kinds /\ k \notin InTransaction /\ k \notin {"idle", "owned", "rejected", "sweepDead", "orphanDead"}
  BY DEF Kinds, InTransaction
<1>4. job' = [job EXCEPT ![w] = [kind |-> k, id |-> id]] BY <1>1, <1>3, JobTypes DEF Go
<1>5. [kind |-> k, id |-> id] \in Job BY <1>1, <1>3, JobTypes
<1>6. /\ job'[w].kind = k /\ job'[w].id = id
      /\ \A v \in Workers \ {w} : job'[v] = job[v]
  BY <1>1, <1>4 DEF TypeOK
<1>7. \A v \in Workers : job'[v].id = job[v].id BY <1>6
<1>8. \A v \in Workers : job'[v].kind \notin InTransaction
  BY <1>2, <1>3, <1>6 DEF Inv, LocksAreHeld
<1>9. /\ receipts' = receipts \cup {id}
      /\ UNCHANGED <<q, positions, cleanup, answer, malformed, losses>>
      /\ lock' = NoOne
  BY <1>2 DEF Effects, Unlock
<1>10. applied \in [Ids -> Nat] /\ applied[id] <= 1 /\ applied[id] \in Nat
  BY <1>1, <1>2 DEF Inv, TypeOK, AppliedOnce
<1>11. /\ id \in receipts => applied[id] = 1
       /\ applied[id] = 1 => id \in receipts
  BY <1>1, <1>2 DEF Inv, ReceiptIsApplied, OwnedCovers
<1>12. applied' \in [Ids -> Nat] /\ applied'[id] = 1 /\ \A i \in Ids \ {id} : applied'[i] = applied[i]
  BY <1>2, <1>10, <1>11 DEF Effects
<1>13. InHand(id) BY <1>1 DEF InHand
<1>14. id \notin malformed /\ answer[id] # "failed"
  BY <1>1, <1>2, <1>13 DEF Inv, MalformedUntouched, FailedIsFinal
<1> HIDE DEF id
<1>15. TypeOK'
  <2>1. receipts' \subseteq Ids BY <1>1, <1>2, <1>9 DEF TypeOK
  <2>2. job' \in [Workers -> Job] BY <1>1, <1>4, <1>5 DEF TypeOK
  <2> QED BY <1>1, <1>9, <1>12, <2>1, <2>2 DEF TypeOK
<1>16. NoFuture'
  <2>1. \A i \in Ids : i > q.last => i # id
    <3>1. q.last \in Nat /\ \A i \in Ids : i \in Nat BY <1>1 DEF TypeOK, Queue, Ids
    <3> QED BY <1>2, <3>1
  <2> QED BY <1>7, <1>9, <1>12, <2>1 DEF Inv, NoFuture
<1>17. JobsAreSet' /\ LocksAreHeld' /\ PositionsAgree' /\ ListsAreOld'
  BY <1>2, <1>6, <1>8, <1>9 DEF Inv, JobsAreSet, LocksAreHeld, PositionsAgree, ListsAreOld
<1>18. \A v \in Workers : job'[v].kind # "owned" /\ job'[v].kind \notin {"sweepDead", "orphanDead"}
  BY <1>8 DEF InTransaction
<1>19. q.stream \subseteq Ids /\ receipts \subseteq Ids /\ malformed \subseteq Ids
  BY <1>1 DEF TypeOK, Queue
<1>20. LedgerCovers' /\ OwnedCovers' /\ DeadIsGone'
  BY <1>9, <1>12, <1>18, <1>19 DEF Inv, LedgerCovers, OwnedCovers, DeadIsGone
<1>21. MalformedUntouched'
  BY <1>6, <1>9, <1>12, <1>14, <1>19 DEF Inv, MalformedUntouched
<1>22. ReceiptIsApplied' BY <1>9, <1>12, <1>19 DEF Inv, ReceiptIsApplied
<1>23. AppliedIsApplied'
  <2>1. \A v \in Workers \ {w} : job[v].kind = "applied" => job[v].id \in Ids
    BY DEF Inv, JobsAreSet
  <2> QED BY <1>6, <1>12, <2>1 DEF Inv, AppliedIsApplied
<1>24. RejectedIsNot'
  <2> SUFFICES ASSUME NEW v \in Workers, job'[v].kind = "rejected", q.owner[job'[v].id] = v
               PROVE  applied'[job'[v].id] = 0
    BY <1>9, <1>18 DEF RejectedIsNot, InHand
  <2>1. v # w BY <1>3, <1>6
  <2>2. job[v].kind = "rejected" /\ q.owner[job[v].id] = v /\ job'[v].id = job[v].id BY <1>6, <2>1
  <2>3. applied[job[v].id] = 0 /\ ~InHand(job[v].id) BY <2>2 DEF Inv, RejectedIsNot
  <2>4. job[v].id # id /\ job[v].id \in Ids BY <1>13, <2>2, <2>3 DEF Inv, JobsAreSet
  <2> QED BY <1>12, <2>2, <2>3, <2>4
<1>25. FailedIsFinal' BY <1>9, <1>18 DEF Inv, FailedIsFinal, InHand
<1>26. AppliedOnce' BY <1>12 DEF Inv, AppliedOnce
<1>27. AnswerIsTrue' BY <1>9, <1>12, <1>14 DEF Inv, AnswerIsTrue
<1> QED BY <1>15, <1>16, <1>17, <1>20, <1>21, <1>22, <1>23, <1>24, <1>25, <1>26, <1>27 DEF Inv

(* persist_report, statement by statement.                                 *)
LEMMA PersistInv ==
    ASSUME Inv, NEW w \in Workers, Persist(w)
    PROVE  Inv'
<1>1. TypeOK /\ ListsAreOld /\ q \in Queue /\ w \in Consumers
  BY DEF Inv, TypeOK, Consumers
<1>2. lock \in Workers \cup {NoOne} /\ w # NoOne BY <1>1, NamesAssumption DEF TypeOK
<1>3. job[w].kind # "idle" => job[w].id \in Ids BY DEF Inv, JobsAreSet
<1>4. CASE LockNode(w)
  <2>1. "locked" \in Kinds BY DEF Kinds
  <2>2. ListsAreOld' BY <1>1, <1>4 DEF LockNode, ListsAreOld
  <2>3. \A v \in Workers : lock # v BY <1>4, NamesAssumption DEF LockNode, Lock
  <2>4. job[w].kind = "claimed" /\ lock' = w BY <1>4 DEF LockNode, Lock, At
  <2> QED BY <1>1, <1>4, <2>1, <2>2, <2>3, <2>4, GoInv DEF LockNode
<1>5. CASE CheckOwner(w)
  <2>1. job[w].kind = "locked" /\ job[w].id \in Ids /\ lock = w
    BY <1>3, <1>5 DEF CheckOwner, At, Inv, LocksAreHeld, InTransaction
  <2>2. job[w].id \notin malformed BY <2>1 DEF Inv, MalformedUntouched
  <2>3. CASE Owns(w)
    <3>1. /\ q' = Claimed(q, job[w].id, w) /\ Go(w, "owned") /\ UNCHANGED lock
      BY <1>5, <2>3 DEF CheckOwner
    <3>2. /\ q' \in Queue /\ q'.stream = q.stream /\ q'.last = q.last /\ q'.read = q.read
          /\ q'.owner = [q.owner EXCEPT ![job[w].id] = w]
      BY <1>1, <2>1, <3>1, ClaimedFacts
    <3>3. q.owner \in [Ids -> Consumers \cup {NoOne}] BY <1>1 DEF Queue
    <3>4. /\ q.owner[job[w].id] = w /\ job[w].id \in q.stream
      BY <2>3 DEF Owns, Owned
    <3>5. q'.owner = q.owner BY <2>1, <3>2, <3>3, <3>4
    <3>6. ListsAreOld' BY <1>1, <1>5, <3>2, <3>5 DEF ListsAreOld, CheckOwner
    <3>7. "owned" \in Kinds BY DEF Kinds
    <3> QED BY <1>2, <1>5, <2>1, <2>2, <3>1, <3>2, <3>4, <3>5, <3>6, <3>7, GoInv DEF CheckOwner
  <2>4. CASE ~Owns(w)
    <3>1. UNCHANGED q /\ Rest(w) /\ Unlock(w) BY <1>5, <2>4 DEF CheckOwner
    <3>2. ListsAreOld' BY <1>1, <1>5, <3>1 DEF ListsAreOld, CheckOwner
    <3>3. cleanup' \in SUBSET Ids BY <1>1, <1>5 DEF CheckOwner, TypeOK
    <3> QED BY <1>1, <1>5, <3>1, <3>2, <3>3, RestInv DEF CheckOwner
  <2> QED BY <2>3, <2>4
<1>6. CASE Commit(w) BY <1>6, CommitInv DEF Commit
<1>7. CASE CommitUnseen(w) BY <1>7, CommitInv DEF CommitUnseen
<1>8. CASE Reject(w)
  <2>1. ListsAreOld' BY <1>1, <1>8 DEF Reject, ListsAreOld
  <2>2. "rejected" \in Kinds /\ "rejected" \notin InTransaction BY DEF Kinds, InTransaction
  <2>3. job[w].kind # "idle" BY <1>8 DEF Reject, At
  <2>4. job[w].id \in Ids BY <1>3, <2>3
  <2>5. /\ applied[job[w].id] = 0
        /\ \A v \in Workers \ {w} : ~(job[v].kind = "owned" /\ job[v].id = job[w].id)
    <3>1. CASE job[w].kind = "claimed" /\ job[w].id \in malformed
      BY <3>1 DEF Inv, MalformedUntouched
    <3>2. CASE job[w].kind = "owned" /\ job[w].id \notin receipts
      <4>1. applied[job[w].id] # 1 BY <3>2 DEF Inv, OwnedCovers
      <4>2. applied[job[w].id] \in Nat /\ applied[job[w].id] <= 1
        BY <1>1, <2>4 DEF TypeOK, Inv, AppliedOnce
      <4>3. applied[job[w].id] = 0 BY <4>1, <4>2
      <4>4. lock = w /\ \A v \in Workers : job[v].kind = "owned" => lock = v
        BY <3>2 DEF Inv, LocksAreHeld, InTransaction
      <4> QED BY <4>3, <4>4
    <3> QED BY <1>8, <3>1, <3>2 DEF Reject, At
  <2>6. lock' \in Workers \cup {NoOne} /\ \A v \in Workers \ {w} : lock = v => lock' = v
    BY <1>2, <1>8 DEF Reject, Unlock
  <2> QED BY <1>1, <1>8, <2>1, <2>2, <2>3, <2>5, <2>6, GoInv DEF Reject
<1>9. CASE Fail(w)
  <2>1. ListsAreOld' BY <1>1, <1>9 DEF Fail, ListsAreOld
  <2>2. "retry" \in Kinds /\ "retry" \notin InTransaction BY DEF Kinds, InTransaction
  <2>3. job[w].kind # "idle" BY <1>9 DEF Fail, At
  <2>4. lock' \in Workers \cup {NoOne} /\ \A v \in Workers \ {w} : lock = v => lock' = v
    BY <1>2, <1>9 DEF Fail, Unlock
  <2> QED BY <1>1, <1>9, <2>1, <2>2, <2>3, <2>4, GoInv DEF Fail
<1> QED BY <1>4, <1>5, <1>6, <1>7, <1>8, <1>9 DEF Persist

(* An entry leaves the queue with its answer.                              *)
LEMMA EndInv ==
    ASSUME Inv, NEW w \in Workers, NEW a \in {"ok", "failed"}, Owns(w), Rest(w),
           job[w].kind # "idle",
           q' \in Queue, q'.stream = q.stream \ {job[w].id}, q'.last = q.last, q'.read = q.read,
           q'.owner = [q.owner EXCEPT ![job[w].id] = NoOne],
           positions' = positions \ {job[w].id},
           cleanup' = cleanup \/ cleanup' = cleanup \cup {job[w].id},
           answer' = [answer EXCEPT ![job[w].id] = a],
           UNCHANGED <<receipts, applied, malformed, lock, losses>>,
           a = "ok" => applied[job[w].id] = 1,
           a = "failed" => applied[job[w].id] = 0 /\ ~InHand(job[w].id),
           job[w].kind \notin InTransaction
    PROVE  Inv'
<1> DEFINE id == job[w].id
<1>1. TypeOK /\ id \in Ids /\ id <= q.last BY DEF Inv, JobsAreSet, NoFuture
<1>2. /\ job'[w].kind = "idle" /\ job'[w].id = 0
      /\ \A v \in Workers \ {w} : job'[v] = job[v]
  BY <1>1 DEF Rest, Idle, TypeOK
<1>3. /\ answer'[id] = a /\ \A i \in Ids \ {id} : answer'[i] = answer[i]
      /\ answer' \in [Ids -> {"none", "ok", "failed"}]
  BY <1>1 DEF TypeOK
<1>4. q'.owner[id] = NoOne /\ \A i \in Ids \ {id} : q'.owner[i] = q.owner[i]
  BY <1>1 DEF TypeOK, Queue
<1>5. \A i \in Ids : InHand(i)' => InHand(i) BY <1>2 DEF InHand
<1>6. q.last \in Nat /\ \A i \in Ids : i \in Nat BY <1>1 DEF TypeOK, Queue, Ids
<1>7. \A v \in Workers : job'[v].kind # "idle" => v # w /\ job[v].id \in Ids
  BY <1>2 DEF Inv, JobsAreSet
<1>8. TypeOK'
  <2>1. job' \in [Workers -> Job] BY <1>1, JobTypes DEF TypeOK, Rest
  <2>2. cleanup' \subseteq Ids /\ positions' \subseteq Ids BY <1>1 DEF TypeOK
  <2> QED BY <1>1, <1>3, <2>1, <2>2 DEF TypeOK
<1>9. NoFuture'
  <2>1. \A i \in Ids : i > q.last => i # id BY <1>1, <1>6
  <2>2. \A v \in Workers : job'[v].id <= q'.last BY <1>2, <1>6 DEF Inv, NoFuture
  <2> QED BY <1>3, <2>1, <2>2 DEF Inv, NoFuture
<1>10. ListsAreOld'
  <2>1. \A i \in Ids : i > q.last => i # id BY <1>1, <1>6
  <2>2. \A i \in Ids : i > q.last => q'.owner[i] = NoOne BY <1>4, <2>1 DEF Inv, ListsAreOld
  <2> QED BY <2>1, <2>2 DEF Inv, ListsAreOld
<1>11. JobsAreSet' BY <1>2, <1>7 DEF JobsAreSet
<1>12. LocksAreHeld'
  <2>1. "idle" \notin InTransaction BY DEF InTransaction
  <2> QED BY <1>2, <2>1 DEF Inv, LocksAreHeld
<1>13. PositionsAgree' /\ LedgerCovers' BY DEF Inv, PositionsAgree, LedgerCovers
<1>14. OwnedCovers' /\ DeadIsGone' BY <1>2 DEF Inv, OwnedCovers, DeadIsGone
<1>15. MalformedUntouched' BY <1>2 DEF Inv, MalformedUntouched
<1>16. ReceiptIsApplied' /\ AppliedIsApplied' BY <1>2 DEF Inv, ReceiptIsApplied, AppliedIsApplied
<1>17. RejectedIsNot'
  <2> SUFFICES ASSUME NEW v \in Workers, job'[v].kind = "rejected", q'.owner[job'[v].id] = v
               PROVE  /\ applied[job'[v].id] = 0
                      /\ \A u \in Workers : ~(job'[u].kind = "owned" /\ job'[u].id = job'[v].id)
    BY DEF RejectedIsNot, InHand
  <2>1. v # w /\ job'[v] = job[v] /\ job[v].id \in Ids BY <1>2, <1>7
  <2>2. job[v].id # id BY <1>4, <2>1, NamesAssumption
  <2>3. q.owner[job[v].id] = v BY <1>4, <2>1, <2>2
  <2>4. applied[job[v].id] = 0 /\ ~InHand(job[v].id) BY <2>1, <2>3 DEF Inv, RejectedIsNot
  <2> QED BY <1>2, <2>1, <2>4 DEF InHand
<1>18. FailedIsFinal'
  <2> SUFFICES ASSUME NEW i \in Ids, answer'[i] = "failed"
               PROVE  i \notin q'.stream /\ ~InHand(i)'
    BY DEF FailedIsFinal
  <2>1. CASE i = id BY <1>3, <1>5, <2>1
  <2>2. CASE i # id BY <1>3, <1>5, <2>2 DEF Inv, FailedIsFinal
  <2> QED BY <2>1, <2>2
<1>19. AppliedOnce' BY DEF Inv, AppliedOnce
<1>20. AnswerIsTrue' BY <1>3 DEF Inv, AnswerIsTrue
<1> QED BY <1>8, <1>9, <1>10, <1>11, <1>12, <1>13, <1>14, <1>15, <1>16, <1>17, <1>18, <1>19, <1>20
        DEF Inv

(* complete and retry, fenced by the ownership of the entry.               *)
LEMMA SettleInv ==
    ASSUME Inv, NEW w \in Workers, Settle(w)
    PROVE  Inv'
<1>1. TypeOK /\ ListsAreOld /\ q \in Queue /\ w \in Consumers
  BY DEF Inv, TypeOK, Consumers
<1>2. job[w].kind # "idle" => job[w].id \in Ids BY DEF Inv, JobsAreSet
<1>3. CASE Confirm(w)
  <2>1. job[w].kind = "applied" /\ Rest(w) BY <1>3 DEF Confirm, At
  <2>2. CASE Owns(w)
    <3>1. EntrySize - CleanupSize \in Nat BY SizeAssumption
    <3>2. /\ q' \in Queue /\ q'.stream = q.stream \ {job[w].id} /\ q'.last = q.last
          /\ q'.read = q.read /\ q'.owner = [q.owner EXCEPT ![job[w].id] = NoOne]
      BY <1>1, <1>2, <1>3, <2>1, <2>2, <3>1, RemoveFacts DEF Confirm
    <3>3. cleanup' = cleanup \cup {job[w].id} BY <1>3, <2>2 DEF Confirm
    <3>4. applied[job[w].id] = 1 BY <2>1 DEF Inv, AppliedIsApplied
    <3>5. "applied" \notin InTransaction BY DEF InTransaction
    <3> QED BY <1>3, <2>1, <2>2, <3>2, <3>3, <3>4, <3>5, EndInv DEF Confirm
  <2>3. CASE ~Owns(w)
    <3>1. UNCHANGED <<q, cleanup, answer, positions>> BY <1>3, <2>3 DEF Confirm
    <3>2. ListsAreOld' BY <1>1, <3>1 DEF ListsAreOld
    <3>3. cleanup' \in SUBSET Ids BY <1>1, <3>1 DEF TypeOK
    <3> QED BY <1>1, <1>3, <2>1, <3>1, <3>2, <3>3, RestInv DEF Confirm
  <2> QED BY <2>2, <2>3
<1>4. CASE Refuse(w)
  <2>1. job[w].kind = "rejected" /\ job[w].id \in Ids BY <1>2, <1>4 DEF Refuse, At
  <2>2. CASE Owns(w) /\ CanArchive(q, FailedSize)
    <3> DEFINE s == Archive(q, job[w].id, FailedSize)
    <3>1. /\ s \in Queue /\ s.stream = q.stream /\ s.last = q.last /\ s.read = q.read
          /\ s.owner = q.owner
      BY <1>1, <2>1, ArchiveFacts, SizeAssumption
    <3>2. q' = Remove(s, job[w].id, EntrySize) BY <1>4, <2>2 DEF Refuse
    <3> HIDE DEF s
    <3>3. /\ q' \in Queue /\ q'.stream = q.stream \ {job[w].id} /\ q'.last = q.last
          /\ q'.read = q.read /\ q'.owner = [q.owner EXCEPT ![job[w].id] = NoOne]
      BY <2>1, <3>1, <3>2, RemoveFacts, SizeAssumption
    <3>4. /\ answer' = [answer EXCEPT ![job[w].id] = "failed"]
          /\ positions' = positions \ {job[w].id} /\ Rest(w)
          /\ UNCHANGED <<cleanup, receipts, applied, malformed, lock, losses>>
      BY <1>4, <2>2 DEF Refuse
    <3>6. applied[job[w].id] = 0 /\ ~InHand(job[w].id)
      BY <2>1, <2>2 DEF Inv, RejectedIsNot, Owns, Owned
    <3>7. "rejected" \notin InTransaction BY DEF InTransaction
    <3> QED BY <2>1, <2>2, <3>3, <3>4, <3>6, <3>7, EndInv
  <2>3. CASE Owns(w) /\ ~CanArchive(q, FailedSize)
    <3>1. Go(w, "retry") /\ UNCHANGED <<q, answer, positions>> BY <1>4, <2>3 DEF Refuse
    <3>2. ListsAreOld' BY <1>1, <1>4, <3>1 DEF ListsAreOld, Refuse
    <3>3. "retry" \in Kinds /\ "retry" \notin InTransaction BY DEF Kinds, InTransaction
    <3>4. lock' = lock /\ lock \in Workers \cup {NoOne} BY <1>1, <1>4 DEF Refuse, TypeOK
    <3> QED BY <1>1, <1>4, <2>1, <3>1, <3>2, <3>3, <3>4, GoInv DEF Refuse
  <2>4. CASE ~Owns(w)
    <3>1. Rest(w) /\ UNCHANGED <<q, answer, positions>> BY <1>4, <2>4 DEF Refuse
    <3>2. ListsAreOld' BY <1>1, <1>4, <3>1 DEF ListsAreOld, Refuse
    <3>3. cleanup' \in SUBSET Ids BY <1>1, <1>4 DEF Refuse, TypeOK
    <3> QED BY <1>1, <1>4, <3>1, <3>2, <3>3, RestInv DEF Refuse
  <2> QED BY <2>2, <2>3, <2>4
<1>5. CASE RetryLater(w)
  <2>1. job[w].id \in Ids /\ Rest(w) BY <1>2, <1>5 DEF RetryLater, At
  <2>2. cleanup' \in SUBSET Ids BY <1>1, <1>5 DEF RetryLater, TypeOK
  <2>3. CASE Owns(w)
    <3>1. q' = Retry(q, job[w].id, w) BY <1>5, <2>3 DEF RetryLater
    <3>2. /\ q' \in Queue /\ q'.stream = q.stream /\ q'.last = q.last /\ q'.read = q.read
          /\ q'.owner = [q.owner EXCEPT ![job[w].id] = w]
      BY <1>1, <2>1, <3>1, RetryFacts
    <3>3. q.owner \in [Ids -> Consumers \cup {NoOne}] /\ q.owner[job[w].id] = w
      BY <1>1, <2>3 DEF Queue, Owns, Owned
    <3>4. q'.owner = q.owner BY <2>1, <3>2, <3>3
    <3>5. ListsAreOld' BY <1>1, <1>5, <3>2, <3>4 DEF ListsAreOld, RetryLater
    <3> QED BY <1>5, <2>1, <2>2, <3>2, <3>4, <3>5, RestInv DEF RetryLater
  <2>4. CASE ~Owns(w)
    <3>1. UNCHANGED q BY <1>5, <2>4 DEF RetryLater
    <3>2. ListsAreOld' BY <1>1, <1>5, <3>1 DEF ListsAreOld, RetryLater
    <3> QED BY <1>1, <1>5, <2>1, <2>2, <3>1, <3>2, RestInv DEF RetryLater
  <2> QED BY <2>3, <2>4
<1> QED BY <1>3, <1>4, <1>5 DEF Settle

(* The cleanup chooses a hint or a receipt.                                *)
LEMMA PickInv ==
    ASSUME Inv, NEW w \in Workers, Pick(w)
    PROVE  Inv'
<1>1. TypeOK /\ ListsAreOld /\ q \in Queue /\ NoFuture BY DEF Inv, TypeOK
<1>2. PICK id \in Ids, k \in {"sweep", "orphan"} :
        /\ id \in cleanup \/ id \in receipts
        /\ Take(w, k, id)
        /\ UNCHANGED <<q, positions, cleanup, answer, receipts, applied, malformed, lock, losses>>
  BY DEF Pick, PickHint, PickReceipt
<1>3. id <= q.last /\ id \in 0 .. MaxAppends
  <2>1. q.last \in Nat /\ id \in Nat /\ id \in 0 .. MaxAppends
    BY <1>1, BudgetAssumption DEF Queue, Ids
  <2> QED BY <1>1, <1>2, <2>1 DEF ListsAreOld, NoFuture
<1>4. job' = [job EXCEPT ![w] = [kind |-> k, id |-> id]] BY <1>2 DEF Take
<1>5. k \in Kinds /\ k \notin InTransaction
      /\ k \notin {"owned", "sweepDead", "orphanDead", "locked", "applied", "rejected"}
  BY DEF Kinds, InTransaction
<1>6. TypeOK' BY <1>1, <1>2, <1>3, <1>4, <1>5 DEF TypeOK, Job
<1>7. ListsAreOld' BY <1>1, <1>2 DEF ListsAreOld
<1>8. \A v \in Workers : job[v].kind \in InTransaction => lock' = v
  BY <1>2 DEF Inv, LocksAreHeld
<1>9. q.read <= q.last BY <1>1 DEF NoFuture
<1> QED BY <1>2, <1>3, <1>4, <1>5, <1>6, <1>7, <1>8, <1>9, JobFrame

(* A receipt goes while no transaction of another loop is open.            *)
LEMMA DeleteInv ==
    ASSUME Inv, NEW w \in Workers, DeleteReceipt(w)
    PROVE  Inv'
<1> DEFINE id == job[w].id
<1>1. /\ TypeOK /\ job[w].kind \in {"sweepDead", "orphanDead"}
      /\ receipts' = receipts \ {id}
      /\ UNCHANGED <<q, positions, cleanup, answer, applied, malformed, losses>>
  BY DEF Inv, DeleteReceipt
<1>2. id \in Ids /\ lock = w /\ id \notin q.stream
  BY <1>1 DEF Inv, JobsAreSet, LocksAreHeld, InTransaction, DeadIsGone
<1>3. lock' = NoOne BY <1>2 DEF DeleteReceipt, Unlock
<1>4. PICK k \in {"swept", "idle"}, i \in {id, 0} :
        /\ job' = [job EXCEPT ![w] = [kind |-> k, id |-> i]] /\ (k = "swept" => i = id)
  <2>1. CASE At(w, "sweepDead")
    <3>1. job' = [job EXCEPT ![w].kind = "swept"] BY <2>1 DEF DeleteReceipt, Go
    <3>2. "swept" \in Kinds BY DEF Kinds
    <3>3. job' = [job EXCEPT ![w] = [kind |-> "swept", id |-> id]] BY <1>1, <3>1, <3>2, JobTypes
    <3> QED BY <3>3
  <2>2. CASE ~At(w, "sweepDead")
    <3>1. job' = [job EXCEPT ![w] = [kind |-> "idle", id |-> 0]]
      BY <2>2 DEF DeleteReceipt, Rest, Idle
    <3>2. "idle" # "swept" OBVIOUS
    <3> QED BY <3>1, <3>2
  <2> QED BY <2>1, <2>2
<1>5. /\ job'[w].kind = k /\ job'[w].id = i
      /\ \A v \in Workers \ {w} : job'[v] = job[v]
  BY <1>1, <1>4 DEF TypeOK
<1>6. k \in Kinds /\ k \notin InTransaction /\ k \notin {"owned", "rejected", "applied", "locked"}
      /\ i \in 0 .. MaxAppends
  BY <1>2, BudgetAssumption DEF Kinds, InTransaction, Ids
<1>7. \A v \in Workers : job'[v].kind \notin InTransaction
  BY <1>2, <1>5, <1>6 DEF Inv, LocksAreHeld
<1>8. \A v \in Workers : job'[v].kind # "owned" /\ job'[v].kind \notin {"sweepDead", "orphanDead"}
  BY <1>7 DEF InTransaction
<1>9. q.last \in Nat /\ id <= q.last BY <1>1, <1>2 DEF TypeOK, Queue, Inv, NoFuture
<1> HIDE DEF id
<1>10. TypeOK'
  <2>1. job' \in [Workers -> Job] BY <1>1, <1>4, <1>6 DEF TypeOK, Job
  <2>2. receipts' \subseteq Ids BY <1>1 DEF TypeOK
  <2> QED BY <1>1, <1>3, <2>1, <2>2 DEF TypeOK
<1>11. NoFuture'
  <2>1. \A v \in Workers : job'[v].id <= q.last BY <1>5, <1>9 DEF Inv, NoFuture
  <2> QED BY <1>1, <2>1 DEF Inv, NoFuture
<1>12. ListsAreOld' /\ PositionsAgree' BY <1>1 DEF Inv, ListsAreOld, PositionsAgree
<1>13. JobsAreSet' BY <1>2, <1>4, <1>5 DEF Inv, JobsAreSet
<1>14. LocksAreHeld' /\ OwnedCovers' /\ DeadIsGone'
  BY <1>7, <1>8 DEF LocksAreHeld, OwnedCovers, DeadIsGone
<1>15. LedgerCovers' BY <1>1, <1>2 DEF Inv, LedgerCovers
<1>16. MalformedUntouched' BY <1>1, <1>5, <1>6 DEF Inv, MalformedUntouched
<1>17. ReceiptIsApplied' BY <1>1 DEF Inv, ReceiptIsApplied
<1>18. AppliedIsApplied' BY <1>1, <1>5, <1>6 DEF Inv, AppliedIsApplied
<1>19. RejectedIsNot' BY <1>1, <1>5, <1>6, <1>8 DEF Inv, RejectedIsNot, InHand
<1>20. FailedIsFinal' BY <1>1, <1>8 DEF Inv, FailedIsFinal, InHand
<1>21. AppliedOnce' /\ AnswerIsTrue' BY <1>1 DEF Inv, AppliedOnce, AnswerIsTrue
<1> QED BY <1>10, <1>11, <1>12, <1>13, <1>14, <1>15, <1>16, <1>17, <1>18, <1>19, <1>20, <1>21 DEF Inv

(* clean_report_receipts and clean_orphan_receipts.                        *)
LEMMA SweepInv ==
    ASSUME Inv, NEW w \in Workers, Sweep(w)
    PROVE  Inv'
<1>1. TypeOK /\ ListsAreOld /\ q \in Queue BY DEF Inv, TypeOK
<1>2. lock \in Workers \cup {NoOne} /\ cleanup \subseteq Ids BY <1>1 DEF TypeOK
<1>3. CASE LockForCleanup(w)
  <2>1. ListsAreOld' BY <1>1, <1>3 DEF LockForCleanup, ListsAreOld
  <2>2. /\ \A v \in Workers : lock # v
        /\ lock' = w /\ UNCHANGED <<q, positions, cleanup, answer, receipts, applied, malformed, losses>>
    BY <1>3, NamesAssumption DEF LockForCleanup, Lock
  <2>3. PICK k \in {"sweepLocked", "orphanLocked"} : Go(w, k) BY <1>3 DEF LockForCleanup
  <2>4. k \in Kinds BY DEF Kinds
  <2>5. job[w].kind # "idle" BY <1>3 DEF LockForCleanup, At
  <2> QED BY <1>1, <2>1, <2>2, <2>3, <2>4, <2>5, GoInv
<1>4. CASE CheckLive(w)
  <2>1. ListsAreOld' BY <1>1, <1>4 DEF CheckLive, ListsAreOld
  <2>2. /\ job[w].kind \in {"sweepLocked", "orphanLocked"}
        /\ UNCHANGED <<q, positions, cleanup, answer, receipts, applied, malformed, losses>>
    BY <1>4 DEF CheckLive
  <2>3. CASE IsLive(job[w].kind, job[w].id)
    <3>1. Rest(w) /\ Unlock(w) BY <1>4, <2>3 DEF CheckLive
    <3> QED BY <1>1, <1>2, <2>1, <2>2, <3>1, RestInv
  <2>4. CASE ~IsLive(job[w].kind, job[w].id)
    <3>1. PICK k \in {"sweepDead", "orphanDead"} : Go(w, k) BY <1>4, <2>4 DEF CheckLive
    <3>2. UNCHANGED lock BY <1>4, <2>4 DEF CheckLive
    <3>3. k \in Kinds BY DEF Kinds
    <3>4. lock = w BY <2>2 DEF Inv, LocksAreHeld, InTransaction
    <3>5. job[w].id \notin q.stream BY <2>4 DEF IsLive, Inv, PositionsAgree
    <3> QED BY <1>1, <1>2, <2>1, <2>2, <3>1, <3>2, <3>3, <3>4, <3>5, GoInv
  <2> QED BY <2>3, <2>4
<1>5. CASE DeleteReceipt(w) BY <1>5, DeleteInv
<1>6. CASE FinishSweep(w)
  <2>1. /\ q' \in Queue /\ q'.stream = q.stream /\ q'.last = q.last /\ q'.read = q.read
        /\ q'.owner = q.owner /\ cleanup' \subseteq cleanup
    BY <1>1, <1>6, ReleaseFacts, SizeAssumption DEF FinishSweep
  <2>2. ListsAreOld' BY <1>1, <2>1 DEF ListsAreOld
  <2> QED BY <1>2, <1>6, <2>1, <2>2, RestInv DEF FinishSweep
<1> QED BY <1>3, <1>4, <1>5, <1>6 DEF Sweep

(* A failed call or a crash ends a step; its transaction rolls back.       *)
LEMMA StopInv ==
    ASSUME Inv, NEW w \in Workers, Abandon(w) \/ Crash(w)
    PROVE  Inv'
<1>1. TypeOK /\ ListsAreOld /\ q \in Queue BY DEF Inv, TypeOK
<1>2. cleanup \subseteq Ids BY <1>1 DEF TypeOK
<1>3. CASE Abandon(w)
  <2>1. ListsAreOld' BY <1>1, <1>3 DEF Abandon, ListsAreOld
  <2> QED BY <1>1, <1>2, <1>3, <2>1, RestInv DEF Abandon
<1>4. CASE Crash(w)
  <2>1. /\ q' \in Queue /\ q'.stream = q.stream /\ q'.last = q.last /\ q'.read = q.read
        /\ \A i \in Ids : q'.owner[i] = IF q.owner[i] = w THEN Former ELSE q.owner[i]
    BY <1>1, <1>4, DisownFacts DEF Crash
  <2>2. \A j \in Ids : \A v \in Workers \ {w} : q'.owner[j] = v => q.owner[j] = v
    BY <2>1, NamesAssumption
  <2>3. ListsAreOld' BY <1>1, <1>4, <2>1, NamesAssumption DEF ListsAreOld, Crash
  <2> QED BY <1>2, <1>4, <2>1, <2>2, <2>3, RestInv DEF Crash
<1> QED BY <1>3, <1>4

(* Redis loses its data; the ledger and the transactions stay.             *)
LEMMA LoseInv ==
    ASSUME Inv, LoseRedis
    PROVE  Inv'
<1>1. /\ TypeOK /\ q \in Queue /\ q' = LostQueue(q) /\ positions' = {} /\ cleanup' = {}
      /\ answer' = [i \in Ids |-> "none"] /\ losses' = losses + 1 /\ losses < MaxLosses
      /\ UNCHANGED <<receipts, applied, malformed, lock, job>>
  BY DEF Inv, TypeOK, LoseRedis
<1>2. /\ q' \in Queue /\ q'.stream = {} /\ q'.last = q.last /\ q'.read = q.last
      /\ \A i \in Ids : q'.owner[i] = NoOne
  BY <1>1, LostFacts
<1>3. \A i \in Ids : answer'[i] = "none" BY <1>1
<1>4. TypeOK'
  <2>1. losses' \in 0 .. MaxLosses BY <1>1, SizeAssumption DEF TypeOK
  <2>2. answer' \in [Ids -> {"none", "ok", "failed"}] BY <1>1
  <2> QED BY <1>1, <1>2, <2>1, <2>2 DEF TypeOK
<1>5. q.last \in Nat BY <1>1 DEF Queue
<1>6. NoFuture' BY <1>1, <1>2, <1>3, <1>5 DEF Inv, NoFuture
<1>7. ListsAreOld' /\ JobsAreSet' /\ LocksAreHeld' /\ PositionsAgree'
  BY <1>1, <1>2 DEF Inv, ListsAreOld, JobsAreSet, LocksAreHeld, PositionsAgree
<1>8. LedgerCovers' /\ OwnedCovers' /\ DeadIsGone' /\ MalformedUntouched'
  BY <1>1, <1>2 DEF Inv, LedgerCovers, OwnedCovers, DeadIsGone, MalformedUntouched
<1>9. ReceiptIsApplied' /\ AppliedIsApplied'
  BY <1>1 DEF Inv, ReceiptIsApplied, AppliedIsApplied
<1>10. RejectedIsNot'
  <2>1. \A w \in Workers : job[w].kind = "rejected" => job[w].id \in Ids /\ w # NoOne
    BY NamesAssumption DEF Inv, JobsAreSet
  <2> QED BY <1>1, <1>2, <2>1 DEF RejectedIsNot
<1>11. FailedIsFinal' /\ AnswerIsTrue' BY <1>3 DEF FailedIsFinal, AnswerIsTrue
<1>12. AppliedOnce' BY <1>1 DEF Inv, AppliedOnce
<1> QED BY <1>4, <1>6, <1>7, <1>8, <1>9, <1>10, <1>11, <1>12 DEF Inv

(* Every step preserves Inv.                                               *)
LEMMA NextInv == Inv /\ [Next]_vars => Inv'
<1> SUFFICES ASSUME Inv, [Next]_vars PROVE Inv' OBVIOUS
<1>1. q \in Queue BY DEF Inv, TypeOK
<1>2. CASE \E bad \in BOOLEAN : Enqueue(bad) BY <1>2, EnqueueInv
<1>3. ASSUME NEW w \in Workers,
             Claim(w) \/ Persist(w) \/ Settle(w) \/ Pick(w) \/ Sweep(w) \/ Abandon(w) \/ Crash(w)
      PROVE  Inv'
  BY <1>3, TakeInv, PersistInv, SettleInv, PickInv, SweepInv, StopInv
<1>4. ASSUME NEW w \in Workers, NEW c \in Consumers, CleanNames(w, c) PROVE Inv'
  <2>1. NameIsEmpty(q, c) /\ q' = RemoveName(q, c) BY <1>4 DEF CleanNames
  <2>2. /\ q' \in Queue /\ q'.stream = q.stream /\ q'.last = q.last /\ q'.read = q.read
        /\ q'.owner = q.owner
    BY <1>1, <2>1, NameFacts
  <2> QED BY <1>4, <2>2, QueueFrame DEF CleanNames
<1>5. CASE LoseRedis BY <1>5, LoseInv
<1>6. ASSUME NEW id \in Ids, Time(id) PROVE Inv'
  BY <1>1, <1>6, TimeFacts, QueueFrame DEF Time, GoIdle, ComeDue
<1>7. CASE UNCHANGED vars BY <1>1, <1>7, QueueFrame DEF vars
<1> QED BY <1>2, <1>3, <1>4, <1>5, <1>6, <1>7 DEF Next

-----------------------------------------------------------------------------
(* Inv holds in every reachable state, for every set of loops, every       *)
(* budget and every number of reports and losses.                          *)
THEOREM Invariance == Spec => []Inv
BY InitInv, NextInv, PTL DEF Spec

(* The report queue, its ledger and its loops keep their types: the byte   *)
(* counter of complete_body never runs negative.                           *)
THEOREM ReportTypeCorrect == Spec => []TypeOK
<1>1. Inv => TypeOK BY DEF Inv
<1> QED BY <1>1, Invariance, PTL

(* The effects of a node report are committed at most once                 *)
(* (persist_report), whatever crashes, stalls, lost commits, ledger        *)
(* cleanups and losses of Redis happen.                                    *)
THEOREM ReportAppliedOnce == Spec => []AppliedOnce
<1>1. Inv => AppliedOnce BY DEF Inv
<1> QED BY <1>1, Invariance, PTL

(* commit_report is told "ok" only of a committed report, and "failed"     *)
(* only of one that left no effect.                                        *)
THEOREM ReportAnswerIsTrue == Spec => []AnswerIsTrue
<1>1. Inv => AnswerIsTrue BY DEF Inv
<1> QED BY <1>1, Invariance, PTL

-----------------------------------------------------------------------------
(* The byte counters.                                                      *)

(* A report is queued, hinted at or archived, not two of these: that makes *)
(* the counters' sums move by one entry at a time.                         *)
Apart == cleanup \cap q.stream = {} /\ q.failed \cap q.stream = {} /\ \A id \in q.failed : id <= q.last

Counted == BytesMatch /\ Apart

(* Steps that leave the entries and the counters alone.                    *)
LEMMA CountedFrame ==
    ASSUME Counted, SameCounts(q, q'), q'.last = q.last, cleanup' = cleanup
    PROVE  Counted'
BY DEF Counted, BytesMatch, Apart, SameCounts

(* A new report.                                                           *)
LEMMA CountedEnqueue ==
    ASSUME Inv, Counted, NEW bad \in BOOLEAN, Enqueue(bad)
    PROVE  Counted'
<1> DEFINE n == q.last + 1
<1>1. q \in Queue /\ q.last < MaxAppends /\ q.last \in Nat /\ q.stream \in SUBSET Ids
  BY DEF Inv, TypeOK, Enqueue, Queue
<1>2. /\ q'.stream = q.stream \cup {n} /\ q'.last = n /\ q'.failed = q.failed
      /\ q'.bytes = q.bytes + EntrySize /\ q'.failedBytes = q.failedBytes /\ cleanup' = cleanup
  BY <1>1, AppendFacts, AppendCounts, SizeAssumption DEF Enqueue
<1>3. n \in Ids /\ n > q.last BY <1>1, BudgetAssumption DEF Ids
<1>4. n \notin q.stream /\ n \notin cleanup BY <1>3 DEF Inv, NoFuture, ListsAreOld
<1>5. n \notin q.failed BY <1>1, <1>3 DEF Counted, Apart
<1>6. Cardinality(q'.stream) = Cardinality(q.stream) + 1 /\ Cardinality(q.stream) \in Nat
  BY <1>1, <1>2, <1>3, <1>4, Sizes
<1>7. EntrySize * Cardinality(q'.stream) = EntrySize * Cardinality(q.stream) + EntrySize
  BY <1>6, Products, SizeAssumption
<1>8. cleanup \in SUBSET Ids BY DEF Inv, TypeOK
<1>9. CleanupSize * Cardinality(cleanup) \in Nat /\ EntrySize * Cardinality(q.stream) \in Nat
  BY <1>6, <1>8, Sizes, Products, SizeAssumption
<1>10. BytesMatch'
  <2>1. q.bytes + EntrySize = EntrySize * Cardinality(q.stream) + EntrySize + CleanupSize * Cardinality(cleanup)
    BY <1>9, SizeAssumption DEF Counted, BytesMatch
  <2> QED BY <1>2, <1>7, <2>1 DEF Counted, BytesMatch
<1>11. \A id \in q'.failed : id <= q'.last
  <2>1. \A id \in q.failed : id \in Nat /\ id <= q.last BY <1>1 DEF Counted, Apart, Queue, Ids
  <2> QED BY <1>1, <1>2, <2>1
<1>12. cleanup' \cap q'.stream = {} /\ q'.failed \cap q'.stream = {}
  BY <1>2, <1>4, <1>5 DEF Counted, Apart
<1> QED BY <1>10, <1>11, <1>12 DEF Counted, Apart

(* A confirmed report leaves a hint, an archived one its failed bytes.     *)
LEMMA CountedSettle ==
    ASSUME Inv, Counted, NEW w \in Workers, Settle(w)
    PROVE  Counted'
<1> DEFINE id == job[w].id
<1>0. q \in Queue BY DEF Inv, TypeOK
<1>1. q \in Queue /\ q.stream \in SUBSET Ids /\ cleanup \in SUBSET Ids /\ q.failed \in SUBSET Ids /\ q.bytes \in Nat
      /\ q.failedBytes \in Nat
  BY DEF Inv, TypeOK, Queue
<1> DEFINE S == EntrySize * Cardinality(q.stream)  C == CleanupSize * Cardinality(cleanup)
           F == FailedSize * Cardinality(q.failed)
<1>2. S \in Nat /\ C \in Nat /\ F \in Nat /\ q.bytes = S + C /\ q.failedBytes = F
  BY <1>1, Sizes, Products, SizeAssumption DEF Counted, BytesMatch
<1>3. ASSUME Owns(w)
      PROVE  /\ id \in q.stream /\ id \in Ids /\ id \notin cleanup /\ id \notin q.failed
             /\ EntrySize * Cardinality(q.stream \ {id}) = S - EntrySize /\ S >= EntrySize
             /\ CleanupSize * Cardinality(cleanup \cup {id}) = C + CleanupSize
             /\ FailedSize * Cardinality(q.failed \cup {id}) = F + FailedSize
  <2>1. id \in q.stream /\ id \in Ids BY <1>1, <1>3 DEF Owns
  <2>2. id \notin cleanup /\ id \notin q.failed BY <2>1 DEF Counted, Apart
  <2>3. /\ Cardinality(q.stream \ {id}) = Cardinality(q.stream) - 1 /\ Cardinality(q.stream) >= 1
        /\ Cardinality(q.stream) \in Nat
        /\ Cardinality(cleanup \cup {id}) = Cardinality(cleanup) + 1 /\ Cardinality(cleanup) \in Nat
        /\ Cardinality(q.failed \cup {id}) = Cardinality(q.failed) + 1 /\ Cardinality(q.failed) \in Nat
    BY <1>1, <2>1, <2>2, Sizes
  <2> QED BY <2>1, <2>2, <2>3, Products, SizeAssumption
<1> HIDE DEF S, C, F
<1>4. CASE Confirm(w)
  <2>1. CASE Owns(w)
    <3>1. q' = Remove(q, id, EntrySize - CleanupSize) /\ cleanup' = cleanup \cup {id}
      BY <1>4, <2>1 DEF Confirm
    <3>2. EntrySize - CleanupSize \in Nat /\ id \in Ids BY <1>3, <2>1, SizeAssumption
    <3>3. /\ q'.stream = q.stream \ {id} /\ q'.last = q.last /\ q'.failed = q.failed
          /\ q'.failedBytes = q.failedBytes
          /\ q'.bytes = IF q.bytes > EntrySize - CleanupSize THEN q.bytes - (EntrySize - CleanupSize) ELSE 0
      <4> DEFINE d == EntrySize - CleanupSize
      <4>1. d \in Nat /\ q' = Remove(q, id, d) BY <3>1, <3>2
      <4> HIDE DEF d
      <4>2. /\ q'.stream = q.stream \ {id} /\ q'.last = q.last /\ q'.failed = q.failed
        BY <1>1, <3>2, <4>1, RemoveFacts
      <4>3. /\ q'.failedBytes = q.failedBytes /\ q'.bytes = IF q.bytes > d THEN q.bytes - d ELSE 0
        BY <1>1, <3>2, <4>1, RemoveCounts
      <4> QED BY <4>2, <4>3 DEF d
    <3>4. q'.bytes = (S - EntrySize) + (C + CleanupSize)
      BY <1>2, <1>3, <2>1, <3>3, SizeAssumption
    <3>5. BytesMatch' BY <1>2, <1>3, <2>1, <3>1, <3>3, <3>4 DEF BytesMatch, F
    <3>6. Apart' BY <3>1, <3>3 DEF Counted, Apart
    <3> QED BY <3>5, <3>6 DEF Counted
  <2>2. CASE ~Owns(w)
    BY <1>4, <2>2, CountedFrame DEF Confirm, SameCounts
  <2> QED BY <2>1, <2>2
<1>5. CASE Refuse(w)
  <2>1. CASE Owns(w) /\ CanArchive(q, FailedSize)
    <3> DEFINE s == Archive(q, id, FailedSize)
    <3>0. id \in Ids /\ EntrySize \in Nat /\ FailedSize \in Nat
      <4>1. id \in Ids BY <1>1, <2>1 DEF Owns
      <4> QED BY <4>1, SizeAssumption
    <3>1. /\ s \in Queue /\ s.stream = q.stream /\ s.last = q.last /\ s.failed = q.failed \cup {id}
          /\ s.bytes = q.bytes /\ s.failedBytes = q.failedBytes + FailedSize
      <4>1. /\ s \in Queue /\ s.stream = q.stream /\ s.last = q.last /\ s.failed = q.failed \cup {id}
        BY <1>0, <3>0, ArchiveFacts
      <4>2. s.bytes = q.bytes /\ s.failedBytes = q.failedBytes + FailedSize
        BY <1>1, <3>0, ArchiveCounts
      <4> QED BY <4>1, <4>2
    <3>2. q' = Remove(s, id, EntrySize) /\ cleanup' = cleanup BY <1>5, <2>1 DEF Refuse
    <3> HIDE DEF s
    <3>3. /\ q'.stream = s.stream \ {id} /\ q'.last = s.last /\ q'.failed = s.failed
          /\ q'.failedBytes = s.failedBytes
          /\ q'.bytes = IF s.bytes > EntrySize THEN s.bytes - EntrySize ELSE 0
      <4>1. q'.stream = s.stream \ {id} /\ q'.last = s.last /\ q'.failed = s.failed
        <5>1. s \in Queue /\ q' = Remove(s, id, EntrySize) BY <3>1, <3>2
        <5> QED BY <3>0, <5>1, RemoveFacts
      <4>2. /\ q'.failedBytes = s.failedBytes
            /\ q'.bytes = IF s.bytes > EntrySize THEN s.bytes - EntrySize ELSE 0
        BY <3>0, <3>1, <3>2, RemoveCounts
      <4> QED BY <4>1, <4>2
    <3>4. q'.bytes = (S - EntrySize) + C /\ q'.failedBytes = F + FailedSize
      BY <1>2, <1>3, <2>1, <3>1, <3>3, SizeAssumption
    <3>5. BytesMatch' BY <1>3, <2>1, <3>1, <3>2, <3>3, <3>4 DEF BytesMatch, C
    <3>6. id <= q.last BY DEF Inv, NoFuture
    <3>7. Apart' BY <3>1, <3>2, <3>3, <3>6 DEF Counted, Apart
    <3> QED BY <3>5, <3>7 DEF Counted
  <2>2. CASE ~(Owns(w) /\ CanArchive(q, FailedSize))
    <3>1. UNCHANGED <<q, cleanup>> BY <1>5, <2>2 DEF Refuse
    <3> QED BY <3>1, CountedFrame DEF SameCounts
  <2> QED BY <2>1, <2>2
<1>6. CASE RetryLater(w)
  <2>1. SameCounts(q, q') BY <1>1, <1>6, CountsKept DEF RetryLater, SameCounts
  <2>2. q'.last = q.last
    <3>1. CASE Owns(w)
      <4>1. id \in Ids /\ w \in Consumers BY <1>1, <3>1 DEF Owns, Consumers
      <4> QED BY <1>1, <1>6, <3>1, <4>1, RetryFacts DEF RetryLater
    <3>2. CASE ~Owns(w) BY <1>6, <3>2 DEF RetryLater
    <3> QED BY <3>1, <3>2
  <2> QED BY <1>6, <2>1, <2>2, CountedFrame DEF RetryLater
<1> QED BY <1>4, <1>5, <1>6 DEF Settle

(* A hint goes with its bytes.                                             *)
LEMMA CountedSweep ==
    ASSUME Inv, Counted, NEW w \in Workers, FinishSweep(w)
    PROVE  Counted'
<1> DEFINE id == job[w].id
<1>1. q \in Queue /\ q.stream \in SUBSET Ids /\ cleanup \in SUBSET Ids /\ q.bytes \in Nat
  BY DEF Inv, TypeOK, Queue
<1>2. CASE id \notin q.stream /\ id \in cleanup
  <2>1. q' = ReleaseBytes(q, CleanupSize) /\ cleanup' = cleanup \ {id} BY <1>2 DEF FinishSweep
  <2>2. /\ q'.stream = q.stream /\ q'.last = q.last /\ q'.failed = q.failed
        /\ q'.failedBytes = q.failedBytes
        /\ q'.bytes = IF q.bytes > CleanupSize THEN q.bytes - CleanupSize ELSE 0
    BY <1>1, <1>2, <2>1, ReleaseFacts, ReleaseCounts, SizeAssumption
  <2>3. /\ Cardinality(cleanup) \in Nat /\ Cardinality(cleanup') = Cardinality(cleanup) - 1
        /\ Cardinality(cleanup) >= 1 /\ Cardinality(q.stream) \in Nat
    BY <1>1, <1>2, <2>1, Sizes
  <2>4. /\ CleanupSize * Cardinality(cleanup') = CleanupSize * Cardinality(cleanup) - CleanupSize
        /\ CleanupSize * Cardinality(cleanup) >= CleanupSize
        /\ CleanupSize * Cardinality(cleanup) \in Nat /\ EntrySize * Cardinality(q.stream) \in Nat
    BY <2>3, Products, SizeAssumption
  <2>5. q'.bytes = EntrySize * Cardinality(q.stream) + (CleanupSize * Cardinality(cleanup) - CleanupSize)
    BY <2>2, <2>4, SizeAssumption DEF Counted, BytesMatch
  <2>6. BytesMatch' BY <2>2, <2>4, <2>5 DEF Counted, BytesMatch
  <2>7. Apart' BY <2>1, <2>2 DEF Counted, Apart
  <2> QED BY <2>6, <2>7 DEF Counted
<1>3. CASE ~(id \notin q.stream /\ id \in cleanup)
  BY <1>3, CountedFrame DEF FinishSweep, SameCounts
<1> QED BY <1>2, <1>3

(* Every step keeps the counters.                                          *)
LEMMA CountedStep == Inv /\ Counted /\ [Next]_vars => Counted'
<1> SUFFICES ASSUME Inv, Counted, [Next]_vars PROVE Counted' OBVIOUS
<1>0. q \in Queue /\ q.read \in Nat BY DEF Inv, TypeOK, Queue
<1>1. CASE \E bad \in BOOLEAN : Enqueue(bad) BY <1>1, CountedEnqueue
<1>2. ASSUME NEW w \in Workers, Claim(w) PROVE Counted'
  <2>1. SameCounts(q, q') /\ cleanup' = cleanup
    BY <1>0, <1>2, CountsKept DEF Claim, TakeNew, TakeDue, TakeAbandoned, ClaimedBy
  <2>2. q'.last = q.last
    <3>0. w \in Consumers BY DEF Consumers
    <3>1. CASE TakeNew(w) BY <1>0, <3>0, <3>1, ReadFacts DEF TakeNew, CanRead
    <3>2. ASSUME NEW id \in Ids, TakeDue(w, id) PROVE q'.last = q.last BY <1>0, <3>0, <3>2, DueFacts DEF TakeDue
    <3>3. ASSUME NEW id \in Ids, TakeAbandoned(w, id) PROVE q'.last = q.last
      BY <1>0, <3>0, <3>3, ReclaimFacts DEF TakeAbandoned
    <3> QED BY <1>2, <3>1, <3>2, <3>3 DEF Claim
  <2> QED BY <2>1, <2>2, CountedFrame
<1>3. ASSUME NEW w \in Workers, Persist(w) PROVE Counted'
  <2>1. cleanup' = cleanup /\ (q' = q \/ (Owns(w) /\ q' = Claimed(q, job[w].id, w)))
    BY <1>3 DEF Persist, LockNode, CheckOwner, Commit, CommitUnseen, Effects, Reject, Fail
  <2>2. CASE q' = q BY <2>1, <2>2, CountedFrame DEF SameCounts
  <2>3. CASE Owns(w) /\ q' = Claimed(q, job[w].id, w)
    <3>1. job[w].id \in Ids /\ w \in Consumers BY <1>0, <2>3 DEF Owns, Queue, Consumers
    <3> QED BY <1>0, <2>1, <2>3, <3>1, ClaimedFacts, CountsKept, CountedFrame
  <2> QED BY <2>1, <2>2, <2>3
<1>4. ASSUME NEW w \in Workers, Settle(w) PROVE Counted' BY <1>4, CountedSettle
<1>5. ASSUME NEW w \in Workers, Pick(w) \/ Abandon(w) \/ LockForCleanup(w) \/ CheckLive(w) \/ DeleteReceipt(w)
      PROVE  Counted'
  <2>1. UNCHANGED <<q, cleanup>>
    BY <1>5 DEF Pick, PickHint, PickReceipt, Abandon, LockForCleanup, CheckLive, DeleteReceipt
  <2> QED BY <2>1, CountedFrame DEF SameCounts
<1>6. ASSUME NEW w \in Workers, FinishSweep(w) PROVE Counted' BY <1>6, CountedSweep
<1>7. ASSUME NEW w \in Workers, Crash(w) PROVE Counted'
  BY <1>0, <1>7, CountsKept, DisownFacts, CountedFrame DEF Crash
<1>8. ASSUME NEW w \in Workers, NEW c \in Consumers, CleanNames(w, c) PROVE Counted'
  BY <1>0, <1>8, CountsKept, NameFacts, CountedFrame DEF CleanNames
<1>9. CASE LoseRedis
  <2>1. q' = LostQueue(q) /\ cleanup' = {} BY <1>9 DEF LoseRedis
  <2>2. q'.stream = {} /\ q'.bytes = 0 /\ q'.failed = {} /\ q'.failedBytes = 0
    BY <2>1 DEF LostQueue, EmptyQueue
  <2>3. Cardinality({}) = 0 BY FS_EmptySet
  <2> QED BY <2>1, <2>2, <2>3, Products, SizeAssumption DEF Counted, BytesMatch, Apart
<1>10. ASSUME NEW id \in Ids, Time(id) PROVE Counted'
  <2>1. SameCounts(q, q') /\ cleanup' = cleanup BY <1>0, <1>10, CountsKept DEF Time, GoIdle, ComeDue
  <2>2. q'.last = q.last BY <1>0, <1>10, TimeFacts DEF Time, GoIdle, ComeDue
  <2> QED BY <2>1, <2>2, CountedFrame
<1>11. CASE UNCHANGED vars BY <1>11, CountedFrame DEF vars, SameCounts
<1> QED BY <1>1, <1>2, <1>3, <1>4, <1>5, <1>6, <1>7, <1>8, <1>9, <1>10, <1>11 DEF Next, Sweep

(* The report queue's budget neither leaks nor is released twice, whatever *)
(* former owners confirm, refuse or sweep: the counter is what the queued  *)
(* reports and the cleanup hints account for.                              *)
THEOREM ReportBytesMatch == Spec => []BytesMatch
<1>1. Init => Counted
  <2>1. Cardinality({}) = 0 BY FS_EmptySet
  <2> QED BY <2>1, SizeAssumption DEF Init, EmptyQueue, Counted, BytesMatch, Apart
<1>2. Counted => BytesMatch BY DEF Counted
<1> QED BY <1>1, <1>2, CountedStep, Invariance, PTL DEF Spec

-----------------------------------------------------------------------------
(* Nothing of a report outlives it, and nothing delivered is beyond reach. *)

LEMMA TidySettle ==
    ASSUME Inv, Tidy(q), NEW w \in Workers, Settle(w)
    PROVE  Tidy(q)'
<1> DEFINE id == job[w].id
<1>0. q \in Queue BY DEF Inv, TypeOK
<1>1. w \in Consumers /\ w # NoOne BY NamesAssumption DEF Consumers
<1>2. ASSUME Owns(w) PROVE id \in Ids /\ q.owner[id] # NoOne
  BY <1>0, <1>1, <1>2 DEF Owns, Owned, Queue
<1>3. CASE q' = q BY <1>3
<1>4. CASE Confirm(w)
  <2>1. CASE Owns(w)
    <3>1. q' = Remove(q, id, EntrySize - CleanupSize) BY <1>4, <2>1 DEF Confirm
    <3>2. EntrySize - CleanupSize \in Nat BY SizeAssumption
    <3>3. Tidy(Remove(q, id, EntrySize - CleanupSize)) BY <1>0, <1>2, <2>1, <3>2, TidyRemove
    <3> QED BY <3>1, <3>3
  <2> QED BY <1>3, <1>4, <2>1 DEF Confirm
<1>5. CASE Refuse(w)
  <2>1. CASE Owns(w) /\ CanArchive(q, FailedSize)
    <3> DEFINE t == Archive(q, id, FailedSize)
    <3>1. q' = Remove(t, id, EntrySize) BY <1>5, <2>1 DEF Refuse
    <3>2. FailedSize \in Nat /\ EntrySize \in Nat BY SizeAssumption
    <3>3. t \in Queue /\ t.owner = q.owner BY <1>0, <1>2, <2>1, <3>2, ArchiveFacts
    <3>4. Tidy(t) BY <1>0, <1>2, <2>1, <3>2, TidyBudgets
    <3> HIDE DEF t
    <3>5. Tidy(Remove(t, id, EntrySize)) BY <1>2, <2>1, <3>2, <3>3, <3>4, TidyRemove
    <3> QED BY <3>1, <3>5
  <2>2. CASE ~(Owns(w) /\ CanArchive(q, FailedSize)) BY <1>3, <1>5, <2>2 DEF Refuse
  <2> QED BY <2>1, <2>2
<1>6. CASE RetryLater(w)
  <2>1. CASE Owns(w)
    <3>1. q' = Retry(q, id, w) BY <1>6, <2>1 DEF RetryLater
    <3>2. Tidy(Retry(q, id, w)) BY <1>0, <1>1, <1>2, <2>1, TidyClaims
    <3> QED BY <3>1, <3>2
  <2> QED BY <1>3, <1>6, <2>1 DEF RetryLater
<1> QED BY <1>4, <1>5, <1>6 DEF Settle

LEMMA TidyStep == Inv /\ Tidy(q) /\ [Next]_vars => Tidy(q)'
<1> SUFFICES ASSUME Inv, Tidy(q), [Next]_vars PROVE Tidy(q)' OBVIOUS
<1>0. q \in Queue BY DEF Inv, TypeOK
<1>1. CASE \E bad \in BOOLEAN : Enqueue(bad)
  <2>1. q' = AddEntry(q, EntrySize) /\ q.last < MaxAppends BY <1>1 DEF Enqueue
  <2>2. Tidy(AddEntry(q, EntrySize)) BY <1>0, <2>1, TidyAppend, SizeAssumption
  <2> QED BY <2>1, <2>2
<1>2. ASSUME NEW w \in Workers, Claim(w) PROVE Tidy(q)'
  <2>0. w \in Consumers BY DEF Consumers
  <2>1. CASE TakeNew(w)
    <3>1. q' = ReadNext(q, w) /\ CanRead(q) BY <2>1 DEF TakeNew
    <3>2. Tidy(ReadNext(q, w)) BY <1>0, <2>0, <3>1, TidyRead
    <3> QED BY <3>1, <3>2
  <2>2. ASSUME NEW id \in Ids, TakeDue(w, id) PROVE Tidy(q)'
    <3>1. q' = ClaimDue(q, id, w) BY <2>2 DEF TakeDue
    <3>2. Tidy(ClaimDue(q, id, w)) BY <1>0, <2>0, TidyClaims
    <3> QED BY <3>1, <3>2
  <2>3. ASSUME NEW id \in Ids, TakeAbandoned(w, id) PROVE Tidy(q)'
    <3>1. q' = Reclaim(q, id, w) /\ q.owner[id] # NoOne BY <2>3 DEF TakeAbandoned, CanReclaim
    <3>2. Tidy(Reclaim(q, id, w)) BY <1>0, <2>0, <3>1, TidyClaims
    <3> QED BY <3>1, <3>2
  <2> QED BY <1>2, <2>1, <2>2, <2>3 DEF Claim
<1>3. ASSUME NEW w \in Workers, Persist(w) PROVE Tidy(q)'
  <2>1. q' = q \/ (Owns(w) /\ q' = Claimed(q, job[w].id, w))
    BY <1>3 DEF Persist, LockNode, CheckOwner, Commit, CommitUnseen, Effects, Reject, Fail
  <2>2. CASE q' = q BY <2>2
  <2>3. CASE Owns(w) /\ q' = Claimed(q, job[w].id, w)
    <3>1. w \in Consumers /\ w # NoOne BY NamesAssumption DEF Consumers
    <3>2. job[w].id \in Ids /\ q.owner[job[w].id] # NoOne BY <1>0, <2>3, <3>1 DEF Owns, Owned, Queue
    <3>3. Tidy(Claimed(q, job[w].id, w)) BY <1>0, <3>1, <3>2, TidyClaims
    <3> QED BY <2>3, <3>3
  <2> QED BY <2>1, <2>2, <2>3
<1>4. ASSUME NEW w \in Workers, Settle(w) PROVE Tidy(q)' BY <1>4, TidySettle
<1>5. ASSUME NEW w \in Workers, Pick(w) \/ Abandon(w) \/ LockForCleanup(w) \/ CheckLive(w) \/ DeleteReceipt(w)
      PROVE  Tidy(q)'
  <2>1. q' = q BY <1>5 DEF Pick, PickHint, PickReceipt, Abandon, LockForCleanup, CheckLive, DeleteReceipt
  <2> QED BY <2>1
<1>6. ASSUME NEW w \in Workers, FinishSweep(w) PROVE Tidy(q)'
  <2>1. q' = q \/ q' = ReleaseBytes(q, CleanupSize) BY <1>6 DEF FinishSweep
  <2>2. CASE q' = q BY <2>2
  <2>3. CASE q' = ReleaseBytes(q, CleanupSize)
    <3>1. Tidy(ReleaseBytes(q, CleanupSize)) BY <1>0, TidyBudgets, SizeAssumption
    <3> QED BY <2>3, <3>1
  <2> QED BY <2>1, <2>2, <2>3
<1>7. ASSUME NEW w \in Workers, Crash(w) PROVE Tidy(q)'
  <2>1. q' = Disown(q, w) BY <1>7 DEF Crash
  <2>2. Tidy(Disown(q, w)) BY <1>0, TidyNames
  <2> QED BY <2>1, <2>2
<1>8. ASSUME NEW w \in Workers, NEW c \in Consumers, CleanNames(w, c) PROVE Tidy(q)'
  <2>1. q' = RemoveName(q, c) /\ NameIsEmpty(q, c) BY <1>8 DEF CleanNames
  <2>2. Tidy(RemoveName(q, c)) BY <1>0, <2>1, TidyNames
  <2> QED BY <2>1, <2>2
<1>9. CASE LoseRedis
  <2>1. q' = LostQueue(q) BY <1>9 DEF LoseRedis
  <2>2. Tidy(LostQueue(q)) BY <1>0, TidyEmpty
  <2> QED BY <2>1, <2>2
<1>10. ASSUME NEW id \in Ids, Time(id) PROVE Tidy(q)'
  <2>1. CASE GoIdle(id)
    <3>1. q' = GoesIdle(q, id) BY <2>1 DEF GoIdle
    <3>2. Tidy(GoesIdle(q, id)) BY <1>0, TidyTime
    <3> QED BY <3>1, <3>2
  <2>2. CASE ComeDue(id)
    <3>1. q' = ComesDue(q, id) /\ id \in q.later BY <2>2 DEF ComeDue
    <3>2. Tidy(ComesDue(q, id)) BY <1>0, <3>1, TidyTime
    <3> QED BY <3>1, <3>2
  <2> QED BY <1>10, <2>1, <2>2 DEF Time
<1>11. CASE UNCHANGED vars BY <1>11 DEF vars
<1> QED BY <1>1, <1>2, <1>3, <1>4, <1>5, <1>6, <1>7, <1>8, <1>9, <1>10, <1>11 DEF Next, Sweep

(* Whatever crashes, retries, reclaims, sweeps and losses of Redis come    *)
(* between: retry state and positions belong to queued reports, and every  *)
(* delivered report that is still queued is in the pending list, where a   *)
(* reclaim finds it.                                                       *)
THEOREM ReportNothingStranded == Spec => []NothingStranded
<1>1. Init => Tidy(q) BY TidyEmpty DEF Init
<1>2. Inv /\ Tidy(q) => NothingStranded
  <2> SUFFICES ASSUME Inv, Tidy(q) PROVE NothingStranded OBVIOUS
  <2>1. q.later \cup q.due \cup q.tried \subseteq q.stream BY DEF Tidy, Waits
  <2>2. positions = q.stream BY DEF Inv, PositionsAgree
  <2>3. \A id \in Ids : q.owner[id] # NoOne <=> id \in q.stream /\ id <= q.read BY DEF Tidy
  <2> QED BY <2>1, <2>2, <2>3 DEF NothingStranded
<1> QED BY <1>1, <1>2, TidyStep, Invariance, PTL DEF Spec

(***************************************************************************)
(* Cache tasks.                                                            *)
(***************************************************************************)
TaskRow == [gen : Nat, status : {"queued", "running", "retrying", "failed", "completed"},
            owner : TaskWorkers \cup {None}, live : BOOLEAN, failures : Nat]
TargetRow == [status : {"pending", "sent", "failed", "completed"}, attempt : Nat]
CacheCommand == [node : Nodes, gen : Nat, attempt : Nat]
CacheResult == [node : Nodes, gen : Nat, attempt : Nat, ok : BOOLEAN]
WorkerHand == [pc : {"idle", "select", "stage", "enqueue", "wait", "renew", "resend", "finish"}, gen : Nat,
               todo : SUBSET Nodes, old : SUBSET Nodes, sent : SUBSET CacheCommand, send : SUBSET CacheCommand]
NodeHand == [running : CacheCommand \cup {None}, results : SUBSET CacheResult]

TasksTypes ==
  /\ task \in TaskRow /\ target \in [Nodes -> TargetRow] /\ worker \in [TaskWorkers -> WorkerHand]
  /\ redis \in [Nodes -> CacheCommand \cup {None}] /\ node \in [Nodes -> NodeHand]
  /\ reports \subseteq CacheResult /\ supports \subseteq Nodes /\ executed \in [Nodes -> SUBSET Nat]
  /\ attempts \in Nat /\ creates \in Nat /\ faults \in Nat

\* A result that says so was carried out, for the generation it names.
IsTrue(r) == r.ok => r.gen \in executed[r.node]
ResultsTrue ==
  /\ \A r \in reports : IsTrue(r)
  /\ \A n \in Nodes : \A r \in node[n].results : r.node = n /\ IsTrue(r)

\* A target is completed by the generation of its task; attempts are counted.
TargetsDone ==
  \A n \in Nodes : /\ target[n].status = "completed" => task.gen \in executed[n]
                   /\ target[n].attempt <= attempts

\* A lease has an owner, an owned task runs, and it failed for good after its
\* last attempt only.
LeaseOK ==
  /\ task.live => task.owner \in TaskWorkers
  /\ task.owner # None => task.status = "running"
  /\ task.failures <= MaxFailures + 1 /\ (task.status # "failed" => task.failures <= MaxFailures)

TasksInv == TasksTypes /\ ResultsTrue /\ TargetsDone /\ LeaseOK /\ DoneEverywhere

LEMMA TasksInitHolds == TasksInit => TasksInv
<1> SUFFICES ASSUME TasksInit PROVE TasksInv
  OBVIOUS
<1>1. NewTarget \in TargetRow /\ NewTarget.status = "pending" /\ NewTarget.attempt = 0
  BY DEF NewTarget, TargetRow
<1>2. IdleWorker \in WorkerHand
  BY DEF IdleWorker, WorkerHand
<1>3. Resting \in NodeHand /\ Resting.results = {}
  BY DEF Resting, NodeHand
<1>4. task \in TaskRow
  BY CacheTasksAssumption DEF TasksInit, TaskRow
<1>5. TasksTypes
  BY <1>1, <1>2, <1>3, <1>4, CacheTasksAssumption DEF TasksInit, TasksTypes
<1>6. ResultsTrue
  BY <1>3 DEF TasksInit, ResultsTrue
<1>7. TargetsDone
  BY <1>1 DEF TasksInit, TargetsDone
<1>8. LeaseOK /\ DoneEverywhere
  BY CacheTasksAssumption DEF TasksInit, LeaseOK, DoneEverywhere
<1> QED
  BY <1>5, <1>6, <1>7, <1>8 DEF TasksInv

\* Steps of a worker that leave rows, nodes and reports alone.
LEMMA WorkerMoves ==
  ASSUME TasksInv, UNCHANGED <<task, target, node, reports, attempts, creates, executed>>,
         worker' \in [TaskWorkers -> WorkerHand], redis' \in [Nodes -> CacheCommand \cup {None}],
         supports' \subseteq Nodes, faults' \in Nat
  PROVE  TasksInv' /\ EndsByItsOwner
<1>1. TasksTypes'
  BY DEF TasksInv, TasksTypes
<1>2. ResultsTrue' /\ TargetsDone' /\ LeaseOK' /\ DoneEverywhere'
  BY DEF TasksInv, ResultsTrue, IsTrue, TargetsDone, LeaseOK, DoneEverywhere
<1> QED
  BY <1>1, <1>2 DEF TasksInv, EndsByItsOwner

LEMMA FaultCounted ==
  ASSUME TasksInv, NEW k, Spend(k)
  PROVE  faults' \in Nat
BY DEF TasksInv, TasksTypes, Spend

\* Steps on the task row that leave targets, nodes and reports alone.
LEMMA TaskMoves ==
  ASSUME TasksInv, UNCHANGED <<target, node, reports, supports, redis, attempts, executed>>,
         worker' \in [TaskWorkers -> WorkerHand], creates' \in Nat, faults' \in Nat,
         NEW t \in TaskRow, task' = t, t.gen = task.gen,
         t.live => t.owner \in TaskWorkers, t.owner # None => t.status = "running",
         t.failures <= MaxFailures + 1, t.status # "failed" => t.failures <= MaxFailures,
         t.status = "completed" => task.status = "completed" \/ AllCompleted
  PROVE  TasksInv'
<1>1. TasksTypes'
  BY DEF TasksInv, TasksTypes
<1>2. ResultsTrue' /\ TargetsDone' /\ LeaseOK'
  BY DEF TasksInv, ResultsTrue, IsTrue, TargetsDone, LeaseOK
<1>3. DoneEverywhere'
  <2>1. DOMAIN target = Nodes
    BY DEF TasksInv, TasksTypes
  <2> QED
    BY <2>1 DEF TasksInv, DoneEverywhere, AllCompleted, TargetsDone
<1> QED
  BY <1>1, <1>2, <1>3 DEF TasksInv

LEMMA CreateKeeps ==
  ASSUME TasksInv, Create
  PROVE  TasksInv' /\ EndsByItsOwner
<1> DEFINE g == task.gen + 1
<1>1. /\ task \in TaskRow /\ g \in Nat /\ creates \in Nat
      /\ task' = [task EXCEPT !.gen = g, !.status = "queued", !.owner = None, !.live = FALSE, !.failures = 0]
  BY DEF TasksInv, TasksTypes, Create, TaskRow
<1> HIDE DEF g
<1>2. /\ task' \in TaskRow /\ task'.status = "queued" /\ task'.owner = None /\ task'.live = FALSE /\ task'.failures = 0
  BY <1>1 DEF TaskRow
<1>3. NewTarget \in TargetRow /\ NewTarget.status = "pending" /\ NewTarget.attempt = 0
  BY DEF NewTarget, TargetRow
<1>4. TasksTypes'
  BY <1>1, <1>2, <1>3 DEF TasksInv, TasksTypes, Create
<1>5. ResultsTrue'
  BY DEF TasksInv, ResultsTrue, IsTrue, Create
<1>6. TargetsDone'
  BY <1>3 DEF TasksInv, TasksTypes, TargetsDone, Create
<1>7. LeaseOK' /\ DoneEverywhere'
  BY <1>2, CacheTasksAssumption DEF LeaseOK, DoneEverywhere
<1> QED
  BY <1>2, <1>4, <1>5, <1>6, <1>7 DEF TasksInv, EndsByItsOwner

LEMMA RetryKeeps ==
  ASSUME TasksInv, RetryTask
  PROVE  TasksInv' /\ EndsByItsOwner
<1> DEFINE t == [task EXCEPT !.status = "queued", !.failures = 0, !.owner = None]
<1>1. /\ task \in TaskRow /\ ~task.live /\ creates' \in Nat /\ task' = t
      /\ UNCHANGED <<target, worker, redis, node, reports, supports, attempts, faults, executed>>
  BY DEF TasksInv, TasksTypes, RetryTask
<1>2. /\ t \in TaskRow /\ t.status = "queued" /\ t.owner = None /\ ~t.live /\ t.failures = 0 /\ t.gen = task.gen
  BY <1>1 DEF TaskRow
<1>3. 0 <= MaxFailures /\ 0 <= MaxFailures + 1
  BY CacheTasksAssumption
<1>4. worker' \in [TaskWorkers -> WorkerHand] /\ faults' \in Nat
  BY <1>1 DEF TasksInv, TasksTypes
<1> HIDE DEF t
<1>5. TasksInv'
  BY <1>1, <1>2, <1>3, <1>4, TaskMoves
<1> QED
  BY <1>1, <1>2, <1>5 DEF EndsByItsOwner

LEMMA ClaimKeeps ==
  ASSUME TasksInv, NEW w \in TaskWorkers, ClaimTask(w)
  PROVE  TasksInv' /\ EndsByItsOwner
<1> DEFINE t == [task EXCEPT !.owner = w, !.live = TRUE, !.status = "running"]
<1>1. /\ task \in TaskRow /\ task.status \in {"queued", "running", "retrying"} /\ task' = t
      /\ UNCHANGED <<target, redis, node, reports, supports, attempts, creates, faults, executed>>
      /\ LeaseOK /\ w # None
  BY CacheTasksAssumption DEF TasksInv, TasksTypes, ClaimTask
<1>2. /\ t \in TaskRow /\ t.status = "running" /\ t.owner = w /\ t.failures = task.failures /\ t.gen = task.gen
  BY <1>1 DEF TaskRow
<1>3. worker' \in [TaskWorkers -> WorkerHand]
  <2>1. [IdleWorker EXCEPT !.pc = "select", !.gen = task.gen] \in WorkerHand
    BY <1>1 DEF IdleWorker, WorkerHand, TaskRow
  <2> QED
    BY <2>1 DEF TasksInv, TasksTypes, ClaimTask
<1>4. creates' \in Nat /\ faults' \in Nat
  BY <1>1 DEF TasksInv, TasksTypes
<1> HIDE DEF t
<1>5. TasksInv'
  BY <1>1, <1>2, <1>3, <1>4, TaskMoves DEF LeaseOK
<1> QED
  BY <1>1, <1>2, <1>5 DEF EndsByItsOwner

LEMMA SelectKeeps ==
  ASSUME TasksInv, NEW w \in TaskWorkers, Select(w)
  PROVE  TasksInv' /\ EndsByItsOwner
<1>1. worker[w] \in WorkerHand /\ Unfinished(w) \subseteq Nodes /\ Nodes \ supports \subseteq Nodes
  BY DEF TasksInv, TasksTypes, Unfinished
<1>2. worker' \in [TaskWorkers -> WorkerHand]
  BY <1>1 DEF TasksInv, TasksTypes, Select, WorkerHand
<1> QED
  BY <1>2, WorkerMoves DEF TasksInv, TasksTypes, Select

LEMMA StagedKeeps ==
  ASSUME TasksInv, NEW w \in TaskWorkers, Staged(w)
  PROVE  TasksInv' /\ EndsByItsOwner
<1>1. worker' \in [TaskWorkers -> WorkerHand]
  BY DEF TasksInv, TasksTypes, Staged, WorkerHand
<1> QED
  BY <1>1, WorkerMoves DEF TasksInv, TasksTypes, Staged

LEMMA EnqueueKeeps ==
  ASSUME TasksInv, NEW w \in TaskWorkers, EnqueueCommand(w)
  PROVE  TasksInv' /\ EndsByItsOwner
<1>1. worker[w] \in WorkerHand /\ worker[w].send \subseteq CacheCommand /\ worker[w].sent \subseteq CacheCommand
      /\ worker \in [TaskWorkers -> WorkerHand] /\ redis \in [Nodes -> CacheCommand \cup {None}]
  BY DEF TasksInv, TasksTypes, WorkerHand
<1>2. PICK c \in worker[w].send :
        /\ redis' = [redis EXCEPT ![c.node] = c]
        /\ worker' = [worker EXCEPT ![w].send = @ \ {c}, ![w].sent = @ \cup {c},
                        ![w].pc = IF worker[w].send # {c} THEN @ ELSE IF @ = "enqueue" THEN "stage" ELSE "wait"]
  BY DEF EnqueueCommand
<1>3. redis' \in [Nodes -> CacheCommand \cup {None}]
  BY <1>1, <1>2 DEF CacheCommand
<1>4. worker' \in [TaskWorkers -> WorkerHand]
  BY <1>1, <1>2 DEF WorkerHand
<1> QED
  BY <1>3, <1>4, WorkerMoves DEF TasksInv, TasksTypes, EnqueueCommand

LEMMA ThrowKeeps ==
  ASSUME TasksInv, NEW w \in TaskWorkers, Throw(w)
  PROVE  TasksInv' /\ EndsByItsOwner
<1>1. IdleWorker \in WorkerHand
  BY DEF IdleWorker, WorkerHand
<1>2. worker' \in [TaskWorkers -> WorkerHand] /\ faults' \in Nat
  BY <1>1, FaultCounted DEF TasksInv, TasksTypes, Throw
<1> QED
  BY <1>2, WorkerMoves DEF TasksInv, TasksTypes, Throw

LEMMA PollKeeps ==
  ASSUME TasksInv, NEW w \in TaskWorkers, Poll(w)
  PROVE  TasksInv' /\ EndsByItsOwner
<1>1. worker \in [TaskWorkers -> WorkerHand] /\ worker[w] \in WorkerHand /\ faults \in Nat
      /\ {c \in worker[w].sent : <<c.node, c.attempt>> \in Pending(w)} \subseteq CacheCommand
  BY DEF TasksInv, TasksTypes, WorkerHand
<1>2. worker' \in [TaskWorkers -> WorkerHand]
  <2>1. CASE worker' = [worker EXCEPT ![w].pc = "finish"]
    BY <1>1, <2>1 DEF WorkerHand
  <2>2. CASE worker' = [worker EXCEPT ![w].pc = "renew", ![w].send = {c \in worker[w].sent : <<c.node, c.attempt>> \in Pending(w)}]
    BY <1>1, <2>2 DEF WorkerHand
  <2> QED
    BY <2>1, <2>2 DEF Poll
<1>3. faults' \in Nat
  BY <1>1, FaultCounted DEF Poll
<1> QED
  BY <1>2, <1>3, WorkerMoves DEF TasksInv, TasksTypes, Poll

LEMMA RenewKeeps ==
  ASSUME TasksInv, NEW w \in TaskWorkers, Renew(w)
  PROVE  TasksInv' /\ EndsByItsOwner
<1>1. /\ worker \in [TaskWorkers -> WorkerHand] /\ worker[w] \in WorkerHand /\ task \in TaskRow /\ LeaseOK
      /\ IdleWorker \in WorkerHand /\ creates \in Nat /\ faults \in Nat
      /\ UNCHANGED <<target, redis, node, reports, supports, attempts, creates, faults, executed>>
  BY DEF TasksInv, TasksTypes, IdleWorker, WorkerHand, Renew
<1>2. CASE OwnsTask(w)
  <2> DEFINE t == [task EXCEPT !.live = TRUE]
  <2>1. task' = t /\ worker' = [worker EXCEPT ![w].pc = IF worker[w].send = {} THEN "wait" ELSE "resend"] /\ task.owner = w
    BY <1>2 DEF Renew, OwnsTask
  <2>2. /\ t \in TaskRow /\ t.gen = task.gen /\ t.owner = w /\ t.status = task.status /\ t.failures = task.failures
    BY <1>1, <2>1 DEF TaskRow
  <2>3. worker' \in [TaskWorkers -> WorkerHand]
    BY <1>1, <2>1 DEF WorkerHand
  <2> HIDE DEF t
  <2>4. TasksInv'
    BY <1>1, <2>1, <2>2, <2>3, TaskMoves DEF LeaseOK
  <2> QED
    BY <2>1, <2>2, <2>4, CacheTasksAssumption DEF EndsByItsOwner
<1>3. CASE ~OwnsTask(w)
  <2>1. task' = task /\ worker' = [worker EXCEPT ![w] = IdleWorker]
    BY <1>3 DEF Renew
  <2>2. worker' \in [TaskWorkers -> WorkerHand]
    BY <1>1, <2>1
  <2> QED
    BY <1>1, <2>1, <2>2, WorkerMoves DEF TasksInv, TasksTypes
<1> QED
  BY <1>2, <1>3

LEMMA FinishKeeps ==
  ASSUME TasksInv, NEW w \in TaskWorkers, Finish(w)
  PROVE  TasksInv' /\ EndsByItsOwner
<1>1. /\ worker \in [TaskWorkers -> WorkerHand] /\ task \in TaskRow /\ LeaseOK
      /\ IdleWorker \in WorkerHand /\ creates \in Nat /\ faults \in Nat
      /\ UNCHANGED <<target, redis, node, reports, supports, attempts, creates, faults, executed>>
      /\ worker' = [worker EXCEPT ![w] = IdleWorker] /\ worker[w].pc = "finish"
  BY DEF TasksInv, TasksTypes, IdleWorker, WorkerHand, Finish
<1>2. worker' \in [TaskWorkers -> WorkerHand]
  BY <1>1
<1>3. CASE ~OwnsTask(w)
  <2>1. task' = task
    BY <1>3 DEF Finish
  <2> QED
    BY <1>1, <1>2, <2>1, WorkerMoves DEF TasksInv, TasksTypes
<1>4. CASE OwnsTask(w)
  <2> DEFINE f == IF AllCompleted THEN 0 ELSE task.failures + 1
             t == [task EXCEPT !.status = Outcome(AllCompleted), !.failures = f, !.owner = None, !.live = FALSE]
  <2>1. task' = t /\ task.owner = w /\ w # None
    BY <1>4, CacheTasksAssumption DEF Finish, OwnsTask
  <2>2. task.status = "running" /\ task.failures \in Nat /\ task.failures <= MaxFailures /\ MaxFailures \in Nat
    BY <1>1, <2>1, CacheTasksAssumption DEF LeaseOK, TaskRow
  <2>3. /\ f \in Nat /\ f <= MaxFailures + 1
        /\ Outcome(AllCompleted) \in {"completed", "failed", "retrying"}
        /\ Outcome(AllCompleted) # "failed" => f <= MaxFailures
        /\ Outcome(AllCompleted) = "completed" => AllCompleted
    BY <2>2 DEF Outcome
  <2> HIDE DEF f
  <2>4. /\ t \in TaskRow /\ t.status = Outcome(AllCompleted) /\ t.owner = None /\ ~t.live /\ t.failures = f /\ t.gen = task.gen
    BY <1>1, <2>3 DEF TaskRow
  <2> HIDE DEF t
  <2>5. TasksInv'
    BY <1>1, <1>2, <2>1, <2>3, <2>4, TaskMoves
  <2> QED
    BY <1>1, <2>1, <2>2, <2>5 DEF EndsByItsOwner
<1> QED
  BY <1>3, <1>4

LEMMA LapseKeeps ==
  ASSUME TasksInv, Lapse
  PROVE  TasksInv' /\ EndsByItsOwner
<1> DEFINE t == [task EXCEPT !.live = FALSE]
<1>1. /\ task \in TaskRow /\ LeaseOK /\ task' = t /\ creates \in Nat /\ faults \in Nat
      /\ worker \in [TaskWorkers -> WorkerHand]
      /\ UNCHANGED <<target, worker, redis, node, reports, supports, attempts, creates, executed>>
  BY DEF TasksInv, TasksTypes, Lapse
<1>2. /\ t \in TaskRow /\ ~t.live /\ t.gen = task.gen /\ t.owner = task.owner /\ t.status = task.status
      /\ t.failures = task.failures
  BY <1>1 DEF TaskRow
<1>3. faults' \in Nat
  BY <1>1, FaultCounted DEF Lapse
<1> HIDE DEF t
<1>4. TasksInv'
  BY <1>1, <1>2, <1>3, TaskMoves DEF LeaseOK
<1> QED
  BY <1>1, <1>2, <1>4 DEF EndsByItsOwner

LEMMA StageKeeps ==
  ASSUME TasksInv, NEW w \in TaskWorkers, NEW n \in Nodes, Stage(w, n)
  PROVE  TasksInv' /\ EndsByItsOwner
<1>1. /\ worker \in [TaskWorkers -> WorkerHand] /\ worker[w] \in WorkerHand /\ target \in [Nodes -> TargetRow]
      /\ target[n] \in TargetRow /\ attempts \in Nat /\ task \in TaskRow /\ TargetsDone
      /\ UNCHANGED <<task, redis, node, reports, supports, creates, faults, executed>>
  BY DEF TasksInv, TasksTypes, Stage
<1>2. /\ worker' \in [TaskWorkers -> WorkerHand] /\ target' \in [Nodes -> TargetRow] /\ attempts' \in Nat
      /\ attempts <= attempts'
      /\ \A m \in Nodes : \/ target'[m] = target[m]
                          \/ target'[m].status # "completed" /\ target'[m].attempt <= attempts'
  <2>1. CASE /\ target' = IF task.gen = worker[w].gen THEN [target EXCEPT ![n].status = "failed"] ELSE target
             /\ worker' = [worker EXCEPT ![w].todo = @ \ {n}] /\ UNCHANGED attempts
    <3>1. worker' \in [TaskWorkers -> WorkerHand]
      BY <1>1, <2>1 DEF WorkerHand
    <3>2. target[n].attempt \in Nat /\ target[n].attempt <= attempts
      BY <1>1 DEF TargetsDone, TargetRow
    <3>3. [target[n] EXCEPT !.status = "failed"] \in TargetRow
      BY <1>1 DEF TargetRow
    <3>4. target' \in [Nodes -> TargetRow]
          /\ \A m \in Nodes : \/ target'[m] = target[m]
                              \/ target'[m].status # "completed" /\ target'[m].attempt <= attempts'
      BY <1>1, <2>1, <3>2, <3>3 DEF TargetRow
    <3> QED
      BY <1>1, <2>1, <3>1, <3>4
  <2>2. CASE /\ attempts' = attempts + 1
             /\ target' = [target EXCEPT ![n] = [status |-> "sent", attempt |-> attempts + 1]]
             /\ worker' = [worker EXCEPT ![w].pc = "enqueue", ![w].todo = @ \ {n},
                             ![w].send = {[node |-> n, gen |-> worker[w].gen, attempt |-> attempts + 1]}]
    <3>1. attempts + 1 \in Nat /\ attempts <= attempts + 1
      BY <1>1
    <3>2. [node |-> n, gen |-> worker[w].gen, attempt |-> attempts + 1] \in CacheCommand
      BY <1>1, <3>1 DEF CacheCommand, WorkerHand
    <3>3. worker' \in [TaskWorkers -> WorkerHand]
      BY <1>1, <2>2, <3>2 DEF WorkerHand
    <3>4. [status |-> "sent", attempt |-> attempts + 1] \in TargetRow
      BY <3>1 DEF TargetRow
    <3> QED
      BY <1>1, <2>2, <3>1, <3>3, <3>4
  <2>3. CASE worker' = [worker EXCEPT ![w].todo = @ \ {n}] /\ UNCHANGED <<target, attempts>>
    BY <1>1, <2>3 DEF WorkerHand
  <2> QED
    BY <2>1, <2>2, <2>3 DEF Stage
<1>3. TasksTypes'
  BY <1>1, <1>2 DEF TasksInv, TasksTypes
<1>4. TargetsDone'
  <2> SUFFICES ASSUME NEW m \in Nodes
               PROVE  (target'[m].status = "completed" => task.gen \in executed[m]) /\ target'[m].attempt <= attempts'
    BY <1>1 DEF TargetsDone
  <2>1. target[m].attempt \in Nat /\ target[m].attempt <= attempts /\ (target[m].status = "completed" => task.gen \in executed[m])
    BY <1>1 DEF TargetsDone, TargetRow
  <2>2. target[m].attempt <= attempts'
    BY <1>1, <1>2, <2>1
  <2> QED
    BY <1>2, <2>1, <2>2
<1>5. ResultsTrue' /\ LeaseOK'
  BY <1>1 DEF TasksInv, ResultsTrue, IsTrue, LeaseOK
<1>6. DoneEverywhere'
  BY <1>1, <1>2 DEF TasksInv, DoneEverywhere
<1> QED
  BY <1>1, <1>3, <1>4, <1>5, <1>6 DEF TasksInv, EndsByItsOwner

\* What a node carries out only adds to what was carried out.
LEMMA NodeMoves ==
  ASSUME TasksInv, UNCHANGED <<task, target, worker, redis, supports, attempts, creates>>, faults' \in Nat,
         node' \in [Nodes -> NodeHand], reports' \subseteq CacheResult, executed' \in [Nodes -> SUBSET Nat],
         \A n \in Nodes : executed[n] \subseteq executed'[n],
         ResultsTrue'
  PROVE  TasksInv' /\ EndsByItsOwner
<1>1. TasksTypes'
  BY DEF TasksInv, TasksTypes
<1>2. TargetsDone' /\ LeaseOK'
  BY DEF TasksInv, TargetsDone, LeaseOK
<1>3. DoneEverywhere'
  <2>1. DOMAIN target = Nodes
    BY DEF TasksInv, TasksTypes
  <2> QED
    BY <2>1 DEF TasksInv, DoneEverywhere
<1> QED
  BY <1>1, <1>2, <1>3 DEF TasksInv, EndsByItsOwner

LEMMA DeliverKeeps ==
  ASSUME TasksInv, NEW n \in Nodes, Deliver(n)
  PROVE  TasksInv' /\ EndsByItsOwner
<1>1. /\ node \in [Nodes -> NodeHand] /\ node[n] \in NodeHand /\ redis[n] \in CacheCommand \cup {None} /\ ResultsTrue
      /\ node' = [node EXCEPT ![n].running = redis[n]]
      /\ UNCHANGED <<task, target, worker, redis, reports, supports, attempts, creates, faults, executed>>
  BY DEF TasksInv, TasksTypes, Deliver
<1>2. node' \in [Nodes -> NodeHand] /\ \A m \in Nodes : node'[m].results = node[m].results
  BY <1>1 DEF NodeHand
<1>3. ResultsTrue'
  BY <1>1, <1>2 DEF ResultsTrue, IsTrue
<1> QED
  BY <1>1, <1>2, <1>3, NodeMoves DEF TasksInv, TasksTypes

\* A node answers and forgets its command; it remembers one more result at most.
LEMMA NodeAnswers ==
  ASSUME TasksInv, NEW n \in Nodes, UNCHANGED <<task, target, worker, redis, supports, attempts, creates>>, faults' \in Nat,
         NEW h \in NodeHand, node' = [node EXCEPT ![n] = h],
         NEW new \in SUBSET CacheResult, h.results \subseteq node[n].results \cup new,
         reports' \subseteq reports \cup node[n].results \cup new,
         NEW done \in SUBSET Nat, executed' = [executed EXCEPT ![n] = executed[n] \cup done],
         \A r \in new : r.node = n /\ (r.ok => r.gen \in executed[n] \cup done)
  PROVE  TasksInv' /\ EndsByItsOwner
<1>1. /\ node \in [Nodes -> NodeHand] /\ executed \in [Nodes -> SUBSET Nat] /\ ResultsTrue /\ reports \subseteq CacheResult
      /\ node[n].results \subseteq CacheResult
  BY DEF TasksInv, TasksTypes, NodeHand
<1>2. /\ node' \in [Nodes -> NodeHand] /\ node'[n] = h /\ \A m \in Nodes \ {n} : node'[m] = node[m]
      /\ executed' \in [Nodes -> SUBSET Nat] /\ executed'[n] = executed[n] \cup done
      /\ \A m \in Nodes \ {n} : executed'[m] = executed[m]
  BY <1>1
<1>3. \A m \in Nodes : executed[m] \subseteq executed'[m]
  BY <1>2
<1>4. \A r \in CacheResult : IsTrue(r) => IsTrue(r)'
  BY <1>3 DEF IsTrue, CacheResult
<1>5. \A r \in new : IsTrue(r)'
  BY <1>2 DEF IsTrue
<1>6. \A r \in node[n].results : r.node = n /\ IsTrue(r)'
  BY <1>1, <1>4 DEF ResultsTrue
<1>7. ResultsTrue'
  <2>1. \A r \in reports' : IsTrue(r)'
    BY <1>1, <1>4, <1>5, <1>6 DEF ResultsTrue
  <2>2. ASSUME NEW m \in Nodes, NEW r \in node'[m].results PROVE r.node = m /\ IsTrue(r)'
    <3>1. CASE m = n
      BY <1>2, <1>5, <1>6, <2>2, <3>1
    <3>2. CASE m # n
      <4>1. r \in node[m].results /\ r \in CacheResult
        BY <1>1, <1>2, <2>2, <3>2 DEF NodeHand
      <4> QED
        BY <1>1, <1>4, <4>1 DEF ResultsTrue
    <3> QED
      BY <3>1, <3>2
  <2> QED
    BY <2>1, <2>2 DEF ResultsTrue
<1>8. reports' \subseteq CacheResult
  BY <1>1
<1> QED
  BY <1>2, <1>3, <1>7, <1>8, NodeMoves

LEMMA ExecuteKeeps ==
  ASSUME TasksInv, NEW n \in Nodes, Execute(n)
  PROVE  TasksInv' /\ EndsByItsOwner
<1> DEFINE c == node[n].running
           was == {r \in node[n].results : r.attempt = c.attempt}
           good == ResultOf(n, c, TRUE)
           bad == ResultOf(n, c, FALSE)
<1>1. /\ node \in [Nodes -> NodeHand] /\ node[n] \in NodeHand /\ c \in CacheCommand /\ c.gen \in Nat
      /\ executed \in [Nodes -> SUBSET Nat] /\ faults \in Nat
      /\ UNCHANGED <<task, target, worker, redis, supports, attempts, creates>>
  BY DEF TasksInv, TasksTypes, NodeHand, CacheCommand, Execute
<1>2. /\ good \in CacheResult /\ good.node = n /\ good.gen = c.gen /\ bad \in CacheResult /\ bad.node = n /\ ~bad.ok
      /\ node[n].results \subseteq CacheResult
  BY <1>1 DEF ResultOf, CacheResult, CacheCommand, NodeHand
<1> HIDE DEF good, bad
<1>3. CASE /\ reports' = reports \cup was
           /\ node' = [node EXCEPT ![n].running = None] /\ UNCHANGED <<executed, faults>>
  <2> DEFINE h == [node[n] EXCEPT !.running = None]
             new == {}
             done == {}
  <2>1. h \in NodeHand /\ h.results = node[n].results /\ node' = [node EXCEPT ![n] = h]
    BY <1>1, <1>3 DEF NodeHand
  <2>2. executed' = [executed EXCEPT ![n] = executed[n] \cup {}]
    BY <1>1, <1>3
  <2>3. /\ new \in SUBSET CacheResult /\ done \in SUBSET Nat /\ h.results \subseteq node[n].results \cup new
        /\ reports' \subseteq reports \cup node[n].results \cup new
        /\ executed' = [executed EXCEPT ![n] = executed[n] \cup done]
        /\ \A r \in new : r.node = n /\ (r.ok => r.gen \in executed[n] \cup done)
        /\ faults' \in Nat
    BY <1>1, <1>2, <1>3, <2>1, <2>2
  <2>4. h \in NodeHand /\ node' = [node EXCEPT ![n] = h]
        /\ UNCHANGED <<task, target, worker, redis, supports, attempts, creates>>
    BY <1>1, <2>1
  <2> HIDE DEF h, new, done, c
  <2> QED
    BY <2>3, <2>4, NodeAnswers
<1>4. CASE /\ UNCHANGED faults /\ reports' = reports \cup {good}
           /\ node' = [node EXCEPT ![n].running = None, ![n].results = @ \cup {good}]
           /\ executed' = [executed EXCEPT ![n] = @ \cup {c.gen}]
  <2> DEFINE h == [node[n] EXCEPT !.running = None, !.results = node[n].results \cup {good}]
             new == {good}
             done == {c.gen}
  <2>1. h \in NodeHand /\ h.results = node[n].results \cup {good} /\ node' = [node EXCEPT ![n] = h]
    BY <1>1, <1>2, <1>4 DEF NodeHand
  <2>2. executed' = [executed EXCEPT ![n] = executed[n] \cup {c.gen}] /\ {c.gen} \in SUBSET Nat /\ {good} \in SUBSET CacheResult
    BY <1>1, <1>2, <1>4
  <2>3. /\ new \in SUBSET CacheResult /\ done \in SUBSET Nat /\ h.results \subseteq node[n].results \cup new
        /\ reports' \subseteq reports \cup node[n].results \cup new
        /\ executed' = [executed EXCEPT ![n] = executed[n] \cup done]
        /\ \A r \in new : r.node = n /\ (r.ok => r.gen \in executed[n] \cup done)
        /\ faults' \in Nat
    BY <1>1, <1>2, <1>4, <2>1, <2>2
  <2>4. h \in NodeHand /\ node' = [node EXCEPT ![n] = h]
        /\ UNCHANGED <<task, target, worker, redis, supports, attempts, creates>>
    BY <1>1, <2>1
  <2> HIDE DEF h, new, done, c
  <2> QED
    BY <2>3, <2>4, NodeAnswers
<1>5. CASE /\ Spend("fail") /\ reports' = reports \cup {bad}
           /\ node' = [node EXCEPT ![n].running = None, ![n].results = @ \cup {bad}]
           /\ UNCHANGED executed
  <2> DEFINE h == [node[n] EXCEPT !.running = None, !.results = node[n].results \cup {bad}]
             new == {bad}
             done == {}
  <2>1. h \in NodeHand /\ h.results = node[n].results \cup {bad} /\ node' = [node EXCEPT ![n] = h]
    BY <1>1, <1>2, <1>5 DEF NodeHand
  <2>2. executed' = [executed EXCEPT ![n] = executed[n] \cup {}] /\ {bad} \in SUBSET CacheResult /\ faults' \in Nat
    BY <1>1, <1>2, <1>5, FaultCounted
  <2>3. /\ new \in SUBSET CacheResult /\ done \in SUBSET Nat /\ h.results \subseteq node[n].results \cup new
        /\ reports' \subseteq reports \cup node[n].results \cup new
        /\ executed' = [executed EXCEPT ![n] = executed[n] \cup done]
        /\ \A r \in new : r.node = n /\ (r.ok => r.gen \in executed[n] \cup done)
        /\ faults' \in Nat
    BY <1>1, <1>2, <1>5, <2>1, <2>2
  <2>4. h \in NodeHand /\ node' = [node EXCEPT ![n] = h]
        /\ UNCHANGED <<task, target, worker, redis, supports, attempts, creates>>
    BY <1>1, <2>1
  <2> HIDE DEF h, new, done, c
  <2> QED
    BY <2>3, <2>4, NodeAnswers
<1> QED
  BY <1>3, <1>4, <1>5 DEF Execute, good, bad

LEMMA DisconnectKeeps ==
  ASSUME TasksInv, NEW n \in Nodes, Disconnect(n)
  PROVE  TasksInv' /\ EndsByItsOwner
<1> DEFINE c == node[n].running
           good == ResultOf(n, c, TRUE)
           knew == \E k \in node[n].results : k.attempt = c.attempt
           kept == IF knew THEN node[n].results ELSE node[n].results \cup {good}
           done == IF knew THEN {} ELSE {c.gen}
           h == [node[n] EXCEPT !.running = None, !.results = kept]
<1>1. /\ node \in [Nodes -> NodeHand] /\ node[n] \in NodeHand /\ c \in CacheCommand /\ c.gen \in Nat
      /\ executed \in [Nodes -> SUBSET Nat] /\ reports' = reports /\ faults' \in Nat
      /\ UNCHANGED <<task, target, worker, redis, supports, attempts, creates>>
  BY FaultCounted DEF TasksInv, TasksTypes, NodeHand, CacheCommand, Disconnect
<1>2. /\ good \in CacheResult /\ good.node = n /\ good.gen = c.gen /\ node[n].results \subseteq CacheResult
  BY <1>1 DEF ResultOf, CacheResult, CacheCommand, NodeHand
<1>3. node' = [node EXCEPT ![n] = h] /\ executed' = [executed EXCEPT ![n] = executed[n] \cup done]
  BY <1>1 DEF Disconnect
<1> HIDE DEF good, knew
<1>4. h \in NodeHand /\ h.results = kept
  BY <1>1, <1>2 DEF NodeHand
<1> DEFINE new == IF knew THEN {} ELSE {good}
<1>5. /\ new \in SUBSET CacheResult /\ done \in SUBSET Nat /\ h.results \subseteq node[n].results \cup new
      /\ reports' \subseteq reports \cup node[n].results \cup new
      /\ \A r \in new : r.node = n /\ (r.ok => r.gen \in executed[n] \cup done)
  <2> HIDE DEF h
  <2> QED
    BY <1>1, <1>2, <1>4
<1> HIDE DEF h, new, done, c
<1> QED
  BY <1>1, <1>3, <1>4, <1>5, NodeAnswers

LEMMA RestartKeeps ==
  ASSUME TasksInv, NEW n \in Nodes, Restart(n)
  PROVE  TasksInv' /\ EndsByItsOwner
<1>1. /\ node' = [node EXCEPT ![n] = Resting] /\ faults' \in Nat /\ executed \in [Nodes -> SUBSET Nat]
      /\ UNCHANGED <<task, target, worker, redis, reports, supports, attempts, creates, executed>>
  BY FaultCounted DEF TasksInv, TasksTypes, Restart
<1>2. Resting \in NodeHand /\ Resting.results = {}
  BY DEF Resting, NodeHand
<1>3. executed' = [executed EXCEPT ![n] = executed[n] \cup {}]
  BY <1>1
<1> QED
  BY <1>1, <1>2, <1>3, NodeAnswers

LEMMA UpgradeKeeps ==
  ASSUME TasksInv, NEW n \in Nodes, Upgrade(n)
  PROVE  TasksInv' /\ EndsByItsOwner
BY WorkerMoves DEF TasksInv, TasksTypes, Upgrade

LEMMA LoseCommandKeeps ==
  ASSUME TasksInv, NEW n \in Nodes, LoseCommand(n)
  PROVE  TasksInv' /\ EndsByItsOwner
<1>1. faults' \in Nat /\ redis' \in [Nodes -> CacheCommand \cup {None}]
  BY FaultCounted DEF TasksInv, TasksTypes, LoseCommand
<1> QED
  BY <1>1, WorkerMoves DEF TasksInv, TasksTypes, LoseCommand

LEMMA ReportKeeps ==
  ASSUME TasksInv, NEW r \in reports, Report(r)
  PROVE  TasksInv' /\ EndsByItsOwner
<1>1. /\ r \in CacheResult /\ r.node \in Nodes /\ target \in [Nodes -> TargetRow] /\ target[r.node] \in TargetRow
      /\ redis \in [Nodes -> CacheCommand \cup {None}] /\ TargetsDone /\ IsTrue(r)
      /\ UNCHANGED <<task, worker, node, supports, attempts, creates, faults, executed>>
  BY DEF TasksInv, TasksTypes, CacheResult, ResultsTrue, Report
<1>2. redis' \in [Nodes -> CacheCommand \cup {None}] /\ reports' \subseteq reports
  BY <1>1 DEF Report
<1>3. /\ target' \in [Nodes -> TargetRow]
      /\ \A n \in Nodes : target'[n].attempt = target[n].attempt
      /\ \A n \in Nodes : target'[n].status = "completed" => target[n].status = "completed" \/ task.gen \in executed[n]
  <2>1. CASE ~Matches(r)
    <3>1. target' = target
      BY <2>1 DEF Report
    <3> QED
      BY <1>1, <3>1
  <2>2. CASE Matches(r)
    <3>1. target' = [target EXCEPT ![r.node].status = IF r.ok THEN "completed" ELSE "failed"] /\ r.gen = task.gen
      BY <2>2 DEF Report, Matches
    <3>2. r.ok => task.gen \in executed[r.node]
      BY <1>1, <3>1 DEF IsTrue
    <3>3. [target[r.node] EXCEPT !.status = IF r.ok THEN "completed" ELSE "failed"] \in TargetRow
      BY <1>1 DEF TargetRow
    <3> QED
      BY <1>1, <3>1, <3>2, <3>3 DEF TargetRow
  <2> QED
    BY <2>1, <2>2
<1>4. TasksTypes'
  BY <1>1, <1>2, <1>3 DEF TasksInv, TasksTypes
<1>5. ResultsTrue' /\ LeaseOK'
  BY <1>1, <1>2 DEF TasksInv, ResultsTrue, IsTrue, LeaseOK
<1>6. TargetsDone'
  BY <1>1, <1>3 DEF TargetsDone
<1>7. DoneEverywhere'
  BY <1>1, <1>3 DEF TasksInv, DoneEverywhere
<1> QED
  BY <1>1, <1>4, <1>5, <1>6, <1>7 DEF TasksInv, EndsByItsOwner

LEMMA TasksNextKeeps ==
  ASSUME TasksInv, TasksNext
  PROVE  TasksInv' /\ EndsByItsOwner
<1>1. CASE Create \/ RetryTask \/ Lapse
  BY <1>1, CreateKeeps, RetryKeeps, LapseKeeps
<1>2. ASSUME NEW w \in TaskWorkers, WorkerStep(w) PROVE TasksInv' /\ EndsByItsOwner
  BY <1>2, ClaimKeeps, SelectKeeps, StagedKeeps, EnqueueKeeps, PollKeeps, RenewKeeps, FinishKeeps, StageKeeps DEF WorkerStep
<1>3. ASSUME NEW n \in Nodes, Deliver(n) \/ Execute(n) \/ Disconnect(n) \/ Restart(n) \/ Upgrade(n) \/ LoseCommand(n)
      PROVE  TasksInv' /\ EndsByItsOwner
  BY <1>3, DeliverKeeps, ExecuteKeeps, DisconnectKeeps, RestartKeeps, UpgradeKeeps, LoseCommandKeeps
<1> QED
  BY <1>1, <1>2, <1>3, ThrowKeeps, ReportKeeps DEF TasksNext

LEMMA TasksMean == TasksInv => TasksTypeOK /\ DoneEverywhere
<1> SUFFICES ASSUME TasksInv PROVE TasksTypeOK /\ DoneEverywhere
  OBVIOUS
<1>1. task \in TaskRow /\ target \in [Nodes -> TargetRow] /\ LeaseOK /\ TargetsDone
  BY DEF TasksInv, TasksTypes
<1>2. task.status \in {"queued", "running", "retrying", "failed", "completed"} /\ task.failures \in 0..(MaxFailures + 1)
  BY <1>1, CacheTasksAssumption DEF TaskRow, LeaseOK
<1>3. \A n \in Nodes : target[n].status \in {"pending", "sent", "failed", "completed"} /\ target[n].attempt <= attempts
  BY <1>1 DEF TargetRow, TargetsDone
<1> QED
  BY <1>1, <1>2, <1>3 DEF TasksInv, TasksTypeOK, LeaseOK

\* A cache operation that is shown as completed was carried out by every
\* node, for the generation last asked for; one that ended stays as it is
\* until someone asks again, and only its lease owner ends it: for any number
\* of workers and nodes, however late reports and stalled workers come.
THEOREM CompletedIsDone == TasksSpec => CompletedMeansDone
<1>1. TasksInit => TasksInv
  BY TasksInitHolds
<1>2. TasksInv /\ [TasksNext]_tasksVars => TasksInv' /\ [EndsByItsOwner]_tasksVars
  <2> SUFFICES ASSUME TasksInv, [TasksNext]_tasksVars PROVE TasksInv' /\ [EndsByItsOwner]_tasksVars
    OBVIOUS
  <2>1. CASE TasksNext
    BY <2>1, TasksNextKeeps
  <2>2. CASE UNCHANGED tasksVars
    <3>1. TasksInv'
      BY <2>2 DEF tasksVars, TasksInv, TasksTypes, ResultsTrue, IsTrue, TargetsDone, LeaseOK, DoneEverywhere
    <3> QED
      BY <2>2, <3>1
  <2> QED
    BY <2>1, <2>2
<1>3. TasksInv => TasksTypeOK /\ DoneEverywhere
  BY TasksMean
<1> QED
  BY <1>1, <1>2, <1>3, PTL DEF TasksSpec, CompletedMeansDone
=============================================================================
