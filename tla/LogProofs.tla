------------------------------ MODULE LogProofs -----------------------------
(***************************************************************************)
(* Log events are stored at most once and never lost once acknowledged,    *)
(* for every set of loops and events, every budget and every number of     *)
(* deliveries; on the node, what the control worker took over is held or   *)
(* accepted, in order.                                                     *)
(***************************************************************************)
EXTENDS LogIngest, LogDelivery, SequenceTheorems, TLAPS

(* Kinds between the lock of the node's row and the end of the transaction.*)
InTransaction == {"locked", "looked"}

(* Queue, archive and loops know of appended deliveries only.              *)
NoFuture == /\ q.read <= q.last
            /\ \A id \in q.stream \cup q.failed : id <= q.last
            /\ \A w \in Workers : job[w].id <= q.last

(* The pending list names appended entries only.                           *)
OwnersAreOld == \A id \in Ids : q.owner[id] # NoOne => id <= q.last

(* A loop that does something does it to a delivery.                       *)
JobsAreSet == \A w \in Workers : job[w].kind # "idle" => job[w].id \in Ids

(* A loop inside a transaction holds the row lock.                         *)
LocksAreHeld == \A w \in Workers : job[w].kind \in InTransaction => lock = w

(* What the lookup found is still so when the insert commits.              *)
LookedIsTrue ==
    \A w \in Workers : job[w].kind = "looked" =>
       \A e \in Events : /\ e \in job[w].fresh => ~IsStored(e)
                         /\ e \in payload[job[w].id] => e \in job[w].fresh \/ IsStored(e)

(* A delivery is finished only when all of it is stored.                   *)
StoredIsStored ==
    \A w \in Workers : job[w].kind = "stored" => \A e \in payload[job[w].id] : IsStored(e)

(* The inductive invariant.                                                *)
Inv == /\ TypeOK /\ NoFuture /\ OwnersAreOld /\ JobsAreSet /\ LocksAreHeld
       /\ LookedIsTrue /\ StoredIsStored /\ StoredOnce /\ AcceptedIsKept

-----------------------------------------------------------------------------
(* Steps that store nothing and take nothing out of the queue.             *)

(* An event's row is there as long as the rows are.                        *)
LEMMA SameRows ==
    ASSUME UNCHANGED rows
    PROVE  \A e \in Events : IsStored(e)' <=> IsStored(e)
BY DEF IsStored

(* Rows, deliveries, queued and archived ids stay: nothing is lost or      *)
(* doubled.                                                                *)
LEMMA KeptFrame ==
    ASSUME Inv, UNCHANGED <<payload, rows>>,
           q.stream \cup q.failed \subseteq q'.stream \cup q'.failed
    PROVE  StoredOnce' /\ AcceptedIsKept'
<1>1. StoredOnce' BY DEF Inv, StoredOnce
<1>2. AcceptedIsKept'
  <2> SUFFICES ASSUME NEW id \in Ids, NEW e \in payload[id]
               PROVE  IsStored(e)' \/ \E i \in q'.stream \cup q'.failed : e \in payload[i]
    BY DEF AcceptedIsKept
  <2>1. IsStored(e)' <=> IsStored(e) BY DEF IsStored
  <2>2. IsStored(e) \/ \E i \in q.stream \cup q.failed : e \in payload[i]
    BY DEF Inv, AcceptedIsKept
  <2> QED BY <2>1, <2>2
<1> QED BY <1>1, <1>2

(* A step of one loop that ends outside "looked" and "stored" preserves    *)
(* Inv.                                                                    *)
LEMMA JobFrame ==
    ASSUME Inv, NEW w \in Workers, NEW j \in Job, job' = [job EXCEPT ![w] = j],
           UNCHANGED <<payload, rows>>,
           q' \in Queue, q'.stream = q.stream, q'.failed = q.failed, q'.last = q.last,
           q'.read <= q'.last, OwnersAreOld',
           lock' \in Workers \cup {NoOne},
           j.kind \notin {"looked", "stored"}, j.id <= q.last, j.kind # "idle" => j.id \in Ids,
           j.kind \in InTransaction => lock' = w,
           \A v \in Workers \ {w} : job[v].kind \in InTransaction => lock' = v
    PROVE  Inv'
<1>1. /\ job' \in [Workers -> Job] /\ job'[w] = j
      /\ \A v \in Workers \ {w} : job'[v] = job[v]
  BY DEF Inv, TypeOK
<1>2. TypeOK' BY <1>1 DEF Inv, TypeOK
<1>3. NoFuture' BY <1>1 DEF Inv, NoFuture
<1>4. JobsAreSet' BY <1>1 DEF Inv, JobsAreSet
<1>5. LocksAreHeld' BY <1>1 DEF Inv, LocksAreHeld
<1>6. LookedIsTrue' BY <1>1, SameRows DEF Inv, LookedIsTrue
<1>7. StoredIsStored'
  <2> SUFFICES ASSUME NEW v \in Workers, job'[v].kind = "stored", NEW e \in payload'[job'[v].id]
               PROVE  IsStored(e)'
    BY DEF StoredIsStored
  <2>1. v # w /\ job'[v] = job[v] BY <1>1
  <2>2. IsStored(e) BY <2>1 DEF Inv, StoredIsStored
  <2> QED BY <2>2 DEF IsStored
<1>8. StoredOnce' /\ AcceptedIsKept' BY KeptFrame
<1> QED BY <1>2, <1>3, <1>4, <1>5, <1>6, <1>7, <1>8 DEF Inv

(* A step that only touches owners, retry state, bytes or names preserves  *)
(* Inv.                                                                    *)
LEMMA QueueFrame ==
    ASSUME Inv, UNCHANGED <<payload, rows, lock, job>>,
           q' \in Queue, q'.stream = q.stream, q'.failed = q.failed, q'.last = q.last,
           q'.read = q.read, OwnersAreOld'
    PROVE  Inv'
<1>1. TypeOK' BY DEF Inv, TypeOK
<1>2. NoFuture' /\ JobsAreSet' /\ LocksAreHeld'
  BY DEF Inv, NoFuture, JobsAreSet, LocksAreHeld
<1>3. LookedIsTrue' BY SameRows DEF Inv, LookedIsTrue
<1>4. StoredIsStored' BY DEF Inv, StoredIsStored, IsStored
<1>5. StoredOnce' /\ AcceptedIsKept' BY KeptFrame
<1> QED BY <1>1, <1>2, <1>3, <1>4, <1>5 DEF Inv

(* Facts about a loop at work that every action below starts from.         *)
LEMMA AtWork ==
    ASSUME Inv, NEW w \in Workers
    PROVE  /\ job[w] \in Job /\ job[w].kind \in Kinds /\ job[w].fresh \in SUBSET Events
           /\ job[w].id \in 0 .. MaxAppends /\ job[w].id <= q.last /\ Idle \in Job
           /\ q \in Queue /\ q.last \in 0 .. MaxAppends /\ q.read \in 0 .. MaxAppends
           /\ q.read <= q.last /\ w \in Consumers /\ lock \in Workers \cup {NoOne}
<1>1. job[w] \in Job /\ q \in Queue BY DEF Inv, TypeOK
<1>2. Idle \in Job BY BudgetAssumption DEF Idle, Job, Kinds
<1> QED BY <1>1, <1>2 DEF Inv, NoFuture, Job, Queue, Consumers, TypeOK

(* Going on with the same delivery under another kind.                     *)
LEMMA GoFacts ==
    ASSUME Inv, NEW w \in Workers, NEW k \in Kinds, Go(w, k)
    PROVE  \E j \in Job : /\ job' = [job EXCEPT ![w] = j]
                          /\ j.kind = k /\ j.id = job[w].id /\ j.fresh = job[w].fresh
<1> DEFINE j == [kind |-> k, id |-> job[w].id, fresh |-> job[w].fresh]
<1>1. job[w] \in Job BY DEF Inv, TypeOK
<1>2. j \in Job BY <1>1 DEF Job
<1>3. [job[w] EXCEPT !.kind = k] = j BY <1>1 DEF Job
<1>4. job' = [job EXCEPT ![w] = j] BY <1>3 DEF Go, Inv, TypeOK
<1> QED BY <1>2, <1>4

(* Giving up one's lock takes nobody else's.                               *)
LEMMA UnlockFacts ==
    ASSUME Inv, NEW w \in Workers, Unlock(w)
    PROVE  /\ lock' \in Workers \cup {NoOne}
           /\ \A v \in Workers \ {w} : job[v].kind \in InTransaction => lock' = v
BY NamesAssumption DEF Inv, TypeOK, LocksAreHeld, Unlock

-----------------------------------------------------------------------------
(* One lemma per action.                                                   *)

(* The initial state is empty.                                             *)
LEMMA InitInv == Init => Inv
<1> SUFFICES ASSUME Init PROVE Inv OBVIOUS
<1>1. EmptyQueue \in Queue /\ EmptyQueue.stream = {} /\ EmptyQueue.last = 0 /\ EmptyQueue.read = 0
     /\ \A i \in Ids : EmptyQueue.owner[i] = NoOne
  BY EmptyFacts
<1>2. EmptyQueue.failed = {} BY DEF EmptyQueue
<1>3. Idle \in Job /\ Idle.kind = "idle" /\ Idle.id = 0
  BY BudgetAssumption DEF Idle, Job, Kinds
<1>4. TypeOK BY <1>1, <1>3 DEF Init, TypeOK
<1>5. NoFuture /\ OwnersAreOld BY <1>1, <1>2, <1>3 DEF Init, NoFuture, OwnersAreOld
<1>6. JobsAreSet /\ LocksAreHeld /\ LookedIsTrue /\ StoredIsStored
  BY <1>3 DEF Init, JobsAreSet, LocksAreHeld, LookedIsTrue, StoredIsStored, InTransaction
<1>7. StoredOnce /\ AcceptedIsKept BY DEF Init, StoredOnce, AcceptedIsKept
<1> QED BY <1>4, <1>5, <1>6, <1>7 DEF Inv

(* A new entry, pushed or replayed, adds to what is kept.                  *)
LEMMA AppendInv ==
    ASSUME Inv, NEW events \in SUBSET Events, q.last < MaxAppends,
           payload' = [payload EXCEPT ![q.last + 1] = events],
           q' \in Queue, q'.last = q.last + 1, q'.read = q.read,
           q'.stream = q.stream \cup {q.last + 1},
           UNCHANGED <<rows, lock, job>>,
           q'.owner = q.owner,
           \A i \in q.failed \ q'.failed : payload[i] \subseteq events,
           q'.failed \subseteq q.failed
    PROVE  Inv'
<1>1. q \in Queue /\ q.last \in 0 .. MaxAppends /\ q.last + 1 \in Ids
  BY BudgetAssumption DEF Inv, TypeOK, Queue, Ids
<1>2. /\ payload' \in [Ids -> SUBSET Events] /\ payload'[q.last + 1] = events
      /\ \A i \in Ids : i <= q.last => payload'[i] = payload[i]
  BY <1>1 DEF Inv, TypeOK, Ids
<1>3. TypeOK' BY <1>2 DEF Inv, TypeOK
<1>4. NoFuture'
  <2>1. \A w \in Workers : job[w].id \in 0 .. MaxAppends BY AtWork
  <2>2. \A id \in q.stream \cup q.failed : id \in Ids BY <1>1 DEF Queue
  <2> QED BY <1>1, <2>1, <2>2 DEF Inv, NoFuture, Queue, Ids
<1>11. OwnersAreOld' BY <1>1 DEF Inv, OwnersAreOld, Ids
<1>5. JobsAreSet' /\ LocksAreHeld' BY DEF Inv, JobsAreSet, LocksAreHeld
<1>6. \A w \in Workers : job[w].kind # "idle" => payload'[job[w].id] = payload[job[w].id]
  BY <1>2 DEF Inv, JobsAreSet, NoFuture
<1>7. LookedIsTrue' BY <1>6, SameRows DEF Inv, LookedIsTrue
<1>8. StoredIsStored' BY <1>6 DEF Inv, StoredIsStored, IsStored
<1>9. StoredOnce' BY DEF Inv, StoredOnce
<1>10. AcceptedIsKept'
  <2> SUFFICES ASSUME NEW id \in Ids, NEW e \in payload'[id]
               PROVE  IsStored(e)' \/ \E i \in q'.stream \cup q'.failed : e \in payload'[i]
    BY DEF AcceptedIsKept
  <2>1. CASE id = q.last + 1 BY <2>1
  <2>2. CASE id # q.last + 1
    <3>1. e \in payload[id] BY <2>2 DEF Inv, TypeOK
    <3>2. CASE IsStored(e) BY <3>2 DEF IsStored
    <3>3. CASE ~IsStored(e)
      <4>1. PICK i \in q.stream \cup q.failed : e \in payload[i]
        BY <3>1, <3>3 DEF Inv, AcceptedIsKept
      <4>2. i \in Ids /\ i <= q.last BY <1>1 DEF Inv, NoFuture, Queue
      <4>3. CASE i \in q'.stream \cup q'.failed BY <1>2, <4>1, <4>2, <4>3
      <4>4. CASE i \notin q'.stream \cup q'.failed BY <1>2, <4>1, <4>4
      <4> QED BY <4>3, <4>4
    <3> QED BY <3>2, <3>3
  <2> QED BY <2>1, <2>2
<1> QED BY <1>3, <1>4, <1>5, <1>7, <1>8, <1>9, <1>10, <1>11 DEF Inv

(* push                                                                    *)
LEMMA PushInv == ASSUME Inv, NEW events \in SUBSET Events, Push(events) PROVE Inv'
<1>1. q \in Queue BY DEF Inv, TypeOK
<1> QED BY <1>1, AppendFacts, AppendInv, SizeAssumption DEF Push

(* replay_failed: the archived record goes, a new entry carries its events.*)
LEMMA ReplayInv == ASSUME Inv, NEW id \in Ids, ReplayFailed(id) PROVE Inv'
<1> DEFINE s == AddEntry(q, EntrySize)
<1>1. q \in Queue /\ payload[id] \in SUBSET Events BY DEF Inv, TypeOK
<1>2. /\ s \in Queue /\ s.stream = q.stream \cup {q.last + 1} /\ s.last = q.last + 1
      /\ s.read = q.read /\ s.failed = q.failed /\ s.owner = q.owner
  BY <1>1, AppendFacts, SizeAssumption DEF ReplayFailed
<1>3. q' = Unarchive(s, id, FailedSize) BY DEF ReplayFailed
<1> HIDE DEF s
<1>4. /\ q' \in Queue /\ q'.stream = q.stream \cup {q.last + 1} /\ q'.last = q.last + 1
      /\ q'.read = q.read /\ q'.failed = q.failed \ {id} /\ q'.owner = q.owner
  BY <1>2, <1>3, UnarchiveFacts, SizeAssumption
<1> QED BY <1>1, <1>4, AppendInv DEF ReplayFailed

(* The three ways to claim: the loop starts with nothing known.            *)
LEMMA ClaimInv == ASSUME Inv, NEW w \in Workers, Claim(w) PROVE Inv'
<1>1. PICK id \in Ids :
        /\ \/ CanRead(q) /\ q' = ReadNext(q, w) /\ id = q.read + 1
           \/ q' = ClaimDue(q, id, w)
           \/ q' = Reclaim(q, id, w) /\ CanReclaim(q, id)
        /\ ClaimedBy(w, id)
  <2>1. CASE TakeNew(w)
    <3>1. q.read + 1 \in Ids BY <2>1, AtWork, ReadFacts DEF TakeNew, CanRead
    <3> QED BY <2>1, <3>1 DEF TakeNew
  <2>2. CASE \E id \in Ids : TakeDue(w, id) \/ TakeAbandoned(w, id)
    BY <2>2 DEF TakeDue, TakeAbandoned
  <2> QED BY <2>1, <2>2 DEF Claim
<1>2. /\ q \in Queue /\ w \in Consumers /\ q.last \in 0 .. MaxAppends
      /\ q.read \in 0 .. MaxAppends /\ q.read <= q.last
      /\ q.owner \in [Ids -> Consumers \cup {NoOne}]
      /\ lock \in Workers \cup {NoOne} /\ OwnersAreOld
  BY AtWork DEF Queue, Inv
<1>3. /\ q' \in Queue /\ q'.stream = q.stream /\ q'.failed = q.failed /\ q'.last = q.last
      /\ q'.read <= q'.last
      /\ \/ q'.owner = q.owner
         \/ q'.owner = [q.owner EXCEPT ![id] = w] /\ id <= q.last
  <2>1. CASE CanRead(q) /\ q' = ReadNext(q, w) /\ id = q.read + 1
    BY <1>2, <2>1, ReadFacts DEF CanRead
  <2>2. CASE q' = ClaimDue(q, id, w)
    <3>1. CASE id \in q.stream BY <1>2, <2>2, <3>1, DueFacts DEF Inv, NoFuture
    <3>2. CASE id \notin q.stream
      <4>1. q'.owner = q.owner BY <1>2, <2>2, <3>2 DEF ClaimDue, Queue
      <4> QED BY <1>2, <2>2, <4>1, DueFacts
    <3> QED BY <3>1, <3>2
  <2>3. CASE q' = Reclaim(q, id, w) /\ CanReclaim(q, id)
    BY <1>2, <2>3, ReclaimFacts DEF CanReclaim, OwnersAreOld
  <2> QED BY <1>1, <2>1, <2>2, <2>3
<1>4. OwnersAreOld' BY <1>2, <1>3 DEF OwnersAreOld
<1>5. UNCHANGED <<payload, rows, lock>> BY <1>1 DEF ClaimedBy
<1> DEFINE j == IF q'.owner[id] = w THEN [kind |-> "claimed", id |-> id, fresh |-> {}] ELSE job[w]
<1>6. job[w] \in Job /\ job[w].kind = "idle" /\ job[w].id <= q.last
  BY <1>1, AtWork DEF ClaimedBy, At
<1>7. j \in Job /\ j.kind \in {"idle", "claimed"} /\ j.id <= q.last /\ (j.kind # "idle" => j.id \in Ids)
  <2>1. CASE q'.owner[id] = w
    <3>1. id <= q.last BY <1>2, <1>3, <2>1, NamesAssumption DEF OwnersAreOld
    <3> QED BY <2>1, <3>1 DEF Job, Kinds, Ids
  <2>2. CASE q'.owner[id] # w BY <1>6, <2>2
  <2> QED BY <2>1, <2>2
<1>8. job' = [job EXCEPT ![w] = j] BY <1>1 DEF ClaimedBy, Inv, TypeOK
<1>9. \A v \in Workers : job[v].kind \in InTransaction => lock' = v
  BY <1>5 DEF Inv, LocksAreHeld
<1>10. j.kind \notin {"looked", "stored"} /\ j.kind \notin InTransaction BY <1>7 DEF InTransaction
<1> HIDE DEF j
<1> QED BY <1>2, <1>3, <1>4, <1>5, <1>7, <1>8, <1>9, <1>10, JobFrame

(* The rows after an insert: a fresh event gets one row, no other event    *)
(* any.                                                                    *)
LEMMA InsertedRows ==
    ASSUME NEW w \in Workers, Inserted(w), NEW e \in Events, NEW i \in 0 .. MaxAppends
    PROVE  <<e, i>> \in rows' <=>
              \/ <<e, i>> \in rows
              \/ e \in job[w].fresh /\ i = (IF e \in Ahead THEN job[w].id ELSE 0)
BY DEF Inserted, Key

(* The insert commits what the lookup found missing, under the lock.       *)
LEMMA CommitInv ==
    ASSUME Inv, NEW w \in Workers, NEW k \in {"stored", "retry"},
           At(w, "looked"), Inserted(w), Go(w, k)
    PROVE  Inv'
<1>1. /\ job[w] \in Job /\ job[w].id \in Ids /\ job[w].id \in 0 .. MaxAppends
      /\ 0 \in 0 .. MaxAppends /\ job[w].fresh \subseteq Events /\ job[w].kind = "looked"
  BY AtWork, BudgetAssumption DEF Inv, JobsAreSet, At
<1>2. k \in Kinds BY DEF Kinds
<1>3. PICK j \in Job : /\ job' = [job EXCEPT ![w] = j]
                       /\ j.kind = k /\ j.id = job[w].id
  BY <1>2, GoFacts
<1>4. /\ job' \in [Workers -> Job] /\ job'[w] = j
      /\ \A v \in Workers \ {w} : job'[v] = job[v]
  BY <1>3 DEF Inv, TypeOK
<1>5. UNCHANGED <<q, payload>> /\ Unlock(w) BY DEF Inserted
<1>6. /\ lock' \in Workers \cup {NoOne}
      /\ \A v \in Workers \ {w} : job[v].kind \notin InTransaction
  BY <1>1, <1>5, UnlockFacts DEF Inv, LocksAreHeld, InTransaction
<1>7. \A e \in Events : IsStored(e)' <=> IsStored(e) \/ e \in job[w].fresh
  BY <1>1, InsertedRows DEF IsStored
<1>8. TypeOK'
  <2>1. \A e \in job[w].fresh : Key(e, job[w].id) \in Keys BY <1>1 DEF Key, Keys
  <2>2. rows' \subseteq Keys BY <2>1 DEF Inserted, Inv, TypeOK
  <2> QED BY <1>4, <1>5, <1>6, <2>2 DEF Inv, TypeOK
<1>9. NoFuture' /\ OwnersAreOld' /\ JobsAreSet'
  <2>1. \A v \in Workers : job'[v].id = job[v].id BY <1>3, <1>4
  <2>2. NoFuture' /\ OwnersAreOld' BY <1>5, <2>1 DEF Inv, NoFuture, OwnersAreOld
  <2>3. JobsAreSet' BY <1>1, <1>3, <1>4 DEF Inv, JobsAreSet
  <2> QED BY <2>2, <2>3
<1>10. LocksAreHeld' /\ LookedIsTrue'
  BY <1>3, <1>4, <1>6 DEF LocksAreHeld, LookedIsTrue, InTransaction
<1>11. StoredIsStored'
  <2> SUFFICES ASSUME NEW v \in Workers, job'[v].kind = "stored", NEW e \in payload[job'[v].id]
               PROVE  IsStored(e)'
    BY <1>5 DEF StoredIsStored
  <2>1. job'[v].id \in Ids /\ e \in Events BY <1>9 DEF JobsAreSet, Inv, TypeOK
  <2>2. CASE v = w BY <1>1, <1>3, <1>4, <1>7, <2>1, <2>2 DEF Inv, LookedIsTrue
  <2>3. CASE v # w BY <1>4, <1>7, <2>1, <2>3 DEF Inv, StoredIsStored
  <2> QED BY <2>2, <2>3
<1>12. StoredOnce'
  <2> SUFFICES ASSUME NEW e \in Events, NEW i \in 0 .. MaxAppends, NEW m \in 0 .. MaxAppends,
                      <<e, i>> \in rows', <<e, m>> \in rows'
               PROVE  i = m
    BY DEF StoredOnce
  <2>1. CASE e \in job[w].fresh
    <3>1. <<e, i>> \notin rows /\ <<e, m>> \notin rows
      BY <1>1, <2>1 DEF Inv, LookedIsTrue, IsStored
    <3> QED BY <3>1, InsertedRows
  <2>2. CASE e \notin job[w].fresh
    <3>1. <<e, i>> \in rows /\ <<e, m>> \in rows BY <2>2, InsertedRows
    <3> QED BY <3>1 DEF Inv, StoredOnce
  <2> QED BY <2>1, <2>2
<1>13. AcceptedIsKept'
  <2> SUFFICES ASSUME NEW id \in Ids, NEW e \in payload[id]
               PROVE  IsStored(e)' \/ \E i \in q.stream \cup q.failed : e \in payload[i]
    BY <1>5 DEF AcceptedIsKept
  <2>1. e \in Events BY DEF Inv, TypeOK
  <2> QED BY <1>7, <2>1 DEF Inv, AcceptedIsKept
<1> QED BY <1>8, <1>9, <1>10, <1>11, <1>12, <1>13 DEF Inv

(* The lookup, under the lock.                                             *)
LEMMA LookUpInv == ASSUME Inv, NEW w \in Workers, LookUp(w) PROVE Inv'
<1> DEFINE f == {e \in payload[job[w].id] : ~IsStored(e)}
           j == [kind |-> "looked", id |-> job[w].id, fresh |-> f]
<1>1. /\ job[w] \in Job /\ job[w].id \in Ids /\ job[w].id <= q.last /\ job[w].kind = "locked"
  BY AtWork DEF Inv, JobsAreSet, LookUp, At
<1>2. payload[job[w].id] \subseteq Events BY <1>1 DEF Inv, TypeOK
<1>3. j \in Job BY <1>1, <1>2 DEF Job, Kinds
<1>4. job' = [job EXCEPT ![w] = j]
  <2>1. job' = [job EXCEPT ![w].kind = "looked", ![w].fresh = f] BY DEF LookUp
  <2>2. job \in [Workers -> Job] BY DEF Inv, TypeOK
  <2> HIDE DEF f
  <2> DEFINE r == [kind |-> "looked", id |-> job[w].id, fresh |-> job[w].fresh]
  <2>3. [job[w] EXCEPT !.kind = "looked"] = r BY <1>1 DEF Job
  <2>4. [r EXCEPT !.fresh = f] = j OBVIOUS
  <2> HIDE DEF r, j
  <2>5. job' = [[job EXCEPT ![w] = r] EXCEPT ![w] = [r EXCEPT !.fresh = f]] BY <2>1, <2>2, <2>3
  <2> QED BY <2>2, <2>4, <2>5
<1>5. /\ job' \in [Workers -> Job] /\ job'[w] = j
      /\ \A v \in Workers \ {w} : job'[v] = job[v]
  BY <1>3, <1>4 DEF Inv, TypeOK
<1>6. j.kind = "looked" /\ j.id = job[w].id /\ j.fresh = f OBVIOUS
<1>7. UNCHANGED <<q, payload, rows, lock>> BY DEF LookUp
<1>8. \A e \in Events : (e \in f <=> e \in payload[job[w].id] /\ ~IsStored(e)) OBVIOUS
<1> HIDE DEF j, f
<1>9. TypeOK' BY <1>5, <1>7 DEF Inv, TypeOK
<1>10. NoFuture' /\ OwnersAreOld' /\ JobsAreSet'
  BY <1>1, <1>5, <1>6, <1>7 DEF Inv, NoFuture, OwnersAreOld, JobsAreSet
<1>11. LocksAreHeld' BY <1>1, <1>5, <1>7 DEF Inv, LocksAreHeld, InTransaction
<1>12. LookedIsTrue' BY <1>5, <1>6, <1>7, <1>8, SameRows DEF Inv, LookedIsTrue
<1>13. StoredIsStored' BY <1>5, <1>6, <1>7 DEF Inv, StoredIsStored, IsStored
<1>14. StoredOnce' /\ AcceptedIsKept' BY <1>7, KeptFrame
<1> QED BY <1>9, <1>10, <1>11, <1>12, <1>13, <1>14 DEF Inv

(* A loop that goes on, and whose step leaves queue and rows alone.        *)
LEMMA GoInv ==
    ASSUME Inv, NEW w \in Workers, NEW k \in Kinds, Go(w, k), UNCHANGED <<q, payload, rows>>,
           job[w].kind # "idle", k \notin {"looked", "stored"},
           lock' \in Workers \cup {NoOne}, k \in InTransaction => lock' = w,
           \A v \in Workers \ {w} : job[v].kind \in InTransaction => lock' = v
    PROVE  Inv'
<1>1. PICK j \in Job : /\ job' = [job EXCEPT ![w] = j] /\ j.kind = k /\ j.id = job[w].id
  BY GoFacts
<1>2. j.id <= q.last /\ j.id \in Ids BY <1>1, AtWork DEF Inv, JobsAreSet
<1>3. q' \in Queue /\ q'.read <= q'.last /\ OwnersAreOld'
  BY AtWork DEF Inv, OwnersAreOld
<1> QED BY <1>1, <1>2, <1>3, JobFrame

(* A loop that rests.                                                      *)
LEMMA RestInv ==
    ASSUME Inv, NEW w \in Workers, Rest(w), UNCHANGED <<payload, rows>>,
           q' \in Queue, q'.stream = q.stream, q'.failed = q.failed, q'.last = q.last,
           q'.read = q.read, OwnersAreOld',
           lock' \in Workers \cup {NoOne},
           \A v \in Workers \ {w} : job[v].kind \in InTransaction => lock' = v
    PROVE  Inv'
<1>1. Idle \in Job /\ q.last \in 0 .. MaxAppends /\ q.read <= q.last BY AtWork
<1>2. Idle.kind = "idle" /\ Idle.id = 0 BY DEF Idle
<1>3. job' = [job EXCEPT ![w] = Idle] BY DEF Rest
<1>4. Idle.kind \notin InTransaction /\ Idle.kind \notin {"looked", "stored"} /\ Idle.id <= q.last
  BY <1>1, <1>2 DEF InTransaction
<1> QED BY <1>1, <1>2, <1>3, <1>4, JobFrame

(* insert_envelope, statement by statement.                                *)
LEMMA InsertInv == ASSUME Inv, NEW w \in Workers, Insert(w) PROVE Inv'
<1>1. CASE LockOwner(w)
  <2>1. "locked" \in Kinds /\ job[w].kind # "idle" BY <1>1 DEF Kinds, LockOwner, At
  <2>2. lock' = w /\ \A v \in Workers : job[v].kind \notin InTransaction
    BY <1>1, NamesAssumption DEF LockOwner, Inv, LocksAreHeld
  <2> QED BY <1>1, <2>1, <2>2, GoInv DEF LockOwner
<1>2. CASE LookUp(w) BY <1>2, LookUpInv
<1>3. CASE Commit(w) BY <1>3, CommitInv DEF Commit
<1>4. CASE CommitUnseen(w) BY <1>4, CommitInv DEF CommitUnseen
<1>5. CASE Reject(w)
  <2>1. "rejected" \in Kinds /\ "rejected" \notin InTransaction /\ job[w].kind # "idle"
    BY <1>5 DEF Kinds, InTransaction, Reject
  <2> QED BY <1>5, <2>1, GoInv, UnlockFacts DEF Reject
<1>6. CASE Fail(w)
  <2>1. "retry" \in Kinds /\ "retry" \notin InTransaction /\ job[w].kind # "idle"
    BY <1>6 DEF Kinds, InTransaction, Fail
  <2> QED BY <1>6, <2>1, GoInv, UnlockFacts DEF Fail
<1> QED BY <1>1, <1>2, <1>3, <1>4, <1>5, <1>6 DEF Insert

(* An entry leaves the queue: stored in full, or archived.                 *)
LEMMA LeaveInv ==
    ASSUME Inv, NEW w \in Workers, Rest(w), job[w].kind \notin InTransaction,
           UNCHANGED <<payload, rows, lock>>, NEW id \in Ids,
           q' \in Queue, q'.stream = q.stream \ {id}, q'.last = q.last, q'.read = q.read,
           q'.owner = [q.owner EXCEPT ![id] = NoOne],
           \/ q'.failed = q.failed /\ \A e \in payload[id] : IsStored(e)
           \/ q'.failed = q.failed \cup {id} /\ id <= q.last
    PROVE  Inv'
<1>1. /\ Idle \in Job /\ q.last \in 0 .. MaxAppends /\ q \in Queue
      /\ q.owner \in [Ids -> Consumers \cup {NoOne}]
  BY AtWork DEF Queue
<1>2. Idle.kind = "idle" /\ Idle.id = 0 BY DEF Idle
<1>3. /\ job' \in [Workers -> Job] /\ job'[w] = Idle
      /\ \A v \in Workers \ {w} : job'[v] = job[v]
  BY <1>1 DEF Rest, Inv, TypeOK
<1>4. TypeOK' BY <1>3 DEF Inv, TypeOK
<1>5. NoFuture' BY <1>1, <1>2, <1>3 DEF Inv, NoFuture
<1>6. OwnersAreOld' BY <1>1 DEF Inv, OwnersAreOld
<1>7. JobsAreSet' BY <1>2, <1>3 DEF Inv, JobsAreSet
<1>8. LocksAreHeld' BY <1>2, <1>3 DEF Inv, LocksAreHeld, InTransaction
<1>9. LookedIsTrue' BY <1>2, <1>3, SameRows DEF Inv, LookedIsTrue
<1>10. StoredIsStored' BY <1>2, <1>3 DEF Inv, StoredIsStored, IsStored
<1>11. StoredOnce' BY DEF Inv, StoredOnce
<1>12. AcceptedIsKept'
  <2> SUFFICES ASSUME NEW i \in Ids, NEW e \in payload[i], ~IsStored(e)
               PROVE  \E m \in q'.stream \cup q'.failed : e \in payload[m]
    BY DEF AcceptedIsKept, IsStored
  <2>1. PICK m \in q.stream \cup q.failed : e \in payload[m] BY DEF Inv, AcceptedIsKept
  <2>2. m \in q'.stream \cup q'.failed BY <2>1
  <2> QED BY <2>1, <2>2
<1> QED BY <1>4, <1>5, <1>6, <1>7, <1>8, <1>9, <1>10, <1>11, <1>12 DEF Inv

(* finish, fail and schedule_retry, fenced by the ownership of the entry.  *)
LEMMA SettleInv == ASSUME Inv, NEW w \in Workers, Settle(w) PROVE Inv'
<1>1. q \in Queue /\ w \in Consumers /\ lock \in Workers \cup {NoOne} /\ OwnersAreOld
  BY AtWork DEF Inv
<1>2. job[w].kind # "idle" => job[w].id \in Ids BY DEF Inv, JobsAreSet
<1>3. job[w].id <= q.last BY AtWork
<1>4. UNCHANGED <<payload, rows, lock>> BY DEF Settle, Finish, Refuse, ScheduleRetry
<1>5. \A v \in Workers : job[v].kind \in InTransaction => lock' = v
  BY <1>4 DEF Inv, LocksAreHeld
<1>6. CASE UNCHANGED q /\ Rest(w)
  BY <1>1, <1>4, <1>5, <1>6, RestInv DEF OwnersAreOld
<1>7. CASE Finish(w)
  <2>1. job[w].kind = "stored" /\ job[w].id \in Ids /\ Rest(w) BY <1>2, <1>7 DEF Finish, At
  <2>2. CASE Owns(w)
    <3>1. /\ q' \in Queue /\ q'.stream = q.stream \ {job[w].id} /\ q'.last = q.last
          /\ q'.read = q.read /\ q'.owner = [q.owner EXCEPT ![job[w].id] = NoOne]
          /\ q'.failed = q.failed
      BY <1>1, <1>7, <2>1, <2>2, RemoveFacts, SizeAssumption DEF Finish
    <3>2. \A e \in payload[job[w].id] : IsStored(e) BY <2>1 DEF Inv, StoredIsStored
    <3>3. "stored" \notin InTransaction BY DEF InTransaction
    <3> QED BY <1>4, <2>1, <3>1, <3>2, <3>3, LeaveInv
  <2>3. CASE ~Owns(w) BY <1>6, <1>7, <2>1, <2>3 DEF Finish
  <2> QED BY <2>2, <2>3
<1>8. CASE Refuse(w)
  <2>1. job[w].kind = "rejected" /\ job[w].id \in Ids BY <1>2, <1>8 DEF Refuse, At
  <2>2. CASE Owns(w) /\ CanArchive(q, FailedSize)
    <3> DEFINE s == Archive(q, job[w].id, FailedSize)
    <3>1. /\ s \in Queue /\ s.stream = q.stream /\ s.last = q.last /\ s.read = q.read
          /\ s.owner = q.owner /\ s.failed = q.failed \cup {job[w].id}
      BY <1>1, <2>1, ArchiveFacts, SizeAssumption
    <3>2. q' = Remove(s, job[w].id, EntrySize) /\ Rest(w) BY <1>8, <2>2 DEF Refuse
    <3> HIDE DEF s
    <3>3. /\ q' \in Queue /\ q'.stream = q.stream \ {job[w].id} /\ q'.last = q.last
          /\ q'.read = q.read /\ q'.owner = [q.owner EXCEPT ![job[w].id] = NoOne]
          /\ q'.failed = q.failed \cup {job[w].id}
      BY <2>1, <3>1, <3>2, RemoveFacts, SizeAssumption
    <3>4. "rejected" \notin InTransaction BY DEF InTransaction
    <3> QED BY <1>3, <1>4, <2>1, <3>2, <3>3, <3>4, LeaveInv
  <2>3. CASE Owns(w) /\ ~CanArchive(q, FailedSize)
    <3>1. UNCHANGED q /\ Go(w, "retry") BY <1>8, <2>3 DEF Refuse
    <3>2. "retry" \in Kinds /\ "retry" \notin InTransaction BY DEF Kinds, InTransaction
    <3> QED BY <1>1, <1>4, <1>5, <2>1, <3>1, <3>2, GoInv
  <2>4. CASE ~Owns(w) BY <1>6, <1>8, <2>4 DEF Refuse
  <2> QED BY <2>2, <2>3, <2>4
<1>9. CASE ScheduleRetry(w)
  <2>1. job[w].id \in Ids /\ Rest(w) BY <1>2, <1>9 DEF ScheduleRetry, At
  <2>2. CASE Owned(q, job[w].id, w)
    <3>1. /\ q' \in Queue /\ q'.stream = q.stream /\ q'.last = q.last /\ q'.read = q.read
          /\ q'.failed = q.failed /\ q'.owner = [q.owner EXCEPT ![job[w].id] = w]
      BY <1>1, <1>9, <2>1, <2>2, RetryFacts DEF ScheduleRetry
    <3>2. q.owner \in [Ids -> Consumers \cup {NoOne}] BY <1>1 DEF Queue
    <3>3. OwnersAreOld' BY <1>1, <1>3, <3>1, <3>2 DEF OwnersAreOld
    <3> QED BY <1>1, <1>4, <1>5, <2>1, <3>1, <3>3, RestInv
  <2>3. CASE ~Owned(q, job[w].id, w) BY <1>6, <1>9, <2>1, <2>3 DEF ScheduleRetry
  <2> QED BY <2>2, <2>3
<1> QED BY <1>7, <1>8, <1>9 DEF Settle

(* A step of a loop that is cut short.                                     *)
LEMMA StopInv == ASSUME Inv, NEW w \in Workers, Abandon(w) \/ Crash(w) PROVE Inv'
<1>1. q \in Queue /\ lock \in Workers \cup {NoOne} /\ OwnersAreOld BY AtWork DEF Inv
<1>2. CASE Abandon(w)
  <2>1. \A v \in Workers : job[v].kind \in InTransaction => lock' = v
    BY <1>2 DEF Abandon, Inv, LocksAreHeld
  <2> QED BY <1>1, <1>2, <2>1, RestInv DEF Abandon, OwnersAreOld
<1>3. CASE Crash(w)
  <2>1. /\ q' \in Queue /\ q'.stream = q.stream /\ q'.last = q.last /\ q'.read = q.read
        /\ q'.failed = q.failed
        /\ \A i \in Ids : q'.owner[i] = IF q.owner[i] = w THEN Former ELSE q.owner[i]
    BY <1>1, <1>3, DisownFacts DEF Crash
  <2>2. OwnersAreOld' BY <1>1, <2>1, NamesAssumption DEF OwnersAreOld
  <2> QED BY <1>3, <2>1, <2>2, RestInv, UnlockFacts DEF Crash
<1> QED BY <1>2, <1>3

(* Consumer names and time.                                                *)
LEMMA OtherInv ==
    ASSUME Inv, \/ \E w \in Workers, c \in Consumers : CleanNames(w, c)
                \/ \E id \in Ids : GoIdle(id) \/ ComeDue(id)
    PROVE  Inv'
<1>1. q \in Queue /\ OwnersAreOld BY DEF Inv, TypeOK
<1>2. /\ q' \in Queue /\ q'.stream = q.stream /\ q'.last = q.last /\ q'.read = q.read
      /\ q'.failed = q.failed /\ q'.owner = q.owner /\ UNCHANGED <<payload, rows, lock, job>>
  BY <1>1, NameFacts, TimeFacts DEF CleanNames, GoIdle, ComeDue
<1>3. OwnersAreOld' BY <1>1, <1>2 DEF OwnersAreOld
<1> QED BY <1>2, <1>3, QueueFrame

-----------------------------------------------------------------------------
(* The theorems.                                                           *)

(* Inv is an inductive invariant of the log ingest.                        *)
THEOREM Invariance == Spec => []Inv
<1>1. Init => Inv BY InitInv
<1>2. Inv /\ [Next]_vars => Inv'
  <2> SUFFICES ASSUME Inv, [Next]_vars PROVE Inv' OBVIOUS
  <2>1. CASE \E events \in SUBSET Events \ {{}} : Push(events) BY <2>1, PushInv
  <2>2. CASE \E id \in Ids : ReplayFailed(id) BY <2>2, ReplayInv
  <2>3. CASE \E w \in Workers : Claim(w) BY <2>3, ClaimInv
  <2>4. CASE \E w \in Workers : Insert(w) BY <2>4, InsertInv
  <2>5. CASE \E w \in Workers : Settle(w) BY <2>5, SettleInv
  <2>6. CASE \E w \in Workers : Abandon(w) \/ Crash(w) BY <2>6, StopInv
  <2>7. CASE \/ \E w \in Workers, c \in Consumers : CleanNames(w, c)
             \/ \E id \in Ids : GoIdle(id) \/ ComeDue(id)
    BY <2>7, OtherInv
  <2>8. CASE UNCHANGED vars
    <3>1. UNCHANGED <<q, payload, rows, lock, job>> BY <2>8 DEF vars
    <3> QED BY <3>1, QueueFrame DEF Inv, TypeOK, OwnersAreOld
  <2> QED BY <2>1, <2>2, <2>3, <2>4, <2>5, <2>6, <2>7, <2>8 DEF Next
<1> QED BY <1>1, <1>2, PTL DEF Spec

(* The log ingest is type correct.                                         *)
THEOREM LogTypeCorrect == Spec => []TypeOK
<1>1. Inv => TypeOK BY DEF Inv
<1> QED BY <1>1, Invariance, PTL

(* A log event is stored at most once, whatever is sent, delivered or      *)
(* replayed again.                                                         *)
THEOREM LogStoredOnce == Spec => []StoredOnce
<1>1. Inv => StoredOnce BY DEF Inv
<1> QED BY <1>1, Invariance, PTL

(* An acknowledged log event is stored, queued or archived.                *)
THEOREM LogAcceptedIsKept == Spec => []AcceptedIsKept
<1>1. Inv => AcceptedIsKept BY DEF Inv
<1> QED BY <1>1, Invariance, PTL

-----------------------------------------------------------------------------
(* The byte counters.                                                      *)

(* No delivery is queued and archived at once: a replay makes a new entry. *)
Apart == q.failed \cap q.stream = {}

Counted == BudgetsMatch /\ Apart

(* Steps that leave the entries and the counters alone.                    *)
LEMMA CountedFrame == ASSUME Counted, SameCounts(q, q') PROVE Counted'
BY DEF Counted, BudgetsMatch, Apart, SameCounts

(* What the counters are before a step.                                    *)
LEMMA CountedNow ==
    ASSUME Inv, Counted
    PROVE  /\ q \in Queue /\ q.stream \in SUBSET Ids /\ q.failed \in SUBSET Ids
           /\ q.bytes \in Nat /\ q.failedBytes \in Nat
           /\ q.bytes = EntrySize * Cardinality(q.stream)
           /\ q.failedBytes = FailedSize * Cardinality(q.failed)
BY DEF Inv, TypeOK, Queue, Counted, BudgetsMatch

(* One queued delivery more, one less; one archived delivery more, less.   *)
LEMMA OneMore ==
    ASSUME NEW S \in SUBSET Ids, NEW x \in Ids, x \notin S, NEW a \in Nat
    PROVE  a * Cardinality(S \cup {x}) = a * Cardinality(S) + a
<1>1. Cardinality(S) \in Nat /\ Cardinality(S \cup {x}) = Cardinality(S) + 1 BY Sizes
<1> QED BY <1>1, Products

(* ... and one less.                                                       *)
LEMMA OneLess ==
    ASSUME NEW S \in SUBSET Ids, NEW x \in S, NEW a \in Nat
    PROVE  a * Cardinality(S \ {x}) = a * Cardinality(S) - a /\ a * Cardinality(S) >= a
<1>1. /\ Cardinality(S) \in Nat /\ Cardinality(S) >= 1
      /\ Cardinality(S \ {x}) = Cardinality(S) - 1
  BY Sizes
<1> QED BY <1>1, Products

(* The new entry of a push or a replay.                                    *)
LEMMA CountedAppend ==
    ASSUME Inv, Counted, q.last < MaxAppends
    PROVE  LET s == AddEntry(q, EntrySize) IN
           /\ s \in Queue /\ s.failed = q.failed /\ s.failedBytes = q.failedBytes
           /\ s.bytes = EntrySize * Cardinality(s.stream)
           /\ s.failed \cap s.stream = {}
<1> DEFINE n == q.last + 1  s == AddEntry(q, EntrySize)
<1>0. q \in Queue BY CountedNow
<1>1. q.last \in Nat /\ q.stream \in SUBSET Ids /\ EntrySize \in Nat
  BY <1>0, SizeAssumption DEF Queue
<1>2. s \in Queue /\ s.stream = q.stream \cup {n} /\ s.failed = q.failed
  BY <1>0, <1>1, AppendFacts
<1>3. s.bytes = q.bytes + EntrySize /\ s.failedBytes = q.failedBytes
  BY <1>0, <1>1, AppendCounts
<1>4. n \in Ids /\ n > q.last BY <1>1, BudgetAssumption DEF Ids
<1>5. n \notin q.stream /\ n \notin q.failed BY <1>1, <1>4 DEF Inv, NoFuture
<1>6. EntrySize * Cardinality(q.stream \cup {n}) = EntrySize * Cardinality(q.stream) + EntrySize
  BY <1>1, <1>4, <1>5, OneMore
<1>7. s.failed \cap s.stream = {} BY <1>2, <1>5 DEF Counted, Apart
<1> HIDE DEF s, n
<1>8. s.bytes = EntrySize * Cardinality(s.stream) BY <1>2, <1>3, <1>6, CountedNow
<1> QED BY <1>2, <1>3, <1>7, <1>8 DEF s

(* A delivery of a node.                                                   *)
LEMMA CountedPush == ASSUME Inv, Counted, NEW events, Push(events) PROVE Counted'
<1>1. q.last < MaxAppends /\ q' = AddEntry(q, EntrySize) BY DEF Push
<1> QED BY <1>1, CountedAppend, CountedNow DEF Counted, BudgetsMatch, Apart

(* A replay: one entry more, one archived delivery less.                   *)
LEMMA CountedReplay == ASSUME Inv, Counted, NEW id \in Ids, ReplayFailed(id) PROVE Counted'
<1> DEFINE s == AddEntry(q, EntrySize)
<1>1. q.last < MaxAppends /\ id \in q.failed /\ q' = Unarchive(s, id, FailedSize) BY DEF ReplayFailed
<1>2. /\ s \in Queue /\ s.failed = q.failed /\ s.failedBytes = q.failedBytes
      /\ s.bytes = EntrySize * Cardinality(s.stream) /\ s.failed \cap s.stream = {}
  BY <1>1, CountedAppend
<1> HIDE DEF s
<1>3. FailedSize \in Nat BY SizeAssumption
<1>4. q'.stream = s.stream /\ q'.failed = s.failed \ {id} BY <1>1, <1>2, <1>3, UnarchiveFacts
<1>5. /\ q'.bytes = s.bytes
      /\ q'.failedBytes = IF s.failedBytes > FailedSize THEN s.failedBytes - FailedSize ELSE 0
  BY <1>1, <1>2, <1>3, UnarchiveCounts
<1>6. /\ FailedSize * Cardinality(q.failed \ {id}) = FailedSize * Cardinality(q.failed) - FailedSize
      /\ FailedSize * Cardinality(q.failed) >= FailedSize
  BY <1>1, <1>3, OneLess, CountedNow
<1>7. q'.failedBytes = FailedSize * Cardinality(q.failed) - FailedSize
  BY <1>2, <1>3, <1>5, <1>6, CountedNow
<1> QED BY <1>2, <1>4, <1>5, <1>6, <1>7 DEF Counted, BudgetsMatch, Apart

(* An entry leaves the queue with its bytes.                               *)
LEMMA CountedRemove ==
    ASSUME NEW s \in Queue, s.bytes = EntrySize * Cardinality(s.stream), NEW id \in s.stream
    PROVE  LET t == Remove(s, id, EntrySize) IN
           /\ t.stream = s.stream \ {id} /\ t.failed = s.failed /\ t.failedBytes = s.failedBytes
           /\ t.bytes = EntrySize * Cardinality(t.stream)
<1> DEFINE t == Remove(s, id, EntrySize)
<1>1. id \in Ids /\ EntrySize \in Nat /\ s.stream \in SUBSET Ids /\ s.bytes \in Nat
  BY SizeAssumption DEF Queue
<1>2. t.stream = s.stream \ {id} /\ t.failed = s.failed BY <1>1, RemoveFacts
<1>3. /\ t.failedBytes = s.failedBytes
      /\ t.bytes = IF s.bytes > EntrySize THEN s.bytes - EntrySize ELSE 0
  BY <1>1, RemoveCounts
<1>4. /\ EntrySize * Cardinality(s.stream \ {id}) = EntrySize * Cardinality(s.stream) - EntrySize
      /\ EntrySize * Cardinality(s.stream) >= EntrySize
  BY <1>1, OneLess
<1> HIDE DEF t
<1>5. t.bytes = s.bytes - EntrySize BY <1>1, <1>3, <1>4
<1> QED BY <1>2, <1>3, <1>4, <1>5 DEF t

(* A stored delivery leaves the queue, a refused one for the archive.      *)
LEMMA CountedSettle == ASSUME Inv, Counted, NEW w \in Workers, Settle(w) PROVE Counted'
<1> DEFINE id == job[w].id
<1>0. q \in Queue BY CountedNow
<1>1. CASE Finish(w)
  <2>1. CASE Owns(w)
    <3>1. id \in q.stream /\ q' = Remove(q, id, EntrySize) BY <1>1, <2>1 DEF Finish, Owns
    <3> QED BY <1>0, <3>1, CountedNow, CountedRemove DEF Counted, BudgetsMatch, Apart
  <2>2. CASE ~Owns(w) BY <1>1, <2>2, CountedFrame DEF Finish, SameCounts
  <2> QED BY <2>1, <2>2
<1>2. CASE Refuse(w)
  <2>1. CASE Owns(w) /\ CanArchive(q, FailedSize)
    <3> DEFINE s == Archive(q, id, FailedSize)
    <3>1. id \in q.stream /\ q' = Remove(s, id, EntrySize) BY <1>2, <2>1 DEF Refuse, Owns
    <3>2. id \in Ids /\ FailedSize \in Nat /\ id \notin q.failed
      BY <3>1, CountedNow, SizeAssumption DEF Counted, Apart
    <3>3. s \in Queue /\ s.stream = q.stream /\ s.failed = q.failed \cup {id}
      BY <1>0, <3>2, ArchiveFacts
    <3>4. s.bytes = q.bytes /\ s.failedBytes = q.failedBytes + FailedSize
      BY <1>0, <3>2, ArchiveCounts
    <3>5. FailedSize * Cardinality(q.failed \cup {id}) = FailedSize * Cardinality(q.failed) + FailedSize
      BY <3>2, OneMore, CountedNow
    <3> HIDE DEF s
    <3>6. s.bytes = EntrySize * Cardinality(s.stream) BY <3>3, <3>4, CountedNow
    <3>7. /\ q'.stream = s.stream \ {id} /\ q'.failed = s.failed /\ q'.failedBytes = s.failedBytes
          /\ q'.bytes = EntrySize * Cardinality(q'.stream)
      BY <3>1, <3>3, <3>6, CountedRemove
    <3>8. q'.failedBytes = FailedSize * Cardinality(q'.failed)
      BY <3>3, <3>4, <3>5, <3>7, CountedNow
    <3>9. Apart' BY <3>3, <3>7 DEF Counted, Apart
    <3> QED BY <3>7, <3>8, <3>9 DEF Counted, BudgetsMatch
  <2>2. CASE ~(Owns(w) /\ CanArchive(q, FailedSize))
    <3>1. q' = q BY <1>2, <2>2 DEF Refuse
    <3> QED BY <3>1, CountedFrame DEF SameCounts
  <2> QED BY <2>1, <2>2
<1>3. CASE ScheduleRetry(w)
  <2>1. q' = q \/ q' = Retry(q, id, w) BY <1>3 DEF ScheduleRetry
  <2>2. SameCounts(q, q') BY <1>0, <2>1, CountsKept DEF SameCounts
  <2> QED BY <2>2, CountedFrame
<1> QED BY <1>1, <1>2, <1>3 DEF Settle

(* Every step keeps the counters.                                          *)
LEMMA CountedStep == Inv /\ Counted /\ [Next]_vars => Counted'
<1> SUFFICES ASSUME Inv, Counted, [Next]_vars PROVE Counted' OBVIOUS
<1>0. q \in Queue BY CountedNow
<1>1. ASSUME NEW events \in SUBSET Events, Push(events) PROVE Counted' BY <1>1, CountedPush
<1>2. ASSUME NEW id \in Ids, ReplayFailed(id) PROVE Counted' BY <1>2, CountedReplay
<1>3. ASSUME NEW id \in Ids, GoIdle(id) \/ ComeDue(id) PROVE Counted'
  <2>1. SameCounts(q, q') BY <1>0, <1>3, CountsKept DEF GoIdle, ComeDue
  <2> QED BY <2>1, CountedFrame
<1>4. ASSUME NEW w \in Workers, Claim(w) PROVE Counted'
  <2>1. SameCounts(q, q') BY <1>0, <1>4, CountsKept DEF Claim, TakeNew, TakeDue, TakeAbandoned
  <2> QED BY <2>1, CountedFrame
<1>5. ASSUME NEW w \in Workers, Insert(w) \/ Abandon(w) PROVE Counted'
  <2>1. q' = q BY <1>5 DEF Insert, LockOwner, LookUp, Commit, CommitUnseen, Inserted, Reject, Fail, Abandon
  <2> QED BY <2>1, CountedFrame DEF SameCounts
<1>6. ASSUME NEW w \in Workers, Settle(w) PROVE Counted' BY <1>6, CountedSettle
<1>7. ASSUME NEW w \in Workers, Crash(w) PROVE Counted'
  BY <1>0, <1>7, CountsKept, CountedFrame DEF Crash
<1>8. ASSUME NEW w \in Workers, NEW c \in Consumers, CleanNames(w, c) PROVE Counted'
  BY <1>0, <1>8, CountsKept, CountedFrame DEF CleanNames
<1>9. CASE UNCHANGED vars BY <1>9, CountedFrame DEF vars, SameCounts
<1> QED BY <1>1, <1>2, <1>3, <1>4, <1>5, <1>6, <1>7, <1>8, <1>9 DEF Next

(* Neither budget of the log queue leaks or is released twice, whatever    *)
(* former owners finish, refuse or retry and an operator replays.          *)
THEOREM LogBudgetsMatch == Spec => []BudgetsMatch
<1>1. Init => Counted
  <2>1. Cardinality({}) = 0 BY FS_EmptySet
  <2> QED BY <2>1, SizeAssumption DEF Init, EmptyQueue, Counted, BudgetsMatch, Apart
<1>2. Counted => BudgetsMatch BY DEF Counted
<1> QED BY <1>1, <1>2, CountedStep, Invariance, PTL DEF Spec

-----------------------------------------------------------------------------
(* Nothing of a delivery outlives it, and nothing read is beyond reach.    *)

LEMMA TidySettle ==
    ASSUME Inv, Tidy(q), NEW w \in Workers, Settle(w)
    PROVE  Tidy(q)'
<1> DEFINE id == job[w].id
<1>0. q \in Queue BY DEF Inv, TypeOK
<1>1. w \in Consumers /\ w # NoOne BY NamesAssumption DEF Consumers
<1>2. id \in Ids BY DEF Settle, Finish, Refuse, ScheduleRetry, At, Inv, JobsAreSet
<1>3. CASE q' = q BY <1>3
<1>4. CASE Finish(w)
  <2>1. CASE Owns(w)
    <3>1. q' = Remove(q, id, EntrySize) /\ q.owner[id] # NoOne BY <1>1, <1>4, <2>1 DEF Finish, Owns, Owned
    <3>2. Tidy(Remove(q, id, EntrySize)) BY <1>0, <1>2, <3>1, TidyRemove, SizeAssumption
    <3> QED BY <3>1, <3>2
  <2> QED BY <1>3, <1>4, <2>1 DEF Finish
<1>5. CASE Refuse(w)
  <2>1. CASE Owns(w) /\ CanArchive(q, FailedSize)
    <3> DEFINE t == Archive(q, id, FailedSize)
    <3>1. q' = Remove(t, id, EntrySize) BY <1>5, <2>1 DEF Refuse
    <3>2. FailedSize \in Nat /\ EntrySize \in Nat BY SizeAssumption
    <3>3. t \in Queue /\ t.owner = q.owner BY <1>0, <1>2, <3>2, ArchiveFacts
    <3>4. Tidy(t) BY <1>0, <1>2, <3>2, TidyBudgets
    <3>5. q.owner[id] # NoOne BY <1>1, <2>1 DEF Owns, Owned
    <3> HIDE DEF t
    <3>6. Tidy(Remove(t, id, EntrySize)) BY <1>2, <3>2, <3>3, <3>4, <3>5, TidyRemove
    <3> QED BY <3>1, <3>6
  <2>2. CASE ~(Owns(w) /\ CanArchive(q, FailedSize)) BY <1>3, <1>5, <2>2 DEF Refuse
  <2> QED BY <2>1, <2>2
<1>6. CASE ScheduleRetry(w)
  <2>1. CASE Owned(q, id, w)
    <3>1. q' = Retry(q, id, w) /\ q.owner[id] # NoOne BY <1>1, <1>6, <2>1 DEF ScheduleRetry, Owned
    <3>2. Tidy(Retry(q, id, w)) BY <1>0, <1>1, <1>2, <3>1, TidyClaims
    <3> QED BY <3>1, <3>2
  <2> QED BY <1>3, <1>6, <2>1 DEF ScheduleRetry
<1> QED BY <1>4, <1>5, <1>6 DEF Settle

LEMMA TidyStep == Inv /\ Tidy(q) /\ [Next]_vars => Tidy(q)'
<1> SUFFICES ASSUME Inv, Tidy(q), [Next]_vars PROVE Tidy(q)' OBVIOUS
<1>0. q \in Queue BY DEF Inv, TypeOK
<1>1. ASSUME NEW events \in SUBSET Events, Push(events) PROVE Tidy(q)'
  <2>1. q' = AddEntry(q, EntrySize) /\ q.last < MaxAppends BY <1>1 DEF Push
  <2>2. Tidy(AddEntry(q, EntrySize)) BY <1>0, <2>1, TidyAppend, SizeAssumption
  <2> QED BY <2>1, <2>2
<1>2. ASSUME NEW id \in Ids, ReplayFailed(id) PROVE Tidy(q)'
  <2> DEFINE t == AddEntry(q, EntrySize)
  <2>1. q' = Unarchive(t, id, FailedSize) /\ q.last < MaxAppends BY <1>2 DEF ReplayFailed
  <2>2. t \in Queue BY <1>0, <2>1, AppendFacts, SizeAssumption
  <2>3. Tidy(t) BY <1>0, <2>1, TidyAppend, SizeAssumption
  <2> HIDE DEF t
  <2>4. Tidy(Unarchive(t, id, FailedSize)) BY <2>2, <2>3, TidyBudgets, SizeAssumption
  <2> QED BY <2>1, <2>4
<1>3. ASSUME NEW id \in Ids, GoIdle(id) PROVE Tidy(q)'
  <2>1. q' = GoesIdle(q, id) BY <1>3 DEF GoIdle
  <2>2. Tidy(GoesIdle(q, id)) BY <1>0, TidyTime
  <2> QED BY <2>1, <2>2
<1>4. ASSUME NEW id \in Ids, ComeDue(id) PROVE Tidy(q)'
  <2>1. q' = ComesDue(q, id) /\ id \in q.later BY <1>4 DEF ComeDue
  <2>2. Tidy(ComesDue(q, id)) BY <1>0, <2>1, TidyTime
  <2> QED BY <2>1, <2>2
<1>5. ASSUME NEW w \in Workers, Claim(w) PROVE Tidy(q)'
  <2>0. w \in Consumers BY DEF Consumers
  <2>1. CASE TakeNew(w)
    <3>1. q' = ReadNext(q, w) /\ CanRead(q) BY <2>1 DEF TakeNew
    <3>2. Tidy(ReadNext(q, w)) BY <1>0, <2>0, <3>1, TidyRead
    <3> QED BY <3>1, <3>2
  <2>2. ASSUME NEW id \in Ids, TakeDue(w, id) PROVE Tidy(q)'
    <3>1. q' = ClaimDue(q, id, w) BY <2>2 DEF TakeDue
    <3>2. Tidy(ClaimDue(q, id, w)) BY <1>0, <2>0, TidyClaims
    <3> QED BY <3>1, <3>2
  <2>3. ASSUME NEW id \in Ids, TakeAbandoned(w, id) PROVE Tidy(q)'
    <3>1. q' = Reclaim(q, id, w) /\ q.owner[id] # NoOne BY <2>3 DEF TakeAbandoned, CanReclaim
    <3>2. Tidy(Reclaim(q, id, w)) BY <1>0, <2>0, <3>1, TidyClaims
    <3> QED BY <3>1, <3>2
  <2> QED BY <1>5, <2>1, <2>2, <2>3 DEF Claim
<1>6. ASSUME NEW w \in Workers, Insert(w) \/ Abandon(w) PROVE Tidy(q)'
  <2>1. q' = q BY <1>6 DEF Insert, LockOwner, LookUp, Commit, CommitUnseen, Inserted, Reject, Fail, Abandon
  <2> QED BY <2>1
<1>7. ASSUME NEW w \in Workers, Settle(w) PROVE Tidy(q)' BY <1>7, TidySettle
<1>8. ASSUME NEW w \in Workers, Crash(w) PROVE Tidy(q)'
  <2>1. q' = Disown(q, w) BY <1>8 DEF Crash
  <2>2. Tidy(Disown(q, w)) BY <1>0, TidyNames
  <2> QED BY <2>1, <2>2
<1>9. ASSUME NEW w \in Workers, NEW c \in Consumers, CleanNames(w, c) PROVE Tidy(q)'
  <2>1. q' = RemoveName(q, c) /\ NameIsEmpty(q, c) BY <1>9 DEF CleanNames
  <2>2. Tidy(RemoveName(q, c)) BY <1>0, <2>1, TidyNames
  <2> QED BY <2>1, <2>2
<1>10. CASE UNCHANGED vars BY <1>10 DEF vars
<1> QED BY <1>1, <1>2, <1>3, <1>4, <1>5, <1>6, <1>7, <1>8, <1>9, <1>10 DEF Next

(* Whatever crashes, retries, takeovers and replays come between: retry    *)
(* state belongs to queued deliveries, and every delivery that was read    *)
(* and is still queued is in the pending list, where a reclaim finds it.   *)
THEOREM LogNothingStranded == Spec => []Tidy(q)
<1>1. Init => Tidy(q) BY TidyEmpty DEF Init
<1> QED BY <1>1, TidyStep, Invariance, PTL DEF Spec

-----------------------------------------------------------------------------
(* The delivery on the node.  The events of a source stand in a line:      *)
(* accepted or under way, queued, waiting, in the channel, staged.         *)

(* A queue in the order of production.                                     *)
Inc(z) == \A i, j \in 1 .. Len(z) : i < j => z[i] < z[j]

(* Every event of a queue is after one and not after another.              *)
Between(z, lo, hi) == \A i \in 1 .. Len(z) : lo < z[i] /\ z[i] <= hi

(* The batches of a channel follow each other.                             *)
Batches(c, lo, hi) ==
    /\ \A k \in 1 .. Len(c) : Inc(c[k]) /\ Between(c[k], lo, hi)
    /\ \A k, l \in 1 .. Len(c) : k < l =>
          \A i \in 1 .. Len(c[k]), j \in 1 .. Len(c[l]) : c[k][i] < c[l][j]

(* flush keeps a producer a producer.                                      *)
LEMMA FlushedType ==
    ASSUME NEW p \in Producer
    PROVE  Flushed(p) \in Producer
<1>1. Len(p.staged) \in Nat BY LenProperties DEF Producer
<1>2. Append(p.channel, p.staged) \in Seq(Seq(EventIds))
  BY AppendProperties DEF Producer
<1>3. <<>> \in Seq(EventIds) BY EmptySeq
<1>4. CASE p.staged = <<>> BY <1>4 DEF Flushed
<1>f. /\ p.made \in Nat /\ p.staged \in Seq(EventIds) /\ p.channel \in Seq(Seq(EventIds))
      /\ p.published \in Nat /\ p.dropped \in Nat /\ p.open \in BOOLEAN
      /\ p = [made |-> p.made, staged |-> p.staged, channel |-> p.channel,
              published |-> p.published, dropped |-> p.dropped, open |-> p.open]
  BY DEF Producer
<1>5. CASE p.staged # <<>> /\ Len(p.channel) < ChannelSize
  <2>1. Flushed(p) = [made |-> p.made, staged |-> <<>>, channel |-> Append(p.channel, p.staged),
                      published |-> p.published + Len(p.staged), dropped |-> p.dropped,
                      open |-> p.open]
    BY <1>5, <1>f DEF Flushed
  <2>2. p.published + Len(p.staged) \in Nat BY <1>f, <1>1
  <2> QED BY <2>1, <1>f, <2>2, <1>2, <1>3 DEF Producer
<1>6. CASE p.staged # <<>> /\ ~(Len(p.channel) < ChannelSize)
  <2>1. Flushed(p) = [made |-> p.made, staged |-> <<>>, channel |-> p.channel,
                      published |-> p.published, dropped |-> p.dropped + Len(p.staged),
                      open |-> p.open]
    BY <1>6, <1>f DEF Flushed
  <2>2. p.dropped + Len(p.staged) \in Nat BY <1>f, <1>1
  <2> QED BY <2>1, <1>f, <2>2, <1>3 DEF Producer
<1> QED BY <1>4, <1>5, <1>6

(* The stations of the events of a source on their way: accepted or under  *)
(* way (up to n1), queued, waiting, in the channel, staged.                *)
Marked(A, F, P, W, c, st, m, n1, n2, n3, n4) ==
    /\ n1 <= n2 /\ n2 <= n3 /\ n3 <= n4 /\ n4 <= m
    /\ \A e \in A : e <= n1
    /\ Between(F, 0, n1) /\ Between(P, n1, n2) /\ Between(W, n2, n3)
    /\ Batches(c, n3, n4) /\ Between(st, n4, m)
    /\ Inc(F) /\ Inc(P) /\ Inc(W) /\ Inc(st)

(* There are such marks.                                                   *)
LineUp(A, F, P, W, c, st, m) ==
    \E n1, n2, n3, n4 \in Nat : Marked(A, F, P, W, c, st, m, n1, n2, n3, n4)

(* Nothing is in every order and between any two numbers.                  *)
LEMMA EmptyIsBetween ==
    ASSUME NEW lo \in Nat, NEW hi \in Nat
    PROVE  Inc(<<>>) /\ Between(<<>>, lo, hi)
BY DEF Inc, Between

(* Bounds may be widened.                                                  *)
LEMMA BetweenWider ==
    ASSUME NEW z \in Seq(EventIds), NEW lo \in Nat, NEW hi \in Nat, NEW l2 \in Nat, NEW h2 \in Nat,
           Between(z, lo, hi), l2 <= lo, hi <= h2
    PROVE  Between(z, l2, h2)
<1>1. \A i \in 1 .. Len(z) : z[i] \in EventIds BY ElementOfSeq
<1> QED BY <1>1 DEF Between, EventIds

(* A batch newer than those of the channel may follow them.                *)
LEMMA BatchesAppend ==
    ASSUME NEW c \in Seq(Seq(EventIds)), NEW st \in Seq(EventIds),
           NEW lo \in Nat, NEW mid \in Nat, NEW m \in Nat, lo <= mid, mid <= m,
           Batches(c, lo, mid), Between(st, mid, m), Inc(st)
    PROVE  Batches(Append(c, st), lo, m)
<1> DEFINE d == Append(c, st)
<1>1. /\ Len(d) = Len(c) + 1 /\ d[Len(c) + 1] = st /\ Len(c) \in Nat
      /\ \A k \in 1 .. Len(c) : d[k] = c[k]
  BY AppendProperties, LenProperties
<1> HIDE DEF d
<1>2. \A k \in 1 .. Len(c) : c[k] \in Seq(EventIds) BY ElementOfSeq
<1>3. \A k \in 1 .. Len(c) : Inc(c[k]) /\ Between(c[k], lo, m)
  <2> SUFFICES ASSUME NEW k \in 1 .. Len(c) PROVE Inc(c[k]) /\ Between(c[k], lo, m) OBVIOUS
  <2> DEFINE z == c[k]
  <2>1. z \in Seq(EventIds) BY <1>2
  <2>2. Inc(z) /\ Between(z, lo, mid) BY DEF Batches
  <2> HIDE DEF z
  <2>3. Between(z, lo, m) BY <2>1, <2>2, BetweenWider
  <2> QED BY <2>2, <2>3 DEF z
<1>4. Between(st, lo, m) BY BetweenWider
<1>5. \A k \in 1 .. Len(d) : k \in 1 .. Len(c) \/ k = Len(c) + 1 BY <1>1
<1>6. \A k \in 1 .. Len(d) : Inc(d[k]) /\ Between(d[k], lo, m) BY <1>1, <1>3, <1>4, <1>5
<1>7. ASSUME NEW k \in 1 .. Len(c), NEW i \in 1 .. Len(c[k]), NEW j \in 1 .. Len(st)
      PROVE  c[k][i] < st[j]
  <2>1. c[k][i] <= mid /\ mid < st[j] BY DEF Batches, Between
  <2>2. c[k][i] \in EventIds /\ st[j] \in EventIds BY <1>2, ElementOfSeq
  <2> DEFINE x == c[k][i] y == st[j]
  <2>3. x \in Nat /\ y \in Nat /\ x <= mid /\ mid < y BY <2>1, <2>2 DEF EventIds
  <2> HIDE DEF x, y
  <2>4. x < y BY <2>3
  <2> QED BY <2>4 DEF x, y
<1>8. ASSUME NEW k \in 1 .. Len(d), NEW l \in 1 .. Len(d), k < l
      PROVE  \A i \in 1 .. Len(d[k]), j \in 1 .. Len(d[l]) : d[k][i] < d[l][j]
  <2>1. k \in 1 .. Len(c) BY <1>1, <1>8
  <2>2. d[k] = c[k] BY <2>1, <1>1
  <2>3. CASE l \in 1 .. Len(c)
    <3>1. d[l] = c[l] BY <2>3, <1>1
    <3>2. \A i \in 1 .. Len(c[k]), j \in 1 .. Len(c[l]) : c[k][i] < c[l][j]
      BY <2>1, <2>3, <1>8 DEF Batches
    <3> QED BY <2>2, <3>1, <3>2
  <2>4. CASE l = Len(c) + 1
    <3>1. d[l] = st BY <2>4, <1>1
    <3> QED BY <2>1, <2>2, <3>1, <1>7
  <2> QED BY <2>3, <2>4, <1>5
<1> QED BY <1>6, <1>8 DEF Batches, d

(* flush: the staged batch enters the channel or is dropped.               *)
LEMMA FlushLine ==
    ASSUME NEW A \in SUBSET EventIds, NEW F, NEW P, NEW W,
           NEW c \in Seq(Seq(EventIds)), NEW st \in Seq(EventIds), NEW m \in Nat,
           LineUp(A, F, P, W, c, st, m)
    PROVE  LineUp(A, F, P, W, Append(c, st), <<>>, m) /\ LineUp(A, F, P, W, c, <<>>, m)
<1>1. PICK n1, n2, n3, n4 \in Nat : Marked(A, F, P, W, c, st, m, n1, n2, n3, n4) BY DEF LineUp
<1>2. Batches(Append(c, st), n3, m)
  <2>1. n3 <= n4 /\ n4 <= m /\ Batches(c, n3, n4) /\ Between(st, n4, m) /\ Inc(st) BY <1>1 DEF Marked
  <2> QED BY <2>1, BatchesAppend
<1>3. Inc(<<>>) /\ Between(<<>>, m, m) /\ Between(<<>>, n4, m) BY EmptyIsBetween
<1>4. n3 <= m BY <1>1 DEF Marked
<1>5. Marked(A, F, P, W, Append(c, st), <<>>, m, n1, n2, n3, m) BY <1>1, <1>2, <1>3, <1>4 DEF Marked
<1>6. Marked(A, F, P, W, c, <<>>, m, n1, n2, n3, n4) BY <1>1, <1>3 DEF Marked
<1> QED BY <1>5, <1>6 DEF LineUp

(* append: the next number of the source.                                  *)
LEMMA AppendLine ==
    ASSUME NEW A \in SUBSET EventIds, NEW F, NEW P, NEW W, NEW c,
           NEW st \in Seq(EventIds), NEW m \in Nat,
           LineUp(A, F, P, W, c, st, m)
    PROVE  LineUp(A, F, P, W, c, Append(st, m + 1), m + 1)
<1>1. PICK n1, n2, n3, n4 \in Nat : Marked(A, F, P, W, c, st, m, n1, n2, n3, n4) BY DEF LineUp
<1> DEFINE u == Append(st, m + 1)
<1>e. m + 1 \in EventIds BY DEF EventIds
<1>2. /\ Len(u) = Len(st) + 1 /\ u[Len(st) + 1] = m + 1 /\ Len(st) \in Nat
      /\ \A i \in 1 .. Len(st) : u[i] = st[i]
  BY <1>e, AppendProperties, LenProperties
<1> HIDE DEF u
<1>3. \A i \in 1 .. Len(st) : st[i] \in Nat /\ n4 < st[i] /\ st[i] <= m
  BY <1>1, ElementOfSeq DEF Marked, Between, EventIds
<1>4. Inc(st) /\ n4 <= m BY <1>1 DEF Marked
<1>5. \A i \in 1 .. Len(u) : i \in 1 .. Len(st) \/ i = Len(st) + 1 BY <1>2
<1>6. Inc(u)
  <2> SUFFICES ASSUME NEW i \in 1 .. Len(u), NEW j \in 1 .. Len(u), i < j PROVE u[i] < u[j]
    BY DEF Inc
  <2>1. i \in 1 .. Len(st) BY <1>2
  <2>2. CASE j \in 1 .. Len(st) BY <2>1, <2>2, <1>2, <1>4 DEF Inc
  <2>3. CASE j = Len(st) + 1 BY <2>1, <2>3, <1>2, <1>3
  <2> QED BY <2>2, <2>3, <1>5
<1>7. Between(u, n4, m + 1)
  <2> SUFFICES ASSUME NEW i \in 1 .. Len(u) PROVE n4 < u[i] /\ u[i] <= m + 1 BY DEF Between
  <2>1. CASE i \in 1 .. Len(st) BY <2>1, <1>2, <1>3
  <2>2. CASE i = Len(st) + 1 BY <2>2, <1>2, <1>4
  <2> QED BY <2>1, <2>2, <1>5
<1>8. Marked(A, F, P, W, c, u, m + 1, n1, n2, n3, n4) BY <1>1, <1>4, <1>6, <1>7 DEF Marked
<1> QED BY <1>8 DEF LineUp, u

(* receive_source: the oldest batch of the channel waits.                  *)
LEMMA ReceiveLine ==
    ASSUME NEW A \in SUBSET EventIds, NEW F, NEW P, NEW W,
           NEW c \in Seq(Seq(EventIds)), NEW st, NEW m \in Nat, c # <<>>,
           LineUp(A, F, P, W, c, st, m)
    PROVE  LineUp(A, F, P, Head(c), Tail(c), st, m)
<1>1. PICK n1, n2, n3, n4 \in Nat : Marked(A, F, P, W, c, st, m, n1, n2, n3, n4) BY DEF LineUp
<1> DEFINE h == Head(c) t == Tail(c) x == IF Len(h) = 0 THEN n3 ELSE h[Len(h)]
<1>2. h \in Seq(EventIds) /\ h = c[1] /\ Len(h) \in Nat /\ Len(c) \in Nat /\ 1 \in 1 .. Len(c)
  BY HeadTailProperties, LenProperties, EmptySeq
<1>3. /\ t \in Seq(Seq(EventIds)) /\ Len(t) = Len(c) - 1
      /\ \A k \in 1 .. Len(t) : t[k] = c[k + 1]
  BY HeadTailProperties
<1> HIDE DEF h, t
<1>4. /\ Batches(c, n3, n4) /\ n1 <= n2 /\ n2 <= n3 /\ n3 <= n4 /\ n4 <= m BY <1>1 DEF Marked
<1>5. Inc(h) /\ Between(h, n3, n4) BY <1>2, <1>4 DEF Batches
<1>6. \A i \in 1 .. Len(h) : h[i] \in Nat BY <1>2, ElementOfSeq DEF EventIds
<1>7. x \in Nat /\ n3 <= x /\ x <= n4
  <2>1. CASE Len(h) = 0 BY <2>1, <1>4
  <2>2. CASE Len(h) # 0
    <3>1. Len(h) \in 1 .. Len(h) /\ x = h[Len(h)] BY <2>2, <1>2
    <3>2. n3 < h[Len(h)] /\ h[Len(h)] <= n4 /\ h[Len(h)] \in Nat BY <3>1, <1>5, <1>6 DEF Between
    <3> QED BY <3>1, <3>2
  <2> QED BY <2>1, <2>2
<1>8. Between(h, n2, x)
  <2> SUFFICES ASSUME NEW i \in 1 .. Len(h) PROVE n2 < h[i] /\ h[i] <= x BY DEF Between
  <2>1. n3 < h[i] BY <1>5 DEF Between
  <2>4. Len(h) # 0 BY <1>2
  <2>5. x = h[Len(h)] /\ h[i] \in Nat BY <2>4, <1>6
  <2>6. n2 < h[i] BY <2>1, <2>5, <1>4
  <2>2. CASE i = Len(h) BY <2>2, <2>5, <2>6
  <2>3. CASE i < Len(h)
    <3>1. Len(h) \in 1 .. Len(h) BY <1>2
    <3>2. h[i] < h[Len(h)] BY <3>1, <2>3, <1>5 DEF Inc
    <3>3. h[Len(h)] \in Nat BY <3>1, <1>6
    <3> QED BY <3>2, <3>3, <2>5, <2>6
  <2> QED BY <2>2, <2>3, <1>2
<1>9. \A k \in 1 .. Len(t) : k + 1 \in 1 .. Len(c) /\ t[k] = c[k + 1] BY <1>2, <1>3
<1>10. \A k \in 1 .. Len(t) : Inc(t[k]) /\ Between(t[k], x, n4)
  <2> SUFFICES ASSUME NEW k \in 1 .. Len(t) PROVE Inc(t[k]) /\ Between(t[k], x, n4) OBVIOUS
  <2>1. Inc(t[k]) /\ Between(t[k], n3, n4) BY <1>9, <1>4 DEF Batches
  <2>2. CASE Len(h) = 0 BY <2>1, <2>2
  <2>3. CASE Len(h) # 0
    <3>1. Len(h) \in 1 .. Len(c[1]) BY <2>3, <1>2
    <3>2. 1 < k + 1 BY <1>3, <1>2
    <3>3. \A j \in 1 .. Len(c[k + 1]) : c[1][Len(h)] < c[k + 1][j]
      BY <3>1, <3>2, <1>2, <1>9, <1>4 DEF Batches
    <3>4. \A j \in 1 .. Len(t[k]) : x < t[k][j] BY <3>3, <1>9, <1>2, <2>3
    <3> QED BY <3>4, <2>1 DEF Between
  <2> QED BY <2>2, <2>3
<1>11. ASSUME NEW k \in 1 .. Len(t), NEW l \in 1 .. Len(t), k < l
       PROVE  \A i \in 1 .. Len(t[k]), j \in 1 .. Len(t[l]) : t[k][i] < t[l][j]
  <2>1. k + 1 < l + 1 BY <1>11, <1>3, <1>2
  <2>2. \A i \in 1 .. Len(c[k + 1]), j \in 1 .. Len(c[l + 1]) : c[k + 1][i] < c[l + 1][j]
    BY <2>1, <1>9, <1>4 DEF Batches
  <2> QED BY <2>2, <1>9
<1>12. Batches(t, x, n4) BY <1>10, <1>11 DEF Batches
<1>13. n2 <= x BY <1>4, <1>7
<1> HIDE DEF x
<1>14. Marked(A, F, P, h, t, st, m, n1, n2, x, n4) BY <1>1, <1>5, <1>7, <1>8, <1>12, <1>13 DEF Marked
<1> QED BY <1>14, <1>7 DEF LineUp, h, t

(* Two queues in order, one after the other.                               *)
LEMMA ConcatInc ==
    ASSUME NEW y \in Seq(EventIds), NEW z \in Seq(EventIds), NEW lo \in Nat, NEW mid \in Nat, NEW hi \in Nat,
           Inc(y), Inc(z), Between(y, lo, mid), Between(z, mid, hi), lo <= mid, mid <= hi
    PROVE  Inc(y \o z) /\ Between(y \o z, lo, hi)
<1> DEFINE u == y \o z
<1>1. /\ Len(u) = Len(y) + Len(z) /\ Len(y) \in Nat /\ Len(z) \in Nat
      /\ \A i \in 1 .. Len(u) : u[i] = IF i <= Len(y) THEN y[i] ELSE z[i - Len(y)]
  BY ConcatProperties, LenProperties
<1> HIDE DEF u
<1>2. \A i \in 1 .. Len(y) : y[i] \in Nat /\ lo < y[i] /\ y[i] <= mid BY ElementOfSeq DEF Between, EventIds
<1>3. \A i \in 1 .. Len(z) : z[i] \in Nat /\ mid < z[i] /\ z[i] <= hi BY ElementOfSeq DEF Between, EventIds
<1>4. ASSUME NEW i \in 1 .. Len(u)
      PROVE  \/ i \in 1 .. Len(y) /\ u[i] = y[i]
             \/ i - Len(y) \in 1 .. Len(z) /\ u[i] = z[i - Len(y)] /\ ~(i <= Len(y))
  <2>1. CASE i <= Len(y) BY <2>1, <1>1
  <2>2. CASE ~(i <= Len(y)) BY <2>2, <1>1
  <2> QED BY <2>1, <2>2
<1>5. Between(u, lo, hi)
  <2> SUFFICES ASSUME NEW i \in 1 .. Len(u) PROVE lo < u[i] /\ u[i] <= hi BY DEF Between
  <2>1. CASE i \in 1 .. Len(y) /\ u[i] = y[i] BY <2>1, <1>2
  <2>2. CASE i - Len(y) \in 1 .. Len(z) /\ u[i] = z[i - Len(y)] BY <2>2, <1>3
  <2> QED BY <2>1, <2>2, <1>4
<1>6. Inc(u)
  <2> SUFFICES ASSUME NEW i \in 1 .. Len(u), NEW j \in 1 .. Len(u), i < j PROVE u[i] < u[j]
    BY DEF Inc
  <2>1. CASE i \in 1 .. Len(y) /\ u[i] = y[i]
    <3>1. CASE j \in 1 .. Len(y) /\ u[j] = y[j] BY <2>1, <3>1 DEF Inc
    <3>2. CASE j - Len(y) \in 1 .. Len(z) /\ u[j] = z[j - Len(y)] BY <2>1, <3>2, <1>2, <1>3
    <3> QED BY <3>1, <3>2, <1>4
  <2>2. CASE i - Len(y) \in 1 .. Len(z) /\ u[i] = z[i - Len(y)] /\ ~(i <= Len(y))
    <3>1. j - Len(y) \in 1 .. Len(z) /\ u[j] = z[j - Len(y)] BY <2>2, <1>4, <1>1
    <3>2. i - Len(y) < j - Len(y) BY <1>1
    <3> QED BY <2>2, <3>1, <3>2 DEF Inc
  <2> QED BY <2>1, <2>2, <1>4
<1> QED BY <1>5, <1>6 DEF u

(* retain: the waiting batch joins the queue.                              *)
LEMMA RetainLine ==
    ASSUME NEW A, NEW F, NEW P \in Seq(EventIds), NEW W \in Seq(EventIds), NEW c, NEW st, NEW m,
           LineUp(A, F, P, W, c, st, m)
    PROVE  LineUp(A, F, P \o W, <<>>, c, st, m)
<1>1. PICK n1, n2, n3, n4 \in Nat : Marked(A, F, P, W, c, st, m, n1, n2, n3, n4) BY DEF LineUp
<1>2. /\ n1 <= n2 /\ n2 <= n3 /\ n3 <= n4 /\ Inc(P) /\ Inc(W)
      /\ Between(P, n1, n2) /\ Between(W, n2, n3)
  BY <1>1 DEF Marked
<1>3. Inc(P \o W) /\ Between(P \o W, n1, n3) BY <1>2, ConcatInc
<1>4. Inc(<<>>) /\ Between(<<>>, n3, n3) BY EmptyIsBetween
<1>5. n1 <= n3 /\ n3 <= n3 BY <1>2
<1>6. Marked(A, F, P \o W, <<>>, c, st, m, n1, n3, n3, n4) BY <1>1, <1>3, <1>4, <1>5 DEF Marked
<1> QED BY <1>6 DEF LineUp

(* prepare_delivery: the head of the queue is under way.                   *)
LEMMA PrepareLine ==
    ASSUME NEW A \in SUBSET EventIds, NEW F, NEW P \in Seq(EventIds), NEW W, NEW c, NEW st, NEW m,
           NEW n \in 1 .. Len(P), LineUp(A, F, P, W, c, st, m)
    PROVE  LineUp(A, SubSeq(P, 1, n), SubSeq(P, n + 1, Len(P)), W, c, st, m)
<1>1. PICK n1, n2, n3, n4 \in Nat : Marked(A, F, P, W, c, st, m, n1, n2, n3, n4) BY DEF LineUp
<1> DEFINE f == SubSeq(P, 1, n) g == SubSeq(P, n + 1, Len(P))
<1>2. Len(P) \in Nat /\ \A i \in 1 .. Len(P) : P[i] \in EventIds BY LenProperties, ElementOfSeq
<1>3. Len(f) = n /\ \A i \in 1 .. n : f[i] = P[i]
  <2>1. \A i \in 1 .. n : P[i] \in EventIds BY <1>2
  <2>2. /\ Len(f) = IF 1 <= n THEN n - 1 + 1 ELSE 0
        /\ \A i \in 1 .. n - 1 + 1 : f[i] = P[1 + i - 1]
    BY <2>1, SubSeqProperties
  <2> QED BY <2>2, <1>2
<1>4. Len(g) = Len(P) - n /\ \A i \in 1 .. Len(g) : g[i] = P[n + i]
  <2>1. \A i \in n + 1 .. Len(P) : P[i] \in EventIds BY <1>2
  <2>0. n + 1 \in Int /\ Len(P) \in Int BY <1>2
  <2>2. /\ Len(g) = IF n + 1 <= Len(P) THEN Len(P) - (n + 1) + 1 ELSE 0
        /\ \A i \in 1 .. Len(P) - (n + 1) + 1 : g[i] = P[(n + 1) + i - 1]
    BY <2>1, <2>0, SubSeqProperties
  <2>3. Len(g) = Len(P) - n BY <2>2, <1>2
  <2>4. Len(P) - (n + 1) + 1 = Len(P) - n /\ \A i \in Int : (n + 1) + i - 1 = n + i BY <1>2
  <2>5. ASSUME NEW i \in 1 .. Len(g) PROVE g[i] = P[n + i]
    <3>1. i \in 1 .. Len(P) - (n + 1) + 1 /\ (n + 1) + i - 1 = n + i BY <2>3, <1>2
    <3> QED BY <3>1, <2>2
  <2> QED BY <2>3, <2>5
<1> HIDE DEF f, g
<1>5. /\ n1 <= n2 /\ n2 <= n3 /\ Inc(P) /\ Between(P, n1, n2) /\ \A e \in A : e <= n1
  BY <1>1 DEF Marked
<1>6. P[n] \in Nat /\ n1 <= P[n] /\ P[n] <= n2 BY <1>2, <1>5 DEF Between, EventIds
<1>7. Inc(f)
  <2> SUFFICES ASSUME NEW i \in 1 .. Len(f), NEW j \in 1 .. Len(f), i < j PROVE f[i] < f[j]
    BY DEF Inc
  <2>1. i \in 1 .. Len(P) /\ j \in 1 .. Len(P) BY <1>2, <1>3
  <2> QED BY <2>1, <1>3, <1>5 DEF Inc
<1>8. Between(f, 0, P[n])
  <2> SUFFICES ASSUME NEW i \in 1 .. Len(f) PROVE 0 < f[i] /\ f[i] <= P[n] BY DEF Between
  <2>1. i \in 1 .. Len(P) /\ i <= n /\ f[i] = P[i] BY <1>2, <1>3
  <2>2. P[i] \in EventIds BY <2>1, <1>2
  <2>3. CASE i = n BY <2>1, <2>2, <2>3 DEF EventIds
  <2>4. CASE i < n
    <3>1. P[i] < P[n] BY <2>1, <2>4, <1>5 DEF Inc
    <3> QED BY <3>1, <2>1, <2>2, <1>6 DEF EventIds
  <2> QED BY <2>1, <2>3, <2>4
<1>9. \A i \in 1 .. Len(g) : n + i \in 1 .. Len(P) /\ n < n + i BY <1>2, <1>4
<1>10. Inc(g)
  <2> SUFFICES ASSUME NEW i \in 1 .. Len(g), NEW j \in 1 .. Len(g), i < j PROVE g[i] < g[j]
    BY DEF Inc
  <2>1. n + i < n + j BY <1>2, <1>4
  <2> QED BY <2>1, <1>4, <1>9, <1>5 DEF Inc
<1>11. Between(g, P[n], n2) BY <1>4, <1>9, <1>5 DEF Between, Inc
<1>12. \A e \in A : e <= P[n] BY <1>5, <1>6 DEF EventIds
<1> DEFINE x == P[n]
<1>13. /\ x \in Nat /\ x <= n2 /\ Between(f, 0, x) /\ Between(g, x, n2) /\ \A e \in A : e <= x
  BY <1>6, <1>8, <1>11, <1>12
<1> HIDE DEF x
<1>14. Marked(A, f, g, W, c, st, m, x, n2, n3, n4) BY <1>1, <1>13, <1>7, <1>10 DEF Marked
<1> QED BY <1>13, <1>14 DEF LineUp, f, g

(* acknowledge: nothing is under way.                                      *)
LEMMA AckLine ==
    ASSUME NEW A, NEW F, NEW P, NEW W, NEW c, NEW st, NEW m, LineUp(A, F, P, W, c, st, m)
    PROVE  LineUp(A, <<>>, P, W, c, st, m)
<1>1. PICK n1, n2, n3, n4 \in Nat : Marked(A, F, P, W, c, st, m, n1, n2, n3, n4) BY DEF LineUp
<1>2. Inc(<<>>) /\ Between(<<>>, 0, n1) BY EmptyIsBetween
<1>3. Marked(A, <<>>, P, W, c, st, m, n1, n2, n3, n4) BY <1>1, <1>2 DEF Marked
<1> QED BY <1>3 DEF LineUp

(* The service accepts what is under way.                                  *)
LEMMA ServeLine ==
    ASSUME NEW A, NEW B, NEW F \in Seq(EventIds), NEW P, NEW W, NEW c, NEW st, NEW m,
           LineUp(A, F, P, W, c, st, m), B \subseteq A \cup Elements(F)
    PROVE  LineUp(B, F, P, W, c, st, m)
<1>1. PICK n1, n2, n3, n4 \in Nat : Marked(A, F, P, W, c, st, m, n1, n2, n3, n4) BY DEF LineUp
<1>2. DOMAIN F = 1 .. Len(F) BY LenProperties
<1>3. \A e \in B : e <= n1 BY <1>1, <1>2 DEF Marked, Between, Elements
<1>4. Marked(B, F, P, W, c, st, m, n1, n2, n3, n4) BY <1>1, <1>3 DEF Marked
<1> QED BY <1>4 DEF LineUp

-----------------------------------------------------------------------------
(* The elements of two queues, one after the other.                        *)
LEMMA ElementsConcat ==
    ASSUME NEW y \in Seq(EventIds), NEW z \in Seq(EventIds)
    PROVE  Elements(y \o z) = Elements(y) \cup Elements(z)
<1> DEFINE u == y \o z
<1>1. /\ Len(u) = Len(y) + Len(z) /\ Len(y) \in Nat /\ Len(z) \in Nat
      /\ \A i \in 1 .. Len(u) : u[i] = IF i <= Len(y) THEN y[i] ELSE z[i - Len(y)]
      /\ DOMAIN y = 1 .. Len(y) /\ DOMAIN z = 1 .. Len(z) /\ DOMAIN u = 1 .. Len(u)
  BY ConcatProperties, LenProperties
<1> HIDE DEF u
<1>2. ASSUME NEW i \in 1 .. Len(u) PROVE u[i] \in Elements(y) \cup Elements(z)
  <2>1. CASE i <= Len(y) BY <2>1, <1>1 DEF Elements
  <2>2. CASE ~(i <= Len(y))
    <3>1. i - Len(y) \in 1 .. Len(z) /\ u[i] = z[i - Len(y)] BY <2>2, <1>1
    <3> QED BY <3>1, <1>1 DEF Elements
  <2> QED BY <2>1, <2>2
<1>3. ASSUME NEW i \in 1 .. Len(y) PROVE y[i] \in Elements(u)
  <2>1. i \in 1 .. Len(u) /\ u[i] = y[i] BY <1>1
  <2> QED BY <2>1, <1>1 DEF Elements
<1>4. ASSUME NEW i \in 1 .. Len(z) PROVE z[i] \in Elements(u)
  <2>1. i + Len(y) \in 1 .. Len(u) /\ ~(i + Len(y) <= Len(y)) /\ i + Len(y) - Len(y) = i BY <1>1
  <2>2. u[i + Len(y)] = z[i] BY <2>1, <1>1
  <2> QED BY <2>1, <2>2, <1>1 DEF Elements
<1> QED BY <1>1, <1>2, <1>3, <1>4 DEF Elements, u

(* The elements of a queue are events.                                     *)
LEMMA ElementsType ==
    ASSUME NEW z \in Seq(EventIds)
    PROVE  Elements(z) \subseteq EventIds
BY ElementOfSeq, LenProperties DEF Elements

(* A queue in strict order has as many events as places.                   *)
LEMMA IncCounted ==
    ASSUME NEW z \in Seq(EventIds), Inc(z)
    PROVE  IsFiniteSet(Elements(z)) /\ Cardinality(Elements(z)) = Len(z)
<1>1. Len(z) \in Nat /\ DOMAIN z = 1 .. Len(z) /\ z \in [1 .. Len(z) -> EventIds] BY LenProperties
<1>2. z \in [1 .. Len(z) -> Elements(z)] BY <1>1 DEF Elements
<1>3. \A i, j \in 1 .. Len(z) : i # j => z[i] # z[j]
  <2> SUFFICES ASSUME NEW i \in 1 .. Len(z), NEW j \in 1 .. Len(z), i # j PROVE z[i] # z[j] OBVIOUS
  <2>1. z[i] \in Nat /\ z[j] \in Nat BY <1>1 DEF EventIds
  <2>2. CASE i < j BY <2>1, <2>2 DEF Inc
  <2>3. CASE j < i BY <2>1, <2>3 DEF Inc
  <2> QED BY <2>2, <2>3
<1>4. \A x \in Elements(z) : \E i \in 1 .. Len(z) : z[i] = x BY <1>1 DEF Elements
<1>5. z \in Bijection(1 .. Len(z), Elements(z))
  BY <1>2, <1>3, <1>4 DEF Bijection, Injection, Surjection, IsInjective
<1>6. ExistsBijection(1 .. Len(z), Elements(z)) BY <1>5 DEF ExistsBijection
<1> QED BY <1>1, <1>6, FS_NatBijection, FS_CountingElements

-----------------------------------------------------------------------------
(* The states of the delivery.                                             *)

(* Events of a source the service has.                                     *)
AcceptedOf(s) == {e \in EventIds : <<s, e>> \in accepted}

(* The events of each source are lined up.                                 *)
LinedUp ==
    \A s \in Sources :
       LineUp(AcceptedOf(s), Flown(s), src[s].pending, src[s].waiting,
              prod[s].channel, prod[s].staged, prod[s].made)

(* Every event taken over is counted once.                                 *)
TakenOver(s) ==
    AcceptedOf(s) \cup Elements(Flown(s)) \cup Elements(src[s].pending) \cup Elements(src[s].waiting)

TakenAreCounted ==
    \A s \in Sources :
       /\ src[s].received = src[s].acknowledged + Len(Flown(s)) + Len(src[s].pending) + Len(src[s].waiting)
       /\ IsFiniteSet(TakenOver(s)) /\ Cardinality(TakenOver(s)) = src[s].received

(* Requests under way carry the present delivery or accepted events.       *)
WireIsCarried == \A r \in wire : r.logs \subseteq accepted \cup Carried

(* The request that waits carries the present delivery, and a reply that   *)
(* agrees to it tells the truth.                                           *)
ReplyIsTrue ==
    run.phase = "sent" =>
       /\ \A r \in wire : r.id = run.id => r.logs = Carried
       /\ \A r \in replies : r.id = run.id /\ r.ok => Carried \subseteq accepted

(* The inductive invariant of the delivery.                                *)
DeliveryInv ==
    /\ DeliveryTypeOK /\ LinedUp /\ TakenAreCounted /\ RetainedMatches /\ NoLostWakeUp
    /\ WireIsCarried /\ ReplyIsTrue

(* What a producer does on its own loop leaves the line as it is.          *)
Follows(p, v) ==
    /\ v \in Producer
    /\ \A A \in SUBSET EventIds, F \in Seq(EventIds), P \in Seq(EventIds), W \in Seq(EventIds) :
          LineUp(A, F, P, W, p.channel, p.staged, p.made)
             => LineUp(A, F, P, W, v.channel, v.staged, v.made)

(* A producer that does nothing leaves the line as it is.                  *)
LEMMA FollowsItself == ASSUME NEW p \in Producer PROVE Follows(p, p)
BY DEF Follows

(* flush, and the last flush of a stopping loop.                           *)
LEMMA FlushFollows ==
    ASSUME NEW p \in Producer
    PROVE  Follows(p, Flushed(p)) /\ Follows(p, [Flushed(p) EXCEPT !.open = FALSE])
<1> DEFINE v == Flushed(p) w == [v EXCEPT !.open = FALSE]
<1>1. v \in Producer BY FlushedType
<1>2. p.made \in Nat /\ p.staged \in Seq(EventIds) /\ p.channel \in Seq(Seq(EventIds)) BY DEF Producer
<1>3. /\ v.made = p.made
      /\ v = p \/ (v.staged = <<>> /\ v.channel \in {p.channel, Append(p.channel, p.staged)})
  <2>1. CASE p.staged = <<>> BY <2>1 DEF Flushed
  <2>2. CASE p.staged # <<>> /\ Len(p.channel) < ChannelSize BY <2>2 DEF Flushed, Producer
  <2>3. CASE p.staged # <<>> /\ ~(Len(p.channel) < ChannelSize) BY <2>3 DEF Flushed, Producer
  <2> QED BY <2>1, <2>2, <2>3
<1> HIDE DEF v
<1>4. Follows(p, v)
  <2> SUFFICES ASSUME NEW A \in SUBSET EventIds, NEW F \in Seq(EventIds), NEW P \in Seq(EventIds),
                      NEW W \in Seq(EventIds), LineUp(A, F, P, W, p.channel, p.staged, p.made)
               PROVE  LineUp(A, F, P, W, v.channel, v.staged, v.made)
    BY <1>1 DEF Follows
  <2>1. /\ LineUp(A, F, P, W, Append(p.channel, p.staged), <<>>, p.made)
        /\ LineUp(A, F, P, W, p.channel, <<>>, p.made)
    BY <1>2, FlushLine
  <2> QED BY <1>3, <2>1
<1>5. w \in Producer /\ w.channel = v.channel /\ w.staged = v.staged /\ w.made = v.made
  BY <1>1 DEF Producer
<1> HIDE DEF w
<1>6. Follows(p, w) BY <1>4, <1>5 DEF Follows
<1> QED BY <1>4, <1>6 DEF v, w

(* append, with the flush of a full batch.                                 *)
LEMMA AppendFollows ==
    ASSUME NEW p \in Producer
    PROVE  Follows(p, Appended(p))
<1> DEFINE v == [p EXCEPT !.made = @ + 1, !.staged = Append(@, p.made + 1)]
<1>1. p.made \in Nat /\ p.staged \in Seq(EventIds) BY DEF Producer
<1>2. p.made + 1 \in EventIds BY <1>1 DEF EventIds
<1>3. Append(p.staged, p.made + 1) \in Seq(EventIds) BY <1>1, <1>2, AppendProperties
<1>4. p.made + 1 \in Nat BY <1>1
<1>5. /\ v \in Producer /\ v.channel = p.channel
      /\ v.made = p.made + 1 /\ v.staged = Append(p.staged, p.made + 1)
  <2> DEFINE x == p.made + 1 y == Append(p.staged, p.made + 1)
  <2>1. x \in Nat /\ y \in Seq(EventIds) BY <1>3, <1>4
  <2>2. v = [p EXCEPT !.made = x, !.staged = y] OBVIOUS
  <2> HIDE DEF x, y, v
  <2>3. v \in Producer /\ v.channel = p.channel /\ v.made = x /\ v.staged = y
    BY <2>1, <2>2 DEF Producer
  <2> QED BY <2>3 DEF x, y
<1> HIDE DEF v
<1>7. Follows(p, v)
  <2> SUFFICES ASSUME NEW A \in SUBSET EventIds, NEW F \in Seq(EventIds), NEW P \in Seq(EventIds),
                      NEW W \in Seq(EventIds), LineUp(A, F, P, W, p.channel, p.staged, p.made)
               PROVE  LineUp(A, F, P, W, v.channel, v.staged, v.made)
    BY <1>5 DEF Follows
  <2>1. LineUp(A, F, P, W, p.channel, Append(p.staged, p.made + 1), p.made + 1) BY <1>1, AppendLine
  <2> QED BY <1>5, <2>1
<1>8. Follows(v, Flushed(v)) BY <1>5, FlushFollows
<1>9. Follows(p, Flushed(v)) BY <1>7, <1>8 DEF Follows
<1>10. Appended(p) = IF Len(v.staged) = MaxDelivery THEN Flushed(v) ELSE v BY DEF Appended, v
<1> QED BY <1>7, <1>9, <1>10

(* Each producer stays or goes on.                                         *)
ProducersGoOn == prod' \in [Sources -> Producer] /\ \A s \in Sources : Follows(prod[s], prod'[s])

(* One producer goes on, the others stay.                                  *)
LEMMA OneGoesOn ==
    ASSUME DeliveryTypeOK, NEW s \in Sources, NEW v, Follows(prod[s], v), prod' = [prod EXCEPT ![s] = v]
    PROVE  ProducersGoOn
<1>1. \A t \in Sources : Follows(prod[t], prod[t]) BY FollowsItself DEF DeliveryTypeOK
<1>2. v \in Producer BY DEF Follows
<1>3. \A t \in Sources : prod'[t] = IF t = s THEN v ELSE prod[t] BY DEF DeliveryTypeOK
<1>4. prod' \in [Sources -> Producer] BY <1>2 DEF DeliveryTypeOK
<1> QED BY <1>1, <1>3, <1>4 DEF ProducersGoOn

(* No producer does anything.                                              *)
LEMMA AllStay == ASSUME DeliveryTypeOK, UNCHANGED prod PROVE ProducersGoOn
BY FollowsItself DEF DeliveryTypeOK, ProducersGoOn

(* The control worker reports through its own producer.                    *)
LEMMA ReportedGoesOn == ASSUME DeliveryTypeOK, prod' = Reported PROVE ProducersGoOn
<1>1. prod[Own] \in Producer BY SourcesAssumption DEF DeliveryTypeOK
<1>2. Follows(prod[Own], Appended(prod[Own])) BY <1>1, AppendFollows
<1>3. CASE CanAppend(Own)
  <2>1. prod' = [prod EXCEPT ![Own] = Appended(prod[Own])] BY <1>3 DEF Reported
  <2> QED BY <2>1, <1>2, OneGoesOn, SourcesAssumption
<1>4. CASE ~CanAppend(Own) BY <1>4, AllStay DEF Reported
<1> QED BY <1>3, <1>4

(* The types of what is held of a source.                                  *)
LEMMA FlownType ==
    ASSUME DeliveryTypeOK, NEW s \in Sources
    PROVE  /\ Flown(s) \in Seq(EventIds) /\ src[s] \in BatchSource /\ prod[s] \in Producer
           /\ src[s].pending \in Seq(EventIds) /\ src[s].waiting \in Seq(EventIds)
           /\ Len(Flown(s)) \in Nat /\ Len(src[s].pending) \in Nat /\ Len(src[s].waiting) \in Nat
<1>1. src[s] \in BatchSource /\ prod[s] \in Producer BY DEF DeliveryTypeOK
<1>2. flight.events \in Seq(EventIds) BY DEF DeliveryTypeOK
<1>3. Flown(s) \in Seq(EventIds) BY <1>2, EmptySeq DEF Flown
<1>4. src[s].pending \in Seq(EventIds) /\ src[s].waiting \in Seq(EventIds) BY <1>1 DEF BatchSource
<1> QED BY <1>1, <1>3, <1>4, LenProperties

(* Steps that move no event: what the queues of a source hold stays.       *)
SourceStays(s) ==
    /\ src'[s].pending = src[s].pending /\ src'[s].waiting = src[s].waiting
    /\ src'[s].retained = src[s].retained /\ src'[s].received = src[s].received
    /\ src'[s].acknowledged = src[s].acknowledged

(* Line, counts and budget stay with the events.                           *)
LEMMA FrameOfEvents ==
    ASSUME DeliveryInv, ProducersGoOn, \A s \in Sources : SourceStays(s), UNCHANGED <<flight, accepted>>
    PROVE  LinedUp' /\ TakenAreCounted' /\ RetainedMatches'
<1> SUFFICES ASSUME NEW s \in Sources
             PROVE  /\ LineUp(AcceptedOf(s)', Flown(s)', src'[s].pending, src'[s].waiting,
                              prod'[s].channel, prod'[s].staged, prod'[s].made)
                    /\ src'[s].received = src'[s].acknowledged + Len(Flown(s)') + Len(src'[s].pending) + Len(src'[s].waiting)
                    /\ IsFiniteSet(TakenOver(s)') /\ Cardinality(TakenOver(s)') = src'[s].received
                    /\ src'[s].retained = Len(src'[s].pending) + Len(Flown(s)')
  BY DEF LinedUp, TakenAreCounted, RetainedMatches
<1>1. AcceptedOf(s)' = AcceptedOf(s) /\ Flown(s)' = Flown(s) BY DEF AcceptedOf, Flown
<1>2. SourceStays(s) OBVIOUS
<1>3. TakenOver(s)' = TakenOver(s) BY <1>1, <1>2 DEF TakenOver, SourceStays
<1>4. AcceptedOf(s) \in SUBSET EventIds BY DEF AcceptedOf
<1>5. Flown(s) \in Seq(EventIds) /\ src[s].pending \in Seq(EventIds) /\ src[s].waiting \in Seq(EventIds)
  BY FlownType DEF DeliveryInv
<1>6. LineUp(AcceptedOf(s), Flown(s), src[s].pending, src[s].waiting, prod[s].channel, prod[s].staged, prod[s].made)
  BY DEF DeliveryInv, LinedUp
<1>7. LineUp(AcceptedOf(s), Flown(s), src[s].pending, src[s].waiting, prod'[s].channel, prod'[s].staged, prod'[s].made)
  BY <1>4, <1>5, <1>6 DEF ProducersGoOn, Follows
<1>8. /\ src[s].received = src[s].acknowledged + Len(Flown(s)) + Len(src[s].pending) + Len(src[s].waiting)
      /\ IsFiniteSet(TakenOver(s)) /\ Cardinality(TakenOver(s)) = src[s].received
      /\ src[s].retained = Len(src[s].pending) + Len(Flown(s))
  BY DEF DeliveryInv, TakenAreCounted, RetainedMatches
<1> QED BY <1>1, <1>2, <1>3, <1>7, <1>8 DEF SourceStays

(* Requests and replies when no event moves.                               *)
LEMMA FrameOfMessages ==
    ASSUME DeliveryInv, UNCHANGED <<flight, accepted>>, wire' \subseteq wire, replies' \subseteq replies,
           run'.phase = "sent" => run' = run
    PROVE  WireIsCarried' /\ ReplyIsTrue'
<1>1. Carried' = Carried BY DEF Carried
<1>2. WireIsCarried' BY <1>1 DEF DeliveryInv, WireIsCarried
<1>3. ReplyIsTrue' BY <1>1 DEF DeliveryInv, ReplyIsTrue
<1> QED BY <1>2, <1>3

(* Queues that do not change hold what they held.                          *)
LEMMA StaysIfUnchanged ==
    ASSUME UNCHANGED src
    PROVE  \A s \in Sources : SourceStays(s)
BY DEF SourceStays

(* Steps of a producer, alone or with the loop of the control worker.      *)
LEMMA ProducerSteps ==
    ASSUME DeliveryInv, ProducersGoOn, UNCHANGED <<src, ready, flight, wire, replies, accepted, snap>>,
           run' = run \/ (run' \in [phase : Phases, id : 0 .. MaxRequests, failing : BOOLEAN]
                           /\ run'.phase \notin {"sent", "await"})
    PROVE  DeliveryInv'
<1>1. DeliveryTypeOK' BY DEF DeliveryInv, DeliveryTypeOK, ProducersGoOn
<1>2. LinedUp' /\ TakenAreCounted' /\ RetainedMatches' BY StaysIfUnchanged, FrameOfEvents
<1>3. NoLostWakeUp' BY DEF DeliveryInv, NoLostWakeUp, NothingPending, Fits
<1>4. WireIsCarried' /\ ReplyIsTrue' BY FrameOfMessages
<1> QED BY <1>1, <1>2, <1>3, <1>4 DEF DeliveryInv

(* append on the loop of a producer.                                       *)
LEMMA ProduceKeeps == ASSUME DeliveryInv, NEW s \in Sources, Produce(s) PROVE DeliveryInv'
<1>1. DeliveryTypeOK /\ prod[s] \in Producer BY DEF DeliveryInv, DeliveryTypeOK
<1>2. Follows(prod[s], Appended(prod[s])) BY <1>1, AppendFollows
<1>3. ProducersGoOn BY <1>1, <1>2, OneGoesOn DEF Produce
<1> QED BY <1>3, ProducerSteps DEF Produce

(* The posted flush.                                                       *)
LEMMA FlushKeeps == ASSUME DeliveryInv, NEW s \in Sources, Flush(s) PROVE DeliveryInv'
<1>1. DeliveryTypeOK /\ prod[s] \in Producer BY DEF DeliveryInv, DeliveryTypeOK
<1>2. Follows(prod[s], Flushed(prod[s])) BY <1>1, FlushFollows
<1>3. ProducersGoOn BY <1>1, <1>2, OneGoesOn DEF Flush
<1> QED BY <1>3, ProducerSteps DEF Flush

(* The loop of a producer stops.                                           *)
LEMMA StopProducerKeeps == ASSUME DeliveryInv, NEW s \in Sources, StopProducer(s) PROVE DeliveryInv'
<1> DEFINE v == [Flushed(prod[s]) EXCEPT !.open = FALSE]
<1>1. DeliveryTypeOK /\ prod[s] \in Producer BY DEF DeliveryInv, DeliveryTypeOK
<1>2. Follows(prod[s], v) BY <1>1, FlushFollows
<1>3. prod' = [prod EXCEPT ![s] = v] BY DEF StopProducer
<1> HIDE DEF v
<1>4. ProducersGoOn BY <1>1, <1>2, <1>3, OneGoesOn
<1> QED BY <1>4, ProducerSteps DEF StopProducer

(* A time-out.                                                             *)
LEMMA SendFailedKeeps == ASSUME DeliveryInv, SendFailed, UNCHANGED replies PROVE DeliveryInv'
<1>1. ProducersGoOn BY ReportedGoesOn DEF DeliveryInv, SendFailed
<1>2. run' \in [phase : Phases, id : 0 .. MaxRequests, failing : BOOLEAN] /\ run'.phase = "sleep"
  BY DEF DeliveryInv, DeliveryTypeOK, SendFailed, Phases
<1> QED BY <1>1, <1>2, ProducerSteps DEF SendFailed

(* The sending loop waits, wakes and sleeps; sessions start and end.       *)
LEMMA LoopKeeps ==
    ASSUME DeliveryInv, Wake \/ Await \/ SleepEnds \/ StartSession \/ EndSession
    PROVE  DeliveryInv'
<1>0. UNCHANGED <<prod, src, flight, accepted, snap>> /\ wire' \subseteq wire /\ replies' \subseteq replies
  BY DEF Wake, Await, SleepEnds, StartSession, EndSession
<1>1. run' \in [phase : Phases, id : 0 .. MaxRequests, failing : BOOLEAN] /\ run'.phase # "sent"
  BY DEF DeliveryInv, DeliveryTypeOK, Wake, Await, SleepEnds, StartSession, EndSession, Phases
<1>2. DeliveryTypeOK'
  <2>1. ready' \in BOOLEAN BY DEF DeliveryInv, DeliveryTypeOK, Wake, Await, SleepEnds, StartSession, EndSession
  <2> QED BY <2>1, <1>0, <1>1 DEF DeliveryInv, DeliveryTypeOK
<1>3. LinedUp' /\ TakenAreCounted' /\ RetainedMatches'
  BY <1>0, StaysIfUnchanged, AllStay, FrameOfEvents DEF DeliveryInv
<1>4. NoLostWakeUp'
  <2>1. NothingPending' = NothingPending /\ \A s \in Sources : Fits(src[s])' = Fits(src[s])
    BY <1>0 DEF NothingPending, Fits
  <2>2. run'.phase = "await" => NothingPending
    BY DEF DeliveryInv, DeliveryTypeOK, Wake, Await, SleepEnds, StartSession, EndSession
  <2> QED BY <1>0, <2>1, <2>2 DEF DeliveryInv, NoLostWakeUp
<1>5. WireIsCarried' /\ ReplyIsTrue' BY <1>0, <1>1, FrameOfMessages
<1> QED BY <1>2, <1>3, <1>4, <1>5 DEF DeliveryInv

(* The figures of the data plane arrive.                                   *)
LEMMA ReportKeeps == ASSUME DeliveryInv, NEW s \in Sources, Report(s) PROVE DeliveryInv'
<1>1. DeliveryTypeOK'
  <2>1. prod[s].published \in Nat /\ prod[s].staged \in Seq(EventIds) BY DEF DeliveryInv, DeliveryTypeOK, Producer
  <2>2. Len(prod[s].staged) \in Nat BY <2>1, LenProperties
  <2>3. snap' \in [Sources \ {Own} -> [published : Nat, queued : Nat]]
    BY <2>1, <2>2 DEF DeliveryInv, DeliveryTypeOK, Report
  <2> QED BY <2>3 DEF DeliveryInv, DeliveryTypeOK, Report
<1>2. LinedUp' /\ TakenAreCounted' /\ RetainedMatches'
  BY StaysIfUnchanged, AllStay, FrameOfEvents DEF DeliveryInv, Report
<1>3. NoLostWakeUp' BY DEF DeliveryInv, NoLostWakeUp, NothingPending, Fits, Report
<1>4. WireIsCarried' /\ ReplyIsTrue' BY FrameOfMessages DEF Report
<1> QED BY <1>1, <1>2, <1>3, <1>4 DEF DeliveryInv

(* The receiving loop waits for space, goes on or ends.                    *)
LEMMA BlockKeeps ==
    ASSUME DeliveryInv, NEW s \in Sources, Block(s) \/ Unblock(s) \/ ReceiveClosed(s)
    PROVE  DeliveryInv'
<1>0. UNCHANGED <<prod, flight, run, wire, replies, accepted, snap>>
  BY DEF Block, Unblock, ReceiveClosed
<1>a. src[s] \in BatchSource /\ src \in [Sources -> BatchSource] BY DEF DeliveryInv, DeliveryTypeOK
<1>b. PICK x, y, z \in BOOLEAN :
        /\ src' = [src EXCEPT ![s] = [src[s] EXCEPT !.space = x, !.blocked = y, !.closed = z]]
        /\ y /\ Fits(src[s]) => x
  <2>1. CASE Block(s)
    <3>1. src' = [src EXCEPT ![s] = [src[s] EXCEPT !.space = src[s].space, !.blocked = TRUE, !.closed = src[s].closed]]
      BY <2>1, <1>a DEF Block, BatchSource
    <3>2. ~Fits(src[s]) /\ src[s].space \in BOOLEAN /\ src[s].closed \in BOOLEAN BY <2>1, <1>a DEF Block, BatchSource
    <3> QED BY <3>1, <3>2
  <2>2. CASE Unblock(s)
    <3>1. src' = [src EXCEPT ![s] = [src[s] EXCEPT !.space = FALSE, !.blocked = FALSE, !.closed = src[s].closed]]
      BY <2>2, <1>a DEF Unblock, BatchSource
    <3>2. src[s].closed \in BOOLEAN BY <1>a DEF BatchSource
    <3> QED BY <3>1, <3>2
  <2>3. CASE ReceiveClosed(s)
    <3>1. src[s].blocked /\ Fits(src[s]) => src[s].space BY DEF DeliveryInv, NoLostWakeUp
    <3>2. src' = [src EXCEPT ![s] = [src[s] EXCEPT !.space = src[s].space, !.blocked = src[s].blocked, !.closed = TRUE]]
      BY <2>3, <1>a DEF ReceiveClosed, BatchSource
    <3> QED BY <3>1, <3>2, <1>a DEF BatchSource
  <2> QED BY <2>1, <2>2, <2>3
<1>1. /\ src' \in [Sources -> BatchSource]
      /\ \A t \in Sources : SourceStays(t)
  BY <1>a, <1>b DEF BatchSource, SourceStays
<1>2. DeliveryTypeOK'
  <2>1. ready' \in BOOLEAN BY DEF DeliveryInv, DeliveryTypeOK, Block, Unblock, ReceiveClosed
  <2> QED BY <2>1, <1>0, <1>1 DEF DeliveryInv, DeliveryTypeOK
<1>3. LinedUp' /\ TakenAreCounted' /\ RetainedMatches' BY <1>0, <1>1, AllStay, FrameOfEvents DEF DeliveryInv
<1>4. NoLostWakeUp'
  <2>1. NothingPending' = NothingPending /\ \A t \in Sources : Fits(src[t])' = Fits(src[t])
    BY <1>1 DEF NothingPending, Fits, SourceStays
  <2>2. ready => ready' BY DEF Block, Unblock, ReceiveClosed
  <2>3. \A t \in Sources : src'[t].blocked /\ Fits(src[t]) => src'[t].space
    BY <1>a, <1>b DEF DeliveryInv, BatchSource, NoLostWakeUp
  <2> QED BY <1>0, <2>1, <2>2, <2>3 DEF DeliveryInv, NoLostWakeUp
<1>5. WireIsCarried' /\ ReplyIsTrue' BY <1>0, FrameOfMessages
<1> QED BY <1>2, <1>3, <1>4, <1>5 DEF DeliveryInv

(* A request under a fresh identifier.                                     *)
LEMMA SendKeeps == ASSUME DeliveryInv, NEW i \in 1 .. MaxRequests, Send(i) PROVE DeliveryInv'
<1>0. UNCHANGED <<prod, src, ready, flight, replies, accepted, snap>> BY DEF Send
<1>i. i \in 0 .. MaxRequests BY BoundsAssumption
<1>1. run' \in [phase : Phases, id : 0 .. MaxRequests, failing : BOOLEAN] /\ run'.phase = "sent" /\ run'.id = i
  BY <1>i DEF DeliveryInv, DeliveryTypeOK, Send, Phases
<1>2. Carried \subseteq Log
  BY ElementOfSeq DEF DeliveryInv, DeliveryTypeOK, Carried, Log
<1>3. wire' = wire \cup {[id |-> i, logs |-> Carried]} /\ \A m \in wire \cup replies : m.id # i
  BY DEF Send, NextId, FreeIds
<1>4. DeliveryTypeOK' BY <1>0, <1>1, <1>2, <1>3 DEF DeliveryInv, DeliveryTypeOK
<1>5. LinedUp' /\ TakenAreCounted' /\ RetainedMatches'
  BY <1>0, StaysIfUnchanged, AllStay, FrameOfEvents DEF DeliveryInv
<1>6. NoLostWakeUp' BY <1>0, <1>1 DEF DeliveryInv, NoLostWakeUp, NothingPending, Fits
<1>7. Carried' = Carried BY <1>0 DEF Carried
<1>8. WireIsCarried' BY <1>0, <1>3, <1>7 DEF DeliveryInv, WireIsCarried
<1>9. ReplyIsTrue' BY <1>0, <1>1, <1>3, <1>7 DEF DeliveryInv, ReplyIsTrue
<1> QED BY <1>4, <1>5, <1>6, <1>8, <1>9 DEF DeliveryInv

(* Bounds of the places bound the elements.                                *)
LEMMA ElementsBetween ==
    ASSUME NEW z \in Seq(EventIds), NEW lo, NEW hi, Between(z, lo, hi)
    PROVE  \A e \in Elements(z) : e \in Nat /\ lo < e /\ e <= hi
BY LenProperties, ElementOfSeq DEF Between, Elements, EventIds

(* A batch of the channel is new to the control worker.                    *)
LEMMA HeadIsNew ==
    ASSUME NEW A \in SUBSET EventIds, NEW F \in Seq(EventIds), NEW P \in Seq(EventIds),
           NEW W \in Seq(EventIds), NEW c \in Seq(Seq(EventIds)), NEW st, NEW m,
           LineUp(A, F, P, W, c, st, m), c # <<>>
    PROVE  /\ Head(c) \in Seq(EventIds) /\ Inc(Head(c))
           /\ Elements(Head(c)) \cap (A \cup Elements(F) \cup Elements(P) \cup Elements(W)) = {}
<1>1. PICK n1, n2, n3, n4 \in Nat : Marked(A, F, P, W, c, st, m, n1, n2, n3, n4) BY DEF LineUp
<1>2. Head(c) \in Seq(EventIds) /\ Head(c) = c[1] /\ 1 \in 1 .. Len(c)
  BY HeadTailProperties, LenProperties, EmptySeq
<1>3. Inc(Head(c)) /\ Between(Head(c), n3, n4) BY <1>1, <1>2 DEF Marked, Batches
<1>4. n1 <= n2 /\ n2 <= n3 BY <1>1 DEF Marked
<1>5. \A e \in A : e \in Nat /\ e <= n3 BY <1>1, <1>4 DEF Marked, EventIds
<1>6. /\ \A e \in Elements(F) : e \in Nat /\ e <= n1
      /\ \A e \in Elements(P) : e \in Nat /\ e <= n2
      /\ \A e \in Elements(W) : e \in Nat /\ e <= n3
  BY <1>1, ElementsBetween DEF Marked
<1>7. \A e \in Elements(Head(c)) : e \in Nat /\ n3 < e BY <1>2, <1>3, ElementsBetween
<1> QED BY <1>2, <1>3, <1>4, <1>5, <1>6, <1>7

(* The line and the count of one source.                                   *)
LineOf(s) ==
    LineUp(AcceptedOf(s), Flown(s), src[s].pending, src[s].waiting,
           prod[s].channel, prod[s].staged, prod[s].made)

CountOf(s) ==
    /\ src[s].received = src[s].acknowledged + Len(Flown(s)) + Len(src[s].pending) + Len(src[s].waiting)
    /\ IsFiniteSet(TakenOver(s)) /\ Cardinality(TakenOver(s)) = src[s].received
    /\ src[s].retained = Len(src[s].pending) + Len(Flown(s))

(* Line, counts and budget, source by source.                              *)
LEMMA BySource ==
    /\ LinedUp /\ TakenAreCounted /\ RetainedMatches <=> \A s \in Sources : LineOf(s) /\ CountOf(s)
    /\ (LinedUp /\ TakenAreCounted /\ RetainedMatches)' <=> \A s \in Sources : (LineOf(s) /\ CountOf(s))'
BY DEF LinedUp, TakenAreCounted, RetainedMatches, LineOf, CountOf

(* A source whose queues and producer stay.                                *)
LEMMA OtherSource ==
    ASSUME NEW t \in Sources, LineOf(t) /\ CountOf(t), src'[t] = src[t], prod'[t] = prod[t],
           Flown(t)' = Flown(t), AcceptedOf(t)' = AcceptedOf(t)
    PROVE  LineOf(t)' /\ CountOf(t)'
<1>1. TakenOver(t)' = TakenOver(t) BY DEF TakenOver
<1> QED BY <1>1 DEF LineOf, CountOf

(* receive_source takes a batch out of the channel.                        *)
LEMMA ReceiveKeeps == ASSUME DeliveryInv, NEW s \in Sources, Receive(s) PROVE DeliveryInv'
<1> DEFINE c == prod[s].channel h == Head(c) t == Tail(c)
<1>1. /\ src[s] \in BatchSource /\ src \in [Sources -> BatchSource]
      /\ prod[s] \in Producer /\ prod \in [Sources -> Producer]
  BY DEF DeliveryInv, DeliveryTypeOK
<1>2. c \in Seq(Seq(EventIds)) /\ c # <<>> /\ src[s].waiting = <<>> BY <1>1 DEF Receive, Producer
<1>3. h \in Seq(EventIds) /\ t \in Seq(Seq(EventIds)) BY <1>2, HeadTailProperties
<1>4. Len(h) \in Nat BY <1>3, LenProperties
<1>5. /\ src' = [src EXCEPT ![s].waiting = h, ![s].received = @ + Len(h)]
      /\ prod' = [prod EXCEPT ![s].channel = t]
      /\ UNCHANGED <<ready, flight, run, wire, replies, accepted, snap>>
  BY DEF Receive
<1> HIDE DEF c, h, t
<1>6. src' \in [Sources -> BatchSource] /\ prod' \in [Sources -> Producer]
  <2> DEFINE n == src[s].received + Len(h)
  <2>1. n \in Nat BY <1>1, <1>4 DEF BatchSource
  <2>2. src' = [src EXCEPT ![s].waiting = h, ![s].received = n] BY <1>5
  <2> HIDE DEF n
  <2>3. src' \in [Sources -> BatchSource] BY <1>1, <1>3, <2>1, <2>2 DEF BatchSource
  <2>4. prod' \in [Sources -> Producer] BY <1>1, <1>3, <1>5 DEF Producer
  <2> QED BY <2>3, <2>4
<1>7. /\ src'[s].waiting = h /\ src'[s].pending = src[s].pending /\ src'[s].retained = src[s].retained
      /\ src'[s].received = src[s].received + Len(h) /\ src'[s].acknowledged = src[s].acknowledged
      /\ src'[s].blocked = src[s].blocked /\ src'[s].space = src[s].space
  BY <1>1, <1>5 DEF BatchSource
<1>8. prod'[s].channel = t /\ prod'[s].staged = prod[s].staged /\ prod'[s].made = prod[s].made
  BY <1>1, <1>5 DEF Producer
<1>9. \A x \in Sources : x # s => src'[x] = src[x] /\ prod'[x] = prod[x] BY <1>1, <1>5
<1>10. \A x \in Sources : Flown(x)' = Flown(x) /\ AcceptedOf(x)' = AcceptedOf(x) BY <1>5 DEF Flown, AcceptedOf
<1>11. \A x \in Sources : LineOf(x) /\ CountOf(x) BY BySource DEF DeliveryInv
<1>12. DeliveryTypeOK' BY <1>5, <1>6 DEF DeliveryInv, DeliveryTypeOK
<1>13. /\ Flown(s) \in Seq(EventIds) /\ src[s].pending \in Seq(EventIds) /\ src[s].waiting \in Seq(EventIds)
       /\ Len(Flown(s)) \in Nat /\ Len(src[s].pending) \in Nat /\ Len(src[s].waiting) \in Nat
       /\ prod[s].made \in Nat /\ AcceptedOf(s) \in SUBSET EventIds
       /\ src[s].received \in Nat /\ src[s].acknowledged \in Nat
  BY <1>1, FlownType DEF DeliveryInv, Producer, AcceptedOf, BatchSource
<1>14. LineUp(AcceptedOf(s), Flown(s), src[s].pending, src[s].waiting, c, prod[s].staged, prod[s].made)
  BY <1>11 DEF LineOf, c
<1>15. LineOf(s)'
  <2>1. LineUp(AcceptedOf(s), Flown(s), src[s].pending, h, t, prod[s].staged, prod[s].made)
    BY <1>2, <1>13, <1>14, ReceiveLine DEF h, t
  <2> QED BY <2>1, <1>7, <1>8, <1>10 DEF LineOf
<1>16. CountOf(s)'
  <2>0. /\ Inc(h)
        /\ Elements(h) \cap (AcceptedOf(s) \cup Elements(Flown(s)) \cup Elements(src[s].pending)
                               \cup Elements(src[s].waiting)) = {}
    <3> DEFINE A == AcceptedOf(s) F == Flown(s) P == src[s].pending W == src[s].waiting
               d == prod[s].staged m == prod[s].made
    <3>1. /\ A \in SUBSET EventIds /\ F \in Seq(EventIds) /\ P \in Seq(EventIds) /\ W \in Seq(EventIds)
          /\ c \in Seq(Seq(EventIds)) /\ c # <<>> /\ LineUp(A, F, P, W, c, d, m)
      BY <1>2, <1>13, <1>14
    <3> HIDE DEF A, F, P, W, d, m
    <3>2. Inc(Head(c)) /\ Elements(Head(c)) \cap (A \cup Elements(F) \cup Elements(P) \cup Elements(W)) = {}
      BY <3>1, HeadIsNew
    <3> QED BY <3>2 DEF h, A, F, P, W
  <2>1. Inc(h) /\ Elements(h) \cap TakenOver(s) = {} BY <2>0 DEF TakenOver
  <2>2. IsFiniteSet(Elements(h)) /\ Cardinality(Elements(h)) = Len(h) BY <2>1, <1>3, IncCounted
  <2>3. TakenOver(s)' = TakenOver(s) \cup Elements(h)
    <3>1. Elements(src[s].waiting) = {} BY <1>2 DEF Elements
    <3> QED BY <3>1, <1>7, <1>10 DEF TakenOver
  <2>4. IsFiniteSet(TakenOver(s)) /\ Cardinality(TakenOver(s)) = src[s].received BY <1>11 DEF CountOf
  <2>5. TakenOver(s) \cap Elements(h) = {} BY <2>1
  <2>6. Cardinality(TakenOver(s) \cap Elements(h)) = 0 BY <2>5, FS_EmptySet
  <2>7. IsFiniteSet(TakenOver(s)') /\ Cardinality(TakenOver(s)') = src[s].received + Len(h)
    <3> DEFINE T == TakenOver(s) E == Elements(h)
    <3> HIDE DEF T, E
    <3>1. /\ IsFiniteSet(T) /\ IsFiniteSet(E) /\ Cardinality(T) = src[s].received
          /\ Cardinality(E) = Len(h) /\ Cardinality(T \cap E) = 0
      BY <2>2, <2>4, <2>6 DEF T, E
    <3>2. IsFiniteSet(T \cup E) /\ Cardinality(T \cup E) = Cardinality(T) + Cardinality(E) - Cardinality(T \cap E)
      BY <3>1, FS_Union
    <3>3. Cardinality(T \cup E) = src[s].received + Len(h) BY <3>1, <3>2, <1>4, <1>13
    <3> QED BY <3>2, <3>3, <2>3 DEF T, E
  <2>8. Len(src[s].waiting) = 0 BY <1>2
  <2>9. /\ src[s].received = src[s].acknowledged + Len(Flown(s)) + Len(src[s].pending) + Len(src[s].waiting)
        /\ src[s].retained = Len(src[s].pending) + Len(Flown(s))
    BY <1>11 DEF CountOf
  <2>10. src[s].received + Len(h) = src[s].acknowledged + Len(Flown(s)) + Len(src[s].pending) + Len(h)
    BY <2>8, <2>9, <1>4, <1>13
  <2> QED BY <2>7, <2>9, <2>10, <1>7, <1>10 DEF CountOf
<1>17. \A x \in Sources : LineOf(x)' /\ CountOf(x)'
  BY <1>9, <1>10, <1>11, <1>15, <1>16, OtherSource
<1>18. NoLostWakeUp'
  <2>1. NothingPending' = NothingPending BY <1>7, <1>9 DEF NothingPending
  <2>2. src[s].blocked => src[s].space
    <3>1. Fits(src[s]) BY <1>1, <1>2 DEF Fits, BatchSource
    <3> QED BY <3>1 DEF DeliveryInv, NoLostWakeUp
  <2>3. \A x \in Sources : src'[x].blocked /\ Fits(src'[x]) => src'[x].space
    BY <2>2, <1>7, <1>9 DEF DeliveryInv, NoLostWakeUp
  <2>4. \A x \in Sources : Fits(src[x])' = Fits(src'[x]) BY DEF Fits
  <2> QED BY <2>1, <2>3, <2>4, <1>5 DEF DeliveryInv, NoLostWakeUp
<1>19. WireIsCarried' /\ ReplyIsTrue' BY <1>5, FrameOfMessages
<1> QED BY <1>12, <1>17, <1>18, <1>19, BySource DEF DeliveryInv

(* The batch joins the queue and the budget.                               *)
LEMMA RetainKeeps == ASSUME DeliveryInv, NEW s \in Sources, Retain(s) PROVE DeliveryInv'
<1> DEFINE w == src[s].waiting p == src[s].pending u == p \o w
<1>1. src[s] \in BatchSource /\ src \in [Sources -> BatchSource] BY DEF DeliveryInv, DeliveryTypeOK
<1>2. /\ Flown(s) \in Seq(EventIds) /\ p \in Seq(EventIds) /\ w \in Seq(EventIds)
      /\ Len(Flown(s)) \in Nat /\ Len(p) \in Nat /\ Len(w) \in Nat
      /\ src[s].received \in Nat /\ src[s].acknowledged \in Nat /\ src[s].retained \in Nat
  BY <1>1, FlownType DEF DeliveryInv, BatchSource
<1>3. u \in Seq(EventIds) /\ Len(u) = Len(p) + Len(w) BY <1>2, ConcatProperties
<1>4. /\ src' = [src EXCEPT ![s].waiting = <<>>, ![s].pending = u, ![s].retained = src[s].retained + Len(w)]
      /\ ready' = TRUE /\ UNCHANGED <<prod, flight, run, wire, replies, accepted, snap>>
  BY DEF Retain
<1>5. src[s].retained + Len(w) \in 0 .. MaxRetained /\ ~src[s].blocked
  BY <1>1, <1>2, BoundsAssumption DEF Retain, Fits, BatchSource
<1>6. Elements(u) = Elements(p) \cup Elements(w) BY <1>2, ElementsConcat
<1> HIDE DEF u, w, p
<1>7. src' \in [Sources -> BatchSource]
  <2>1. <<>> \in Seq(EventIds) BY EmptySeq
  <2> QED BY <2>1, <1>1, <1>3, <1>4, <1>5 DEF BatchSource
<1>8. /\ src'[s].waiting = <<>> /\ src'[s].pending = u /\ src'[s].retained = src[s].retained + Len(w)
      /\ src'[s].received = src[s].received /\ src'[s].acknowledged = src[s].acknowledged
      /\ src'[s].blocked = src[s].blocked
  BY <1>1, <1>4 DEF BatchSource
<1>9. \A x \in Sources : x # s => src'[x] = src[x] BY <1>1, <1>4
<1>10. \A x \in Sources : Flown(x)' = Flown(x) /\ AcceptedOf(x)' = AcceptedOf(x) BY <1>4 DEF Flown, AcceptedOf
<1>11. \A x \in Sources : LineOf(x) /\ CountOf(x) BY BySource DEF DeliveryInv
<1>12. DeliveryTypeOK' BY <1>4, <1>7 DEF DeliveryInv, DeliveryTypeOK
<1>13. LineOf(s)'
  <2>1. LineUp(AcceptedOf(s), Flown(s), p, w, prod[s].channel, prod[s].staged, prod[s].made)
    BY <1>11 DEF LineOf, p, w
  <2>2. LineUp(AcceptedOf(s), Flown(s), u, <<>>, prod[s].channel, prod[s].staged, prod[s].made)
    BY <2>1, <1>2, RetainLine DEF u
  <2> QED BY <2>2, <1>4, <1>8, <1>10 DEF LineOf
<1>14. CountOf(s)'
  <2>1. Elements(<<>>) = {} /\ Len(<<>>) = 0 BY DEF Elements
  <2>2. TakenOver(s)' = TakenOver(s) BY <2>1, <1>6, <1>8, <1>10 DEF TakenOver, p, w
  <2>3. /\ src[s].received = src[s].acknowledged + Len(Flown(s)) + Len(p) + Len(w)
        /\ src[s].retained = Len(p) + Len(Flown(s))
        /\ IsFiniteSet(TakenOver(s)) /\ Cardinality(TakenOver(s)) = src[s].received
    BY <1>11 DEF CountOf, p, w
  <2>4. /\ src[s].received = src[s].acknowledged + Len(Flown(s)) + Len(u) + 0
        /\ src[s].retained + Len(w) = Len(u) + Len(Flown(s))
    BY <2>3, <1>2, <1>3
  <2> QED BY <2>1, <2>2, <2>3, <2>4, <1>8, <1>10 DEF CountOf
<1>15. \A x \in Sources : LineOf(x)' /\ CountOf(x)'
  BY <1>4, <1>9, <1>10, <1>11, <1>13, <1>14, OtherSource
<1>16. NoLostWakeUp'
  <2>1. \A x \in Sources : src'[x].blocked /\ Fits(src'[x]) => src'[x].space
    BY <1>5, <1>8, <1>9 DEF DeliveryInv, NoLostWakeUp
  <2>2. \A x \in Sources : Fits(src[x])' = Fits(src'[x]) BY DEF Fits
  <2> QED BY <2>1, <2>2, <1>4 DEF NoLostWakeUp
<1>17. WireIsCarried' /\ ReplyIsTrue' BY <1>4, FrameOfMessages
<1> QED BY <1>12, <1>15, <1>16, <1>17, BySource DEF DeliveryInv

(* prepare_delivery takes the head of a queue.                             *)
LEMMA PrepareKeeps == ASSUME DeliveryInv, NEW s \in Sources, Prepare(s) PROVE DeliveryInv'
<1> DEFINE p == src[s].pending n == Taken(src[s]) f == SubSeq(p, 1, n) g == SubSeq(p, n + 1, Len(p))
<1>1. src[s] \in BatchSource /\ src \in [Sources -> BatchSource] /\ flight.events = <<>> /\ run.phase = "check"
  BY DEF DeliveryInv, DeliveryTypeOK, Prepare, Flying
<1>2. /\ p \in Seq(EventIds) /\ Len(p) \in Nat /\ p # <<>>
      /\ src[s].received \in Nat /\ src[s].acknowledged \in Nat
      /\ Len(src[s].waiting) \in Nat
  BY <1>1, FlownType DEF DeliveryInv, Prepare, Chosen, BatchSource
<1>3. Len(p) # 0 BY <1>2, EmptySeq
<1>4. n \in 1 .. Len(p) BY <1>2, <1>3, BoundsAssumption DEF Taken
<1>5. /\ flight' = [source |-> s, events |-> f] /\ src' = [src EXCEPT ![s].pending = g]
      /\ UNCHANGED <<prod, ready, run, wire, replies, accepted, snap>>
  BY DEF Prepare
<1> HIDE DEF n, p
<1>6. f \o g = p
  <2>1. 1 \in 1 .. Len(p) + 1 /\ n \in 1 - 1 .. Len(p) /\ Len(p) \in n .. Len(p) BY <1>2, <1>4
  <2>2. f \o g = SubSeq(p, 1, Len(p)) BY <2>1, <1>2, ConcatAdjacentSubSeq
  <2> QED BY <2>2, <1>2, SubSeqFull
<1>7. f \in Seq(EventIds) /\ g \in Seq(EventIds)
  <2>1. \A i \in 1 .. Len(p) : p[i] \in EventIds BY <1>2, ElementOfSeq
  <2>2. \A i \in 1 .. n : p[i] \in EventIds BY <2>1, <1>2, <1>4
  <2>3. \A i \in n + 1 .. Len(p) : p[i] \in EventIds BY <2>1, <1>2, <1>4
  <2>4. n \in Int /\ n + 1 \in Int /\ Len(p) \in Int BY <1>2, <1>4
  <2>5. f \in Seq(EventIds) BY <2>2, <2>4, SubSeqProperties
  <2>6. g \in Seq(EventIds) BY <2>3, <2>4, SubSeqProperties
  <2> QED BY <2>5, <2>6
<1> HIDE DEF f, g
<1>8. /\ Elements(p) = Elements(f) \cup Elements(g) /\ Len(p) = Len(f) + Len(g)
      /\ Len(f) \in Nat /\ Len(g) \in Nat
  BY <1>6, <1>7, ElementsConcat, ConcatProperties, LenProperties
<1>9. src' \in [Sources -> BatchSource] BY <1>1, <1>5, <1>7 DEF BatchSource
<1>10. /\ src'[s].pending = g /\ src'[s].waiting = src[s].waiting /\ src'[s].retained = src[s].retained
       /\ src'[s].received = src[s].received /\ src'[s].acknowledged = src[s].acknowledged
       /\ src'[s].blocked = src[s].blocked /\ src'[s].space = src[s].space
  BY <1>1, <1>5 DEF BatchSource
<1>11. \A x \in Sources : x # s => src'[x] = src[x] BY <1>1, <1>5
<1>12. /\ \A x \in Sources : Flown(x) = <<>> /\ AcceptedOf(x)' = AcceptedOf(x)
       /\ \A x \in Sources : Flown(x)' = IF x = s THEN f ELSE <<>>
  BY <1>1, <1>5 DEF Flown, AcceptedOf
<1>13. \A x \in Sources : LineOf(x) /\ CountOf(x) BY BySource DEF DeliveryInv
<1>14. DeliveryTypeOK' BY <1>5, <1>7, <1>9 DEF DeliveryInv, DeliveryTypeOK
<1>15. LineOf(s)'
  <2>1. LineUp(AcceptedOf(s), Flown(s), p, src[s].waiting, prod[s].channel, prod[s].staged, prod[s].made)
    BY <1>13 DEF LineOf, p
  <2>2. AcceptedOf(s) \in SUBSET EventIds BY DEF AcceptedOf
  <2>3. LineUp(AcceptedOf(s), f, g, src[s].waiting, prod[s].channel, prod[s].staged, prod[s].made)
    BY <2>1, <2>2, <1>2, <1>4, PrepareLine DEF f, g
  <2> QED BY <2>3, <1>5, <1>10, <1>12 DEF LineOf
<1>16. CountOf(s)'
  <2>1. Elements(<<>>) = {} /\ Len(<<>>) = 0 BY DEF Elements
  <2>2. TakenOver(s)' = TakenOver(s) BY <2>1, <1>8, <1>10, <1>12 DEF TakenOver, p
  <2>3. /\ src[s].received = src[s].acknowledged + 0 + Len(p) + Len(src[s].waiting)
        /\ src[s].retained = Len(p) + 0
        /\ IsFiniteSet(TakenOver(s)) /\ Cardinality(TakenOver(s)) = src[s].received
    BY <2>1, <1>12, <1>13 DEF CountOf, p
  <2>4. /\ src[s].received = src[s].acknowledged + Len(f) + Len(g) + Len(src[s].waiting)
        /\ src[s].retained = Len(g) + Len(f)
    BY <2>3, <1>2, <1>8
  <2> QED BY <2>2, <2>3, <2>4, <1>10, <1>12 DEF CountOf
<1>17. \A x \in Sources : LineOf(x)' /\ CountOf(x)'
  BY <1>5, <1>11, <1>12, <1>13, <1>15, <1>16, OtherSource
<1>18. NoLostWakeUp'
  <2>1. \A x \in Sources : src'[x].blocked /\ Fits(src'[x]) => src'[x].space
    BY <1>10, <1>11 DEF DeliveryInv, NoLostWakeUp, Fits
  <2>2. \A x \in Sources : Fits(src[x])' = Fits(src'[x]) BY DEF Fits
  <2> QED BY <2>1, <2>2, <1>1, <1>5 DEF NoLostWakeUp
<1>19. WireIsCarried'
  <2>1. Carried = {} BY <1>1 DEF Carried
  <2> QED BY <2>1, <1>5 DEF DeliveryInv, WireIsCarried
<1>20. ReplyIsTrue' BY <1>1, <1>5 DEF ReplyIsTrue
<1> QED BY <1>14, <1>17, <1>18, <1>19, <1>20, BySource DEF DeliveryInv

(* The service accepts what it had accepted or the present delivery.       *)
LEMMA AcceptStep ==
    ASSUME DeliveryInv, accepted \subseteq accepted', accepted' \subseteq accepted \cup Carried,
           UNCHANGED <<prod, src, flight>>
    PROVE  LinedUp' /\ TakenAreCounted' /\ RetainedMatches'
<1> SUFFICES ASSUME NEW s \in Sources PROVE LineOf(s)' /\ CountOf(s)' BY BySource
<1>1. LineOf(s) /\ CountOf(s) BY BySource DEF DeliveryInv
<1>2. Flown(s)' = Flown(s) /\ Flown(s) \in Seq(EventIds) BY FlownType DEF Flown, DeliveryInv
<1>3. AcceptedOf(s) \subseteq AcceptedOf(s)' BY DEF AcceptedOf
<1>4. AcceptedOf(s)' \subseteq AcceptedOf(s) \cup Elements(Flown(s))
  <2> SUFFICES ASSUME NEW e \in EventIds, <<s, e>> \in Carried PROVE e \in Elements(Flown(s))
    BY DEF AcceptedOf
  <2>1. flight.source = s /\ \E i \in 1 .. Len(flight.events) : e = flight.events[i] BY DEF Carried
  <2>2. DOMAIN flight.events = 1 .. Len(flight.events) BY LenProperties DEF DeliveryInv, DeliveryTypeOK
  <2> QED BY <2>1, <2>2 DEF Elements, Flown
<1>5. LineOf(s)'
  <2> DEFINE B == AcceptedOf(s)'
  <2> HIDE DEF B
  <2>1. LineUp(B, Flown(s), src[s].pending, src[s].waiting, prod[s].channel, prod[s].staged, prod[s].made)
    BY <1>1, <1>2, <1>4, ServeLine DEF LineOf, B
  <2> QED BY <2>1, <1>2 DEF LineOf, B
<1>6. TakenOver(s)' = TakenOver(s) BY <1>2, <1>3, <1>4 DEF TakenOver
<1> QED BY <1>1, <1>2, <1>5, <1>6 DEF CountOf

(* The service answers a request.                                          *)
LEMMA ServeKeeps == ASSUME DeliveryInv, NEW r \in wire, NEW ok \in BOOLEAN, Serve(r, ok) PROVE DeliveryInv'
<1>0. /\ UNCHANGED <<prod, src, ready, flight, run, snap>> /\ wire' \subseteq wire
      /\ replies' = replies \cup {[id |-> r.id, ok |-> ok]}
      /\ accepted' = IF ok THEN accepted \cup r.logs ELSE accepted
  BY DEF Serve
<1>1. r.logs \subseteq accepted \cup Carried BY DEF DeliveryInv, WireIsCarried
<1>2. accepted \subseteq accepted' /\ accepted' \subseteq accepted \cup Carried BY <1>0, <1>1
<1>3. DeliveryTypeOK'
  <2>1. r.id \in 1 .. MaxRequests /\ r.logs \subseteq Log BY DEF DeliveryInv, DeliveryTypeOK
  <2>2. accepted' \subseteq Log /\ replies' \subseteq [id : 1 .. MaxRequests, ok : BOOLEAN]
    BY <2>1, <1>0 DEF DeliveryInv, DeliveryTypeOK
  <2> QED BY <2>2, <1>0 DEF DeliveryInv, DeliveryTypeOK
<1>4. LinedUp' /\ TakenAreCounted' /\ RetainedMatches' BY <1>0, <1>2, AcceptStep
<1>5. NoLostWakeUp' BY <1>0 DEF DeliveryInv, NoLostWakeUp, NothingPending, Fits
<1>6. Carried' = Carried BY <1>0 DEF Carried
<1>7. WireIsCarried' BY <1>0, <1>2, <1>6 DEF DeliveryInv, WireIsCarried
<1>8. ReplyIsTrue'
  <2> SUFFICES ASSUME run.phase = "sent"
               PROVE  /\ \A x \in wire' : x.id = run.id => x.logs = Carried
                      /\ \A x \in replies' : x.id = run.id /\ x.ok => Carried \subseteq accepted'
    BY <1>0, <1>6 DEF ReplyIsTrue
  <2>1. \A x \in wire : x.id = run.id => x.logs = Carried BY DEF DeliveryInv, ReplyIsTrue
  <2>2. \A x \in replies : x.id = run.id /\ x.ok => Carried \subseteq accepted BY DEF DeliveryInv, ReplyIsTrue
  <2>3. r.id = run.id /\ ok => Carried \subseteq accepted' BY <2>1, <1>0
  <2> QED BY <2>1, <2>2, <2>3, <1>0, <1>2
<1> QED BY <1>3, <1>4, <1>5, <1>7, <1>8 DEF DeliveryInv

(* A session ends after its request arrived.                               *)
LEMMA EndSessionAcceptedKeeps ==
    ASSUME DeliveryInv, NEW r \in wire, EndSessionAccepted(r)
    PROVE  DeliveryInv'
<1>0. /\ UNCHANGED <<prod, src, ready, flight, snap>> /\ wire' = {} /\ replies' = {}
      /\ accepted' = accepted \cup r.logs
  BY DEF EndSessionAccepted
<1>1. r.logs \subseteq accepted \cup Carried BY DEF DeliveryInv, WireIsCarried
<1>2. accepted \subseteq accepted' /\ accepted' \subseteq accepted \cup Carried BY <1>0, <1>1
<1>3. run' \in [phase : Phases, id : 0 .. MaxRequests, failing : BOOLEAN] /\ run'.phase = "down"
  BY DEF DeliveryInv, DeliveryTypeOK, EndSessionAccepted, Phases
<1>4. DeliveryTypeOK' BY <1>0, <1>3 DEF DeliveryInv, DeliveryTypeOK
<1>5. LinedUp' /\ TakenAreCounted' /\ RetainedMatches' BY <1>0, <1>2, AcceptStep
<1>6. NoLostWakeUp' BY <1>0, <1>3 DEF DeliveryInv, NoLostWakeUp, NothingPending, Fits
<1>7. WireIsCarried' BY <1>0 DEF WireIsCarried
<1>8. ReplyIsTrue' BY <1>3 DEF ReplyIsTrue
<1> QED BY <1>4, <1>5, <1>6, <1>7, <1>8 DEF DeliveryInv

(* A reply that agrees to the delivery releases it.                        *)
LEMMA AcknowledgeKeeps ==
    ASSUME DeliveryInv, NEW r \in replies, replies' = replies \ {r}, Acknowledge(r)
    PROVE  DeliveryInv'
<1> DEFINE F == flight.events
<1>z. PICK z \in Sources : z = flight.source BY DEF DeliveryInv, DeliveryTypeOK
<1>1. /\ z \in Sources /\ F \in Seq(EventIds) /\ Len(F) \in Nat
      /\ src \in [Sources -> BatchSource] /\ src[z] \in BatchSource
  <2>1. F \in Seq(EventIds) /\ src \in [Sources -> BatchSource]
    BY DEF DeliveryInv, DeliveryTypeOK
  <2> QED BY <2>1, LenProperties
<1>2. Carried \subseteq accepted BY DEF DeliveryInv, ReplyIsTrue, Acknowledge, Matches
<1>3. /\ src' = [src EXCEPT ![z].retained = @ - Len(F), ![z].acknowledged = @ + Len(F), ![z].space = TRUE]
      /\ flight' = Nothing /\ UNCHANGED <<ready, wire, accepted, snap>>
  BY <1>z DEF Acknowledge
<1>4. ProducersGoOn
  <2>1. CASE run.failing BY <2>1, ReportedGoesOn DEF DeliveryInv, Acknowledge
  <2>2. CASE ~run.failing BY <2>2, AllStay DEF DeliveryInv, Acknowledge
  <2> QED BY <2>1, <2>2
<1>5. run' \in [phase : Phases, id : 0 .. MaxRequests, failing : BOOLEAN] /\ run'.phase = "check"
  BY DEF DeliveryInv, DeliveryTypeOK, Acknowledge, Phases
<1>6. /\ \A x \in Sources : Flown(x)' = <<>> /\ AcceptedOf(x)' = AcceptedOf(x)
      /\ Flown(z) = F /\ \A x \in Sources : x # z => Flown(x) = <<>>
  BY <1>3, <1>z DEF Flown, AcceptedOf, Nothing
<1>7. \A x \in Sources : LineOf(x) /\ CountOf(x) BY BySource DEF DeliveryInv
<1>c. Elements(F) \subseteq AcceptedOf(z)
  <2>1. DOMAIN F = 1 .. Len(F) /\ \A i \in 1 .. Len(F) : F[i] \in EventIds BY <1>1, LenProperties, ElementOfSeq
  <2>2. \A i \in 1 .. Len(F) : <<z, F[i]>> \in Carried BY <1>z DEF Carried
  <2> QED BY <2>1, <2>2, <1>2 DEF Elements, AcceptedOf
<1> HIDE DEF F
<1>8. /\ src[z].retained \in Nat /\ src[z].acknowledged \in Nat /\ src[z].received \in Nat
      /\ src[z].retained <= MaxRetained
      /\ src[z].pending \in Seq(EventIds) /\ src[z].waiting \in Seq(EventIds)
      /\ Len(src[z].pending) \in Nat /\ Len(src[z].waiting) \in Nat
      /\ src[z].retained = Len(src[z].pending) + Len(F)
      /\ src[z].received = src[z].acknowledged + Len(F) + Len(src[z].pending) + Len(src[z].waiting)
      /\ IsFiniteSet(TakenOver(z)) /\ Cardinality(TakenOver(z)) = src[z].received
  <2>1. /\ src[z].retained \in Nat /\ src[z].acknowledged \in Nat /\ src[z].received \in Nat
        /\ src[z].retained <= MaxRetained
    BY <1>1, BoundsAssumption DEF BatchSource
  <2>2. /\ src[z].pending \in Seq(EventIds) /\ src[z].waiting \in Seq(EventIds)
        /\ Len(src[z].pending) \in Nat /\ Len(src[z].waiting) \in Nat
    BY FlownType DEF DeliveryInv
  <2>3. CountOf(z) /\ Flown(z) = F BY <1>6, <1>7
  <2> QED BY <2>1, <2>2, <2>3 DEF CountOf
<1> DEFINE n == src[z].retained - Len(F) k == src[z].acknowledged + Len(F)
<1>9. /\ n = Len(src[z].pending) /\ n \in 0 .. MaxRetained /\ k \in Nat
      /\ src[z].received = k + 0 + Len(src[z].pending) + Len(src[z].waiting)
  BY <1>1, <1>8, BoundsAssumption
<1>10. src' = [src EXCEPT ![z].retained = n, ![z].acknowledged = k, ![z].space = TRUE] BY <1>3
<1> HIDE DEF n, k
<1>11. src' \in [Sources -> BatchSource] BY <1>1, <1>9, <1>10 DEF BatchSource
<1>12. /\ src'[z].retained = n /\ src'[z].acknowledged = k /\ src'[z].space = TRUE
       /\ src'[z].pending = src[z].pending /\ src'[z].waiting = src[z].waiting
       /\ src'[z].received = src[z].received
       /\ \A x \in Sources : x # z => src'[x] = src[x]
  BY <1>1, <1>10 DEF BatchSource
<1>13. DeliveryTypeOK'
  <2>1. flight' \in [source : Sources, events : Seq(EventIds)] BY <1>3, SourcesAssumption, EmptySeq DEF Nothing
  <2> QED BY <2>1, <1>3, <1>4, <1>5, <1>11 DEF DeliveryInv, DeliveryTypeOK, ProducersGoOn
<1>14. ASSUME NEW x \in Sources PROVE LineOf(x)'
  <2>1. src'[x].pending = src[x].pending /\ src'[x].waiting = src[x].waiting BY <1>12
  <2>2. LineUp(AcceptedOf(x), Flown(x), src[x].pending, src[x].waiting, prod[x].channel, prod[x].staged, prod[x].made)
    BY <1>7 DEF LineOf
  <2>3. LineUp(AcceptedOf(x), <<>>, src[x].pending, src[x].waiting, prod[x].channel, prod[x].staged, prod[x].made)
    BY <2>2, AckLine
  <2>4. /\ AcceptedOf(x) \in SUBSET EventIds /\ <<>> \in Seq(EventIds)
        /\ src[x].pending \in Seq(EventIds) /\ src[x].waiting \in Seq(EventIds)
    BY FlownType, EmptySeq DEF AcceptedOf, DeliveryInv
  <2>5. LineUp(AcceptedOf(x), <<>>, src[x].pending, src[x].waiting, prod'[x].channel, prod'[x].staged, prod'[x].made)
    BY <2>3, <2>4, <1>4 DEF ProducersGoOn, Follows
  <2> QED BY <2>1, <2>5, <1>6 DEF LineOf
<1>15. Elements(<<>>) = {} /\ Len(<<>>) = 0 BY DEF Elements
<1>16. CountOf(z)'
  <2>1. TakenOver(z)' = TakenOver(z) BY <1>1, <1>c, <1>6, <1>12, <1>15 DEF TakenOver
  <2>2. Len(src[z].pending) = Len(src[z].pending) + 0 BY <1>8
  <2> QED BY <2>1, <2>2, <1>1, <1>6, <1>8, <1>9, <1>12, <1>15 DEF CountOf
<1>17. ASSUME NEW x \in Sources, x # z PROVE CountOf(x)'
  <2>1. src'[x] = src[x] /\ Flown(x)' = Flown(x) /\ AcceptedOf(x)' = AcceptedOf(x) BY <1>17, <1>6, <1>12
  <2>2. TakenOver(x)' = TakenOver(x) BY <2>1 DEF TakenOver
  <2> QED BY <2>1, <2>2, <1>7 DEF CountOf
<1>18. LinedUp' /\ TakenAreCounted' /\ RetainedMatches' BY <1>14, <1>16, <1>17, BySource
<1>19. NoLostWakeUp'
  <2>1. \A x \in Sources : src'[x].blocked /\ Fits(src'[x]) => src'[x].space
    BY <1>12 DEF DeliveryInv, NoLostWakeUp
  <2>2. \A x \in Sources : Fits(src[x])' = Fits(src'[x]) BY DEF Fits
  <2> QED BY <2>1, <2>2, <1>5 DEF NoLostWakeUp
<1>20. WireIsCarried' BY <1>2, <1>3 DEF DeliveryInv, WireIsCarried
<1>21. ReplyIsTrue' BY <1>5 DEF ReplyIsTrue
<1> QED BY <1>13, <1>18, <1>19, <1>20, <1>21 DEF DeliveryInv

(* read_replies: agreed, refused or not for this request.                  *)
LEMMA ReplyKeeps == ASSUME DeliveryInv, NEW r \in replies, Reply(r) PROVE DeliveryInv'
<1>0. replies' = replies \ {r} BY DEF Reply
<1>1. CASE Acknowledge(r) BY <1>0, <1>1, AcknowledgeKeeps
<1>2. CASE ~r.ok /\ Matches(r) /\ SendFailed
  <2>1. ProducersGoOn BY <1>2, ReportedGoesOn DEF DeliveryInv, SendFailed
  <2>2. run' \in [phase : Phases, id : 0 .. MaxRequests, failing : BOOLEAN] /\ run'.phase = "sleep"
    BY <1>2 DEF DeliveryInv, DeliveryTypeOK, SendFailed, Phases
  <2>3. UNCHANGED <<src, ready, flight, wire, accepted, snap>> BY <1>2 DEF SendFailed
  <2>4. DeliveryTypeOK' BY <1>0, <2>1, <2>2, <2>3 DEF DeliveryInv, DeliveryTypeOK, ProducersGoOn
  <2>5. LinedUp' /\ TakenAreCounted' /\ RetainedMatches' BY <2>1, <2>3, StaysIfUnchanged, FrameOfEvents
  <2>6. NoLostWakeUp' BY <2>2, <2>3 DEF DeliveryInv, NoLostWakeUp, NothingPending, Fits
  <2>7. WireIsCarried' /\ ReplyIsTrue' BY <1>0, <2>2, <2>3, FrameOfMessages
  <2> QED BY <2>4, <2>5, <2>6, <2>7 DEF DeliveryInv
<1>3. CASE ~Matches(r) /\ UNCHANGED <<prod, src, ready, flight, run, wire, accepted, snap>>
  <2>1. DeliveryTypeOK' BY <1>0, <1>3 DEF DeliveryInv, DeliveryTypeOK
  <2>2. LinedUp' /\ TakenAreCounted' /\ RetainedMatches'
    BY <1>3, StaysIfUnchanged, AllStay, FrameOfEvents DEF DeliveryInv
  <2>3. NoLostWakeUp' BY <1>3 DEF DeliveryInv, NoLostWakeUp, NothingPending, Fits
  <2>4. WireIsCarried' /\ ReplyIsTrue' BY <1>0, <1>3, FrameOfMessages
  <2> QED BY <2>1, <2>2, <2>3, <2>4 DEF DeliveryInv
<1> QED BY <1>1, <1>2, <1>3 DEF Reply

(* A node starts with nothing.                                             *)
LEMMA DeliveryStarts == DeliveryInit => DeliveryInv
<1> SUFFICES ASSUME DeliveryInit PROVE DeliveryInv OBVIOUS
<1>1. <<>> \in Seq(EventIds) /\ <<>> \in Seq(Seq(EventIds)) /\ Len(<<>>) = 0 BY EmptySeq
<1>2. DeliveryTypeOK
  <2>1. prod \in [Sources -> Producer] BY <1>1 DEF DeliveryInit, Producer
  <2>2. src \in [Sources -> BatchSource] BY <1>1, BoundsAssumption DEF DeliveryInit, BatchSource
  <2>3. flight \in [source : Sources, events : Seq(EventIds)] BY <1>1, SourcesAssumption DEF DeliveryInit, Nothing
  <2>4. run \in [phase : Phases, id : 0 .. MaxRequests, failing : BOOLEAN]
    BY BoundsAssumption DEF DeliveryInit, Phases
  <2>5. snap \in [Sources \ {Own} -> [published : Nat, queued : Nat]] BY DEF DeliveryInit
  <2> QED BY <2>1, <2>2, <2>3, <2>4, <2>5 DEF DeliveryInit, DeliveryTypeOK
<1>3. ASSUME NEW s \in Sources PROVE LineOf(s) /\ CountOf(s)
  <2>1. /\ Flown(s) = <<>> /\ AcceptedOf(s) = {} /\ src[s].pending = <<>> /\ src[s].waiting = <<>>
        /\ prod[s].channel = <<>> /\ prod[s].staged = <<>> /\ prod[s].made = 0
        /\ src[s].received = 0 /\ src[s].acknowledged = 0 /\ src[s].retained = 0
    BY DEF DeliveryInit, Flown, AcceptedOf, Nothing
  <2>2. Elements(<<>>) = {} BY DEF Elements
  <2>3. TakenOver(s) = {} BY <2>1, <2>2 DEF TakenOver
  <2>4. CountOf(s) BY <2>1, <2>3, <1>1, FS_EmptySet DEF CountOf
  <2>5. Marked({}, <<>>, <<>>, <<>>, <<>>, <<>>, 0, 0, 0, 0, 0)
    BY <1>1, EmptyIsBetween DEF Marked, Batches
  <2>6. LineUp({}, <<>>, <<>>, <<>>, <<>>, <<>>, 0) BY <2>5 DEF LineUp
  <2> QED BY <2>1, <2>4, <2>6 DEF LineOf
<1>4. LinedUp /\ TakenAreCounted /\ RetainedMatches BY <1>3, BySource
<1>5. NoLostWakeUp BY DEF DeliveryInit, NoLostWakeUp
<1>6. WireIsCarried /\ ReplyIsTrue BY DEF DeliveryInit, WireIsCarried, ReplyIsTrue
<1> QED BY <1>2, <1>4, <1>5, <1>6 DEF DeliveryInv

(* Every step of the delivery keeps the invariant.                         *)
LEMMA DeliveryGoesOn == DeliveryInv /\ [DeliveryNext]_deliveryVars => DeliveryInv'
<1> SUFFICES ASSUME DeliveryInv, [DeliveryNext]_deliveryVars PROVE DeliveryInv' OBVIOUS
<1>1. ASSUME NEW s \in Sources, Produce(s) \/ Flush(s) \/ StopProducer(s) \/ ReceiverStep(s) \/ Report(s)
      PROVE  DeliveryInv'
  BY <1>1, ProduceKeeps, FlushKeeps, StopProducerKeeps, ReceiveKeeps, RetainKeeps, BlockKeeps, ReportKeeps
  DEF ReceiverStep
<1>2. CASE SenderStep BY <1>2, PrepareKeeps, SendKeeps, LoopKeeps DEF SenderStep
<1>3. CASE TimeOut BY <1>3, SendFailedKeeps DEF TimeOut
<1>4. CASE StartSession \/ EndSession BY <1>4, LoopKeeps
<1>5. ASSUME NEW r \in replies, Reply(r) PROVE DeliveryInv' BY <1>5, ReplyKeeps
<1>6. ASSUME NEW r \in wire, EndSessionAccepted(r) \/ \E ok \in BOOLEAN : Serve(r, ok) PROVE DeliveryInv'
  BY <1>6, EndSessionAcceptedKeeps, ServeKeeps
<1>7. CASE UNCHANGED deliveryVars
  <2>1. UNCHANGED <<prod, src, ready, flight, run, wire, replies, accepted, snap>> BY <1>7 DEF deliveryVars
  <2>2. ProducersGoOn BY <2>1, AllStay DEF DeliveryInv
  <2> QED BY <2>1, <2>2, ProducerSteps
<1> QED BY <1>1, <1>2, <1>3, <1>4, <1>5, <1>6, <1>7 DEF DeliveryNext

(* What the invariant says of the events held, taken together.             *)
LEMMA HeldProperties ==
    ASSUME DeliveryInv, NEW s \in Sources
    PROVE  /\ Held(s) \in Seq(EventIds) /\ Inc(Held(s))
           /\ Len(Held(s)) = Len(Flown(s)) + Len(src[s].pending) + Len(src[s].waiting)
           /\ Elements(Held(s)) = Elements(Flown(s)) \cup Elements(src[s].pending) \cup Elements(src[s].waiting)
           /\ \A e \in TakenOver(s) : e <= prod[s].made
           /\ \A e \in AcceptedOf(s), i \in 1 .. Len(Held(s)) : e < Held(s)[i] \/ i <= Len(Flown(s))
<1> DEFINE F == Flown(s) P == src[s].pending W == src[s].waiting m == prod[s].made A == AcceptedOf(s)
           c == prod[s].channel st == prod[s].staged
<1>1. /\ F \in Seq(EventIds) /\ P \in Seq(EventIds) /\ W \in Seq(EventIds)
      /\ Len(F) \in Nat /\ Len(P) \in Nat /\ Len(W) \in Nat
  BY FlownType DEF DeliveryInv
<1>2. m \in Nat BY FlownType DEF DeliveryInv, Producer
<1>3. LineUp(A, F, P, W, c, st, m) BY DEF DeliveryInv, LinedUp
<1>4. Held(s) = (F \o P) \o W BY DEF Held
<1>5. TakenOver(s) = A \cup Elements(F) \cup Elements(P) \cup Elements(W) BY DEF TakenOver
<1>6. A \subseteq EventIds BY DEF AcceptedOf
<1> HIDE DEF F, P, W, m, A, c, st
<1>7. PICK n1, n2, n3, n4 \in Nat : Marked(A, F, P, W, c, st, m, n1, n2, n3, n4) BY <1>3 DEF LineUp
<1>8. /\ n1 <= n2 /\ n2 <= n3 /\ n3 <= n4 /\ n4 <= m /\ \A e \in A : e <= n1
      /\ Between(F, 0, n1) /\ Between(P, n1, n2) /\ Between(W, n2, n3) /\ Inc(F) /\ Inc(P) /\ Inc(W)
  BY <1>7 DEF Marked
<1>9. Inc(F \o P) /\ Between(F \o P, 0, n2) BY <1>1, <1>8, ConcatInc
<1>10. F \o P \in Seq(EventIds) /\ Len(F \o P) = Len(F) + Len(P) BY <1>1, ConcatProperties
<1>11. n2 \in Nat /\ 0 <= n2 OBVIOUS
<1> DEFINE H == (F \o P) \o W
<1>12. Inc(H) /\ Between(H, 0, n3) BY <1>1, <1>8, <1>9, <1>10, <1>11, ConcatInc
<1>13. H \in Seq(EventIds) /\ Len(H) = Len(F) + Len(P) + Len(W)
  BY <1>1, <1>10, ConcatProperties
<1>14. Elements(H) = Elements(F) \cup Elements(P) \cup Elements(W) BY <1>1, <1>10, ElementsConcat
<1>15. ASSUME NEW e \in TakenOver(s) PROVE e <= m
  <2>1. CASE e \in A BY <2>1, <1>2, <1>6, <1>8 DEF EventIds
  <2>2. CASE e \in Elements(F) BY <2>2, <1>1, <1>2, <1>8, ElementsBetween
  <2>3. CASE e \in Elements(P) BY <2>3, <1>1, <1>2, <1>8, ElementsBetween
  <2>4. CASE e \in Elements(W) BY <2>4, <1>1, <1>2, <1>8, ElementsBetween
  <2> QED BY <2>1, <2>2, <2>3, <2>4, <1>5
<1>16. ASSUME NEW e \in A, NEW i \in 1 .. Len(H), ~(i <= Len(F)) PROVE e < H[i]
  <2>1. e \in Nat /\ e <= n1 BY <1>6, <1>8 DEF EventIds
  <2>2. CASE i <= Len(F) + Len(P)
    <3>1. i \in 1 .. Len(F) + Len(P) /\ i - Len(F) \in 1 .. Len(P) BY <2>2, <1>1, <1>13, <1>16
    <3>2. H[i] = (F \o P)[i] BY <3>1, <2>2, <1>1, <1>10, <1>13, ConcatProperties
    <3>3. (F \o P)[i] = P[i - Len(F)] BY <3>1, <1>1, <1>16, ConcatProperties
    <3>4. n1 < P[i - Len(F)] /\ P[i - Len(F)] \in Nat
      BY <3>1, <1>1, <1>8, ElementOfSeq DEF Between, EventIds
    <3> QED BY <3>2, <3>3, <3>4, <2>1
  <2>3. CASE ~(i <= Len(F) + Len(P))
    <3> DEFINE j == i - (Len(F) + Len(P))
    <3>1. j \in 1 .. Len(W) BY <2>3, <1>1, <1>13
    <3>2. H[i] = W[j] BY <3>1, <2>3, <1>1, <1>10, <1>13, ConcatProperties
    <3>3. n2 < W[j] /\ W[j] \in Nat BY <3>1, <1>1, <1>8, ElementOfSeq DEF Between, EventIds
    <3> QED BY <3>2, <3>3, <2>1, <1>8
  <2> QED BY <2>2, <2>3
<1> HIDE DEF H
<1>17. Held(s) = H BY <1>4 DEF H
<1> QED BY <1>12, <1>13, <1>14, <1>15, <1>16, <1>17 DEF F, P, W, m, A

(* The invariant says what TakenIsKept says.                               *)
LEMMA InvKeepsTaken == DeliveryInv => TakenIsKept
<1> SUFFICES ASSUME DeliveryInv PROVE TakenIsKept OBVIOUS
<1>1. ASSUME NEW s \in Sources
      PROVE  /\ \A e \in Elements(Held(s)) : e <= prod[s].made
             /\ src[s].received = src[s].acknowledged + Len(Held(s))
             /\ Cardinality(Received(s)) = src[s].received
  <2>1. \A e \in Elements(Held(s)) : e <= prod[s].made BY HeldProperties DEF TakenOver
  <2>2. Len(Held(s)) = Len(Flown(s)) + Len(src[s].pending) + Len(src[s].waiting) BY HeldProperties
  <2>3. /\ src[s].received = src[s].acknowledged + Len(Flown(s)) + Len(src[s].pending) + Len(src[s].waiting)
        /\ Cardinality(TakenOver(s)) = src[s].received
    BY DEF DeliveryInv, TakenAreCounted
  <2>4. /\ Len(Flown(s)) \in Nat /\ Len(src[s].pending) \in Nat /\ Len(src[s].waiting) \in Nat
        /\ src[s].acknowledged \in Nat /\ prod[s].made \in Nat
    BY FlownType DEF DeliveryInv, BatchSource, Producer
  <2>5. src[s].received = src[s].acknowledged + Len(Held(s))
    <3> DEFINE x == Len(Flown(s)) y == Len(src[s].pending) z == Len(src[s].waiting) h == Len(Held(s))
    <3>1. /\ x \in Nat /\ y \in Nat /\ z \in Nat /\ src[s].acknowledged \in Nat
          /\ src[s].received = src[s].acknowledged + x + y + z /\ h = x + y + z
      BY <2>2, <2>3, <2>4
    <3> HIDE DEF x, y, z, h
    <3>2. src[s].received = src[s].acknowledged + h BY <3>1
    <3> QED BY <3>2 DEF h
  <2>6. TakenOver(s) = AcceptedOf(s) \cup Elements(Held(s)) BY HeldProperties DEF TakenOver
  <2>7. Elements(Held(s)) \subseteq EventIds BY HeldProperties, ElementsType
  <2>8. \A e \in TakenOver(s) : e \in 1 .. prod[s].made
    <3>1. \A e \in TakenOver(s) : e <= prod[s].made BY HeldProperties
    <3>2. TakenOver(s) \subseteq EventIds BY <2>6, <2>7 DEF AcceptedOf
    <3> QED BY <3>1, <3>2, <2>4 DEF EventIds
  <2>9. Received(s) = TakenOver(s)
    <3>1. \A e \in 1 .. prod[s].made : <<s, e>> \in accepted <=> e \in AcceptedOf(s)
      BY <2>4 DEF AcceptedOf, EventIds
    <3> QED BY <3>1, <2>6, <2>8 DEF Received
  <2> QED BY <2>1, <2>3, <2>5, <2>9
<1>2. HeldOrAccepted BY <1>1 DEF HeldOrAccepted
<1>3. InOrder
  <2> SUFFICES ASSUME NEW s \in Sources
               PROVE  /\ \A i, j \in DOMAIN Held(s) : i < j => Held(s)[i] < Held(s)[j]
                      /\ \A e \in 1 .. prod[s].made : <<s, e>> \in accepted =>
                            \A i \in DOMAIN Held(s) : e < Held(s)[i] \/ i <= Len(Flown(s))
    BY DEF InOrder
  <2>1. Held(s) \in Seq(EventIds) /\ Inc(Held(s)) BY HeldProperties
  <2>2. DOMAIN Held(s) = 1 .. Len(Held(s)) BY <2>1, LenProperties
  <2>3. prod[s].made \in Nat BY FlownType DEF DeliveryInv, Producer
  <2>4. \A e \in 1 .. prod[s].made : <<s, e>> \in accepted => e \in AcceptedOf(s)
    BY <2>3 DEF AcceptedOf, EventIds
  <2> QED BY <2>1, <2>2, <2>4, HeldProperties DEF Inc
<1>4. BacklogIsCovered
  <2> SUFFICES ASSUME NEW s \in Sources PROVE queued_events(s) >= Len(Held(s)) BY DEF BacklogIsCovered
  <2>1. src[s].received = src[s].acknowledged + Len(Held(s)) BY <1>1
  <2>2. src[s].received \in Nat /\ src[s].acknowledged \in Nat BY FlownType DEF DeliveryInv, BatchSource
  <2>3. Len(Held(s)) \in Nat BY HeldProperties, LenProperties
  <2> DEFINE p == Figures(s).published k == Figures(s).queued M == Max({p, src[s].received})
  <2>4. p \in Nat /\ k \in Nat
    <3>1. CASE s = Own
      <4>1. prod[s].published \in Nat /\ prod[s].staged \in Seq(EventIds) BY FlownType DEF DeliveryInv, Producer
      <4>2. Len(prod[s].staged) \in Nat BY <4>1, LenProperties
      <4> QED BY <4>1, <4>2, <3>1 DEF Figures
    <3>2. CASE s # Own BY <3>2 DEF DeliveryInv, DeliveryTypeOK, Figures
    <3> QED BY <3>1, <3>2
  <2> HIDE DEF p, k
  <2>5. M \in Nat /\ M >= src[s].received
    <3> DEFINE x == src[s].received
    <3>1. x \in Nat BY <2>2
    <3> HIDE DEF x
    <3>2. \E y \in {p, x} : \A z \in {p, x} : y >= z BY <3>1, <2>4
    <3>3. Max({p, x}) \in {p, x} /\ \A z \in {p, x} : Max({p, x}) >= z BY <3>2 DEF Max
    <3> QED BY <3>1, <3>3, <2>4 DEF x
  <2> HIDE DEF M
  <2>6. queued_events(s) = M - src[s].acknowledged + k BY DEF queued_events, M, p, k
  <2> QED BY <2>1, <2>2, <2>3, <2>4, <2>5, <2>6
<1> QED BY <1>2, <1>3, <1>4 DEF DeliveryInv, TakenIsKept

(* From every start, an event the control worker took over is in its       *)
(* hands or accepted by the service, in the order of production, and the   *)
(* budgets, wake-ups and figures of the loops are right: for all sources,  *)
(* supplies, budgets and numbers of requests under way.                    *)
THEOREM DeliveryKeeps == DeliverySpec => []TakenIsKept
<1>1. DeliverySpec => []DeliveryInv BY DeliveryStarts, DeliveryGoesOn, PTL DEF DeliverySpec
<1> QED BY <1>1, InvKeepsTaken, PTL
=============================================================================
