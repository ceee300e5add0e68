------------------------- MODULE SyncRuntimeProofs --------------------------
(***************************************************************************)
(* Proofs about SyncRuntime for every set of resources and claim loops and *)
(* every bound.  The safety properties are not inductive alone; Inv below  *)
(* ties each row to its aggregate and each attempt to the row it captured. *)
(***************************************************************************)
EXTENDS SyncRuntime, TLAPS

(* Row ids are handed out in order, and captured ids are ids handed out.   *)
IdsAreOld == /\ \A r \in Resources : task[r].id < nextId
             /\ \A w \in Workers : job[w].id < nextId

(* A row is at its aggregate's version and removes exactly a deleted zone. *)
RowsAgree == \A r \in Resources : Exists(r) =>
                /\ task[r].version = aggregate[r].version
                /\ task[r].removal = aggregate[r].deleted
                /\ aggregate[r].deleted => TypeOf[r] = "dns_zone"

(* An attempt is never ahead of the row it captured, and knows the         *)
(* operation of its own version.                                           *)
AttemptFollows(w) ==
    LET row == task[job[w].resource] IN
    /\ job[w].id # 0
    /\ row.id = job[w].id => job[w].version <= row.version
    /\ row.id = job[w].id /\ row.version = job[w].version => job[w].removal = row.removal

AttemptsFollow == \A w \in Workers : Running(w) => AttemptFollows(w)

(* A repair was scanned for a version that exists.                         *)
RepairsAreReal == \A w \in Workers : job[w].kind = "repair" => job[w].version > 0

(* The inductive invariant.                                                *)
Inv == /\ TypeOK
       /\ IdsAreOld
       /\ RowsAgree
       /\ AttemptsFollow
       /\ RepairsAreReal
       /\ RowsAreSound
       /\ OkMeansApplied

USE NoOwnerAssumption, FailCapAssumption, TypeAssumption, BoundAssumption, ResourceAssumption

-----------------------------------------------------------------------------
(* What the row operators return.                                          *)

(* A loop at rest is a job.                                                *)
LEMMA IdleIsJob == Idle \in Job /\ Idle.kind = "idle" /\ Idle.id = 0
  BY DEF Idle, Job, Kinds

(* The statements that leave id, version and operation alone also keep the *)
(* row sound.                                                              *)
Kept(old, new) == /\ new \in Row
                  /\ new.id = old.id
                  /\ new.version = old.version
                  /\ new.removal = old.removal
                  /\ RowIsSound(new)

(* Kept, and not newly succeeded.                                          *)
KeptAsIs(old, new) == /\ Kept(old, new)
                      /\ new.done /\ new.ok => old.done /\ old.ok

(* The capped failure count stays in its range.                            *)
LEMMA FailsClosed == 0 \in Fails /\ 1 \in Fails /\ \A n \in Fails : OneMore(n) \in Fails
  BY DEF Fails, OneMore

(* Completion: the row stays typed, settled at its version, without lease. *)
LEMMA CompletedRowKept ==
  ASSUME NEW row \in Row, RowIsSound(row)
  PROVE  Kept(row, CompletedRow(row))
<1> DEFINE new == CompletedRow(row)
<1>1. Unleased(row) \in Row
  BY DEF Unleased, Row
<1>2. new \in Row
  BY <1>1, FailsClosed DEF CompletedRow, Row
<1>3. /\ new.id = row.id /\ new.version = row.version /\ new.removal = row.removal
      /\ new.done /\ new.processed = row.version /\ ~new.live
      /\ new.waitTask = 0 /\ new.waitVersion = 0
  BY DEF CompletedRow, Unleased, Row
<1>4. row.version \in Nat
  BY DEF Row
<1> HIDE DEF new
<1>5. RowIsSound(new)
  BY <1>3, <1>4 DEF RowIsSound
<1> QED
  BY <1>2, <1>3, <1>5 DEF new, Kept

(* Failure, terminal or not: settled at its version only when terminal.    *)
LEMMA FailedRowKept ==
  ASSUME NEW row \in Row, RowIsSound(row), NEW t \in BOOLEAN, NEW b \in BOOLEAN
  PROVE  Kept(row, FailedRow(row, t, b)) /\ ~FailedRow(row, t, b).ok
<1> DEFINE new == FailedRow(row, t, b)
<1>1. Unleased(row) \in Row
  BY DEF Unleased, Row
<1>2. new \in Row
  <2> DEFINE f == IF b THEN 1 ELSE OneMore(row.fails)
             q == IF t THEN row.version ELSE row.processed
  <2>1. f \in Fails /\ q \in Nat
    BY FailsClosed DEF Row
  <2>2. new = [Unleased(row) EXCEPT !.done = t, !.ok = FALSE, !.due = FALSE, !.fails = f,
                                   !.processed = q, !.waitTask = 0, !.waitVersion = 0]
    BY DEF FailedRow, Unleased, Row
  <2> DEFINE half == [Unleased(row) EXCEPT !.done = t, !.ok = FALSE, !.due = FALSE]
  <2>3. half \in Row
    BY <1>1 DEF Row
  <2>4. new = [half EXCEPT !.fails = f, !.processed = q, !.waitTask = 0, !.waitVersion = 0]
    BY <2>2
  <2> HIDE DEF f, q, half
  <2>5. [half EXCEPT !.fails = f, !.processed = q, !.waitTask = 0, !.waitVersion = 0] \in Row
    BY <2>1, <2>3 DEF Row
  <2> QED
    BY <2>4, <2>5, Zenon
<1>3. /\ new.id = row.id /\ new.version = row.version /\ new.removal = row.removal
      /\ ~new.ok /\ ~new.live /\ new.waitTask = 0 /\ new.waitVersion = 0
  BY DEF FailedRow, Unleased, Row
<1>4. new.done = t /\ new.processed = IF t THEN row.version ELSE row.processed
  BY DEF FailedRow, Unleased, Row
<1>5. row.version \in Nat /\ row.processed \in Nat
  BY DEF Row
<1> HIDE DEF new
<1>6. RowIsSound(new)
  BY <1>3, <1>4, <1>5 DEF RowIsSound
<1> QED
  BY <1>2, <1>3, <1>6 DEF new, Kept

(* The results that settle nothing.                                        *)
LEMMA RowResults ==
  ASSUME NEW row \in Row, RowIsSound(row)
  PROVE  /\ KeptAsIs(row, row)
         /\ \A a, v \in Nat \ {0} : KeptAsIs(row, WaitingRow(row, a, v))
         /\ KeptAsIs(row, ReleasedRow(row))
         /\ KeptAsIs(row, InspectedRow(row))
         /\ KeptAsIs(row, RecoveredRow(row))
         /\ KeptAsIs(row, ResumedRow(row))
         /\ row.waitTask = 0 => \A w \in Workers : KeptAsIs(row, Leased(row, w))
<1> USE FailsClosed DEF Kept, KeptAsIs, Row, RowIsSound, Unleased
<1>1. KeptAsIs(row, row)
  OBVIOUS
<1>2. ASSUME NEW a \in Nat \ {0}, NEW v \in Nat \ {0}
      PROVE  KeptAsIs(row, WaitingRow(row, a, v))
  BY DEF WaitingRow
<1>3. KeptAsIs(row, ReleasedRow(row)) /\ KeptAsIs(row, InspectedRow(row))
  BY DEF ReleasedRow, InspectedRow
<1>4. KeptAsIs(row, RecoveredRow(row))
  BY DEF RecoveredRow
<1>5. KeptAsIs(row, ResumedRow(row))
  BY DEF ResumedRow
<1>6. ASSUME row.waitTask = 0, NEW w \in Workers PROVE KeptAsIs(row, Leased(row, w))
  BY <1>6 DEF Leased
<1> QED
  BY <1>1, <1>2, <1>3, <1>4, <1>5, <1>6

(* Resumptions touch nothing but waits and the schedule.                   *)
LEMMA ResumeKeeps ==
  ASSUME NEW table \in [Resources -> Row], \A r \in Resources : RowIsSound(table[r]),
         NEW id, NEW version, NEW removed
  PROVE  /\ Resume(table, id, version, removed) \in [Resources -> Row]
         /\ \A r \in Resources : KeptAsIs(table[r], Resume(table, id, version, removed)[r])
<1>1. \A r \in Resources : KeptAsIs(table[r], table[r]) /\ KeptAsIs(table[r], ResumedRow(table[r]))
  BY RowResults
<1>2. \A r \in Resources : Resume(table, id, version, removed)[r] \in {table[r], ResumedRow(table[r])}
  BY DEF Resume
<1>3. \A r \in Resources : KeptAsIs(table[r], Resume(table, id, version, removed)[r])
  BY <1>1, <1>2
<1> QED
  BY <1>3 DEF Resume, KeptAsIs, Kept

(* What an upsert makes of a row.                                          *)
LEMMA UpsertMakes ==
  ASSUME NEW row \in Row, RowIsSound(row), NEW id \in Nat \ {0},
         NEW version \in Nat \ {0}, NEW removal \in BOOLEAN, row.id # 0 => version >= row.version
  PROVE  LET new == UpsertRow(row, id, version, removal) IN
         /\ new \in Row
         /\ new.id = IF row.id = 0 THEN id ELSE row.id
         /\ new.version = version
         /\ new.removal = removal
         /\ RowIsSound(new)
         /\ ~new.done
<1> DEFINE new == UpsertRow(row, id, version, removal)
<1>1. new \in Row
  <2>1. NewRow(id, version, removal) \in Row
    BY FailsClosed DEF NewRow, NoRow, Row
  <2>2. Requeued(row, version, removal) \in Row
    BY FailsClosed DEF Requeued, Row
  <2> QED
    BY <2>1, <2>2 DEF UpsertRow
<1>2. CASE row.id = 0
  <2>1. /\ new.id = id /\ new.version = version /\ new.removal = removal
        /\ new.processed = 0 /\ ~new.done /\ ~new.ok /\ ~new.live
        /\ new.waitTask = 0 /\ new.waitVersion = 0
    BY <1>2 DEF UpsertRow, NewRow, NoRow
  <2> HIDE DEF new
  <2>2. RowIsSound(new)
    BY <2>1 DEF RowIsSound
  <2> QED
    BY <1>1, <1>2, <2>1, <2>2 DEF new
<1>3. CASE row.id # 0
  <2>1. /\ new.id = row.id /\ new.version = version /\ new.removal = removal
        /\ new.processed = 0 /\ ~new.done /\ ~new.ok
        /\ new.waitTask = 0 /\ new.waitVersion = 0
    BY <1>3 DEF UpsertRow, Requeued, Row
  <2>2. new.live => new.owner # NoOwner
    BY <1>3 DEF UpsertRow, Requeued, Row, RowIsSound
  <2> HIDE DEF new
  <2>3. RowIsSound(new)
    BY <2>1, <2>2 DEF RowIsSound
  <2> QED
    BY <1>1, <1>3, <2>1, <2>3 DEF new
<1> QED
  BY <1>2, <1>3

-----------------------------------------------------------------------------
(* Inv holds before anything is queued.                                    *)
LEMMA InitInv == Init => Inv
<1> SUFFICES ASSUME Init PROVE Inv
  OBVIOUS
<1>1. TypeOK
  BY IdleIsJob, FailsClosed DEF Init, TypeOK, Row, NoRow, Aggregate
<1>2. IdsAreOld /\ AttemptsFollow /\ RepairsAreReal
  BY IdleIsJob DEF Init, IdsAreOld, AttemptsFollow, RepairsAreReal, Running, NoRow
<1>3. RowsAgree /\ RowsAreSound /\ OkMeansApplied
  BY DEF Init, RowsAgree, RowsAreSound, RowIsSound, OkMeansApplied, Exists, NoRow
<1> QED
  BY <1>1, <1>2, <1>3 DEF Inv

-----------------------------------------------------------------------------
(* Steps.                                                                  *)

(* What a step may make of a claim loop: leave it alone, end its job, give *)
(* it a row it captured, or let it look for work.                          *)
JobStep(w) ==
    \/ job'[w] = job[w]
    \/ job'[w].kind = "idle" /\ job'[w].id = 0
    \/ /\ Exists(job'[w].resource)
       /\ job'[w] = [kind |-> job'[w].kind, resource |-> job'[w].resource,
                     id |-> task[job'[w].resource].id, version |-> task[job'[w].resource].version,
                     removal |-> task[job'[w].resource].removal, owner |-> job'[w].owner]
       /\ job'[w].kind # "repair"
    \/ /\ job'[w].kind \in {"recover", "repair"}
       /\ job'[w].id < nextId
       /\ job'[w].kind = "repair" => job'[w].version > 0

(* A step that keeps every row's work, and writes success only for the     *)
(* version it stores, preserves the invariant.                             *)
LEMMA QuietStep ==
  ASSUME Inv, nextId' = nextId, aggregate' = aggregate,
         applied' \in [Resources -> Nat],
         task' \in [Resources -> Row],
         \A r \in Resources : Kept(task[r], task'[r]),
         \A r \in Resources : task'[r].id # 0 /\ task'[r].done /\ task'[r].ok
                                  => applied'[r] = aggregate[r].version,
         job' \in [Workers -> Job],
         \A w \in Workers : JobStep(w)
  PROVE  Inv'
<1>1. TypeOK'
  BY DEF Inv, TypeOK
<1>2. IdsAreOld'
  <2>1. nextId \in Nat \ {0}
    BY DEF Inv, TypeOK
  <2>2. \A r \in Resources : task'[r].id < nextId
    BY DEF Inv, IdsAreOld, Kept
  <2>3. ASSUME NEW w \in Workers PROVE job'[w].id < nextId
    <3>1. CASE job'[w] = job[w]
      BY <3>1 DEF Inv, IdsAreOld
    <3>2. CASE job'[w] # job[w]
      <4>1. job'[w].resource \in Resources
        BY DEF Job
      <4> QED
        BY <2>1, <3>2, <4>1 DEF JobStep, Inv, IdsAreOld
    <3> QED
      BY <3>1, <3>2
  <2> QED
    BY <2>2, <2>3 DEF IdsAreOld
<1>3. RowsAgree'
  BY DEF Inv, RowsAgree, Exists, Kept
<1>4. AttemptsFollow'
  <2> SUFFICES ASSUME NEW w \in Workers, Running(w)' PROVE AttemptFollows(w)'
    BY DEF AttemptsFollow
  <2>1. job'[w].resource \in Resources
    BY DEF Job
  <2>2. CASE job'[w] = job[w]
    BY <2>1, <2>2 DEF Inv, AttemptsFollow, AttemptFollows, Running, Kept
  <2>3. CASE job'[w] # job[w]
    BY <2>1, <2>3 DEF JobStep, Running, AttemptFollows, Kept, Row, Exists
  <2> QED
    BY <2>2, <2>3
<1>5. RepairsAreReal'
  BY DEF Inv, RepairsAreReal, JobStep
<1>6. RowsAreSound'
  BY DEF RowsAreSound, Kept
<1>7. OkMeansApplied'
  BY DEF OkMeansApplied, Exists
<1> QED
  BY <1>1, <1>2, <1>3, <1>4, <1>5, <1>6, <1>7 DEF Inv

(* A step that keeps every row as it is, and stores nothing.               *)
LEMMA SilentStep ==
  ASSUME Inv, nextId' = nextId, aggregate' = aggregate, applied' = applied,
         task' \in [Resources -> Row],
         \A r \in Resources : KeptAsIs(task[r], task'[r]),
         job' \in [Workers -> Job],
         \A w \in Workers : JobStep(w)
  PROVE  Inv'
<1>1. \A r \in Resources : Kept(task[r], task'[r])
  BY DEF KeptAsIs
<1>2. \A r \in Resources : task'[r].id # 0 /\ task'[r].done /\ task'[r].ok
                             => applied'[r] = aggregate[r].version
  BY DEF Inv, OkMeansApplied, Exists, KeptAsIs, Kept
<1>3. applied' \in [Resources -> Nat]
  BY DEF Inv, TypeOK
<1> QED
  BY <1>1, <1>2, <1>3, QuietStep

(* The loop of w ends its job, the others go on.                           *)
LEMMA EndsJob ==
  ASSUME TypeOK, NEW w \in Workers, Become(w, Idle)
  PROVE  /\ job' \in [Workers -> Job]
         /\ \A v \in Workers : job'[v] = job[v] \/ (job'[v].kind = "idle" /\ job'[v].id = 0)
         /\ \A v \in Workers : JobStep(v)
<1>1. job' \in [Workers -> Job]
  BY IdleIsJob DEF Become, TypeOK
<1>2. \A v \in Workers : job'[v] = job[v] \/ job'[v] = Idle
  BY DEF Become, TypeOK
<1>3. \A v \in Workers : job'[v] = job[v] \/ (job'[v].kind = "idle" /\ job'[v].id = 0)
  BY <1>2, IdleIsJob
<1>4. \A v \in Workers : JobStep(v)
  BY <1>3 DEF JobStep
<1> QED
  BY <1>1, <1>3, <1>4

(* Every row is typed and sound.                                           *)
LEMMA RowsSound ==
  ASSUME Inv, NEW r \in Resources
  PROVE  task[r] \in Row /\ RowIsSound(task[r])
  BY DEF Inv, TypeOK, RowsAreSound

(* Writing one row, kept as it is.                                         *)
LEMMA OneRow ==
  ASSUME Inv, NEW r \in Resources, NEW row, KeptAsIs(task[r], row),
         task' = [task EXCEPT ![r] = row]
  PROVE  task' \in [Resources -> Row] /\ \A q \in Resources : KeptAsIs(task[q], task'[q])
<1>1. \A q \in Resources : KeptAsIs(task[q], task[q])
  BY RowsSound, RowResults
<1> QED
  BY <1>1 DEF Inv, TypeOK, KeptAsIs, Kept

(* The table after a result: every row keeps its work, and only the result *)
(* row may have succeeded anew.                                            *)
LEMMA ResultKeeps ==
  ASSUME Inv, NEW w \in Workers, Running(w), NEW row, Kept(task[job[w].resource], row),
         NEW resumes, Result(w, row, resumes, FALSE)
  PROVE  /\ task' \in [Resources -> Row]
         /\ \A q \in Resources : Kept(task[q], task'[q])
         /\ \A q \in Resources : \/ KeptAsIs(task[q], task'[q])
                                \/ /\ Holds(w) /\ q = job[w].resource
                                   /\ task'[q].done /\ task'[q].ok => row.done /\ row.ok
<1> DEFINE r == job[w].resource
           written == [task EXCEPT ![r] = row]
           resumed == Resume(written, job[w].id, job[w].version, FALSE)
<1>1. r \in Resources /\ task \in [Resources -> Row]
  BY DEF Inv, TypeOK, Job
<1>2. \A q \in Resources : KeptAsIs(task[q], task[q])
  BY RowsSound, RowResults
<1>3. CASE ~Holds(w)
  BY <1>1, <1>2, <1>3 DEF Result, KeptAsIs
<1>4. CASE Holds(w)
  <2>1. /\ written \in [Resources -> Row]
        /\ written[r] = row
        /\ \A q \in Resources \ {r} : written[q] = task[q]
    BY <1>1 DEF Kept
  <2>2. \A q \in Resources : RowIsSound(written[q]) /\ Kept(task[q], written[q])
    BY <1>2, <2>1 DEF KeptAsIs, Kept
  <2> HIDE DEF written
  <2>3. \A q \in Resources : KeptAsIs(written[q], written[q])
    BY <2>1, <2>2, RowResults
  <2>4. resumed \in [Resources -> Row] /\ \A q \in Resources : KeptAsIs(written[q], resumed[q])
    BY <2>1, <2>2, ResumeKeeps
  <2>5. task' \in {written, resumed}
    BY <1>4 DEF Result, written
  <2> HIDE DEF resumed
  <2>6. task' \in [Resources -> Row] /\ \A q \in Resources : KeptAsIs(written[q], task'[q])
    BY <2>1, <2>3, <2>4, <2>5
  <2>7. \A q \in Resources : Kept(task[q], task'[q])
    BY <2>2, <2>6 DEF KeptAsIs, Kept
  <2> QED
    BY <1>4, <2>1, <2>6, <2>7 DEF KeptAsIs
<1> QED
  BY <1>3, <1>4

(* What passes the fence is current: the row captured is the aggregate's,  *)
(* and so is the operation.                                                *)
LEMMA FenceIsCurrent ==
  ASSUME Inv, NEW w \in Workers, Holds(w)
  PROVE  /\ aggregate[job[w].resource].version = job[w].version
         /\ aggregate[job[w].resource].deleted => job[w].removal
         /\ IsCurrent(w)
  BY DEF Inv, RowsAgree, AttemptsFollow, AttemptFollows, Holds, Fence, Exists, IsCurrent, TypeOK, Job

-----------------------------------------------------------------------------
(* Results preserve the invariant.                                         *)

(* A stored result settles the row it was captured from.                   *)
LEMMA CompleteInv ==
  ASSUME Inv, NEW w \in Workers, Complete(w)
  PROVE  Inv'
<1> DEFINE r == job[w].resource
<1>1. r \in Resources /\ Running(w) /\ TypeOK
  BY DEF Inv, TypeOK, Job, Complete
<1>2. Kept(task[r], CompletedRow(task[r]))
  BY <1>1, RowsSound, CompletedRowKept
<1>3. Result(w, CompletedRow(task[r]), TRUE, FALSE)
  BY DEF Complete
<1>4. /\ task' \in [Resources -> Row]
      /\ \A q \in Resources : Kept(task[q], task'[q])
      /\ \A q \in Resources : KeptAsIs(task[q], task'[q]) \/ (Holds(w) /\ q = r)
  BY <1>1, <1>2, <1>3, ResultKeeps
<1>5. applied' \in [Resources -> Nat] /\ \A q \in Resources :
         task'[q].id # 0 /\ task'[q].done /\ task'[q].ok => applied'[q] = aggregate[q].version
  <2>1. CASE ~Holds(w)
    BY <1>4, <2>1 DEF Complete, Stored, Inv, TypeOK, OkMeansApplied, Exists, KeptAsIs, Kept
  <2>2. CASE Holds(w)
    <3>1. applied' = [applied EXCEPT ![r] = job[w].version]
      BY <2>2 DEF Complete, Stored
    <3>2. job[w].version \in Nat /\ job[w].version = aggregate[r].version
      BY <1>1, <2>2, FenceIsCurrent DEF TypeOK, Job
    <3> QED
      BY <1>1, <1>4, <3>1, <3>2 DEF Inv, TypeOK, OkMeansApplied, Exists, KeptAsIs, Kept
  <2> QED
    BY <2>1, <2>2
<1>6. job' \in [Workers -> Job] /\ \A v \in Workers : JobStep(v)
  BY <1>1, EndsJob DEF Complete
<1>7. nextId' = nextId /\ aggregate' = aggregate
  BY DEF Complete
<1> QED
  BY <1>4, <1>5, <1>6, <1>7, QuietStep

(* A failure that is stored with the aggregate, as for a zone.             *)
LEMMA StoreFailureInv ==
  ASSUME Inv, NEW w \in Workers, StoreFailure(w)
  PROVE  Inv'
<1> DEFINE r == job[w].resource
           row == FailedRow(task[r], TRUE, TypeOf[r] = "website")
<1>1. r \in Resources /\ Running(w) /\ TypeOK
  BY DEF Inv, TypeOK, Job, StoreFailure
<1>2. Kept(task[r], row) /\ ~row.ok
  <2>1. (TypeOf[r] = "website") \in BOOLEAN
    OBVIOUS
  <2> QED
    BY <1>1, <2>1, RowsSound, FailedRowKept
<1>3. Result(w, row, TRUE, FALSE)
  BY DEF StoreFailure
<1> HIDE DEF row
<1>4. /\ task' \in [Resources -> Row]
      /\ \A q \in Resources : Kept(task[q], task'[q])
      /\ \A q \in Resources : KeptAsIs(task[q], task'[q]) \/ (Holds(w) /\ q = r)
  BY <1>1, <1>2, <1>3, ResultKeeps
<1>5. applied' \in [Resources -> Nat] /\ \A q \in Resources :
         task'[q].id # 0 /\ task'[q].done /\ task'[q].ok => applied'[q] = aggregate[q].version
  <2>1. CASE ~Holds(w)
    BY <1>4, <2>1 DEF StoreFailure, Stored, Inv, TypeOK, OkMeansApplied, Exists, KeptAsIs, Kept
  <2>2. CASE Holds(w)
    <3>1. applied' = [applied EXCEPT ![r] = job[w].version]
      BY <2>2 DEF StoreFailure, Stored
    <3>2. job[w].version \in Nat /\ job[w].version = aggregate[r].version
      BY <1>1, <2>2, FenceIsCurrent DEF TypeOK, Job
    <3> QED
      BY <1>1, <1>4, <3>1, <3>2 DEF Inv, TypeOK, OkMeansApplied, Exists, KeptAsIs, Kept
  <2> QED
    BY <2>1, <2>2
<1>6. job' \in [Workers -> Job] /\ \A v \in Workers : JobStep(v)
  BY <1>1, EndsJob DEF StoreFailure
<1>7. nextId' = nextId /\ aggregate' = aggregate
  BY DEF StoreFailure
<1> QED
  BY <1>4, <1>5, <1>6, <1>7, QuietStep

(* A result that stores nothing and adds no success.                       *)
LEMMA PlainResultInv ==
  ASSUME Inv, NEW w \in Workers, Running(w), NEW row, Kept(task[job[w].resource], row),
         row.done /\ row.ok => task[job[w].resource].done /\ task[job[w].resource].ok,
         NEW resumes, Result(w, row, resumes, FALSE), Become(w, Idle),
         UNCHANGED <<nextId, aggregate, applied>>
  PROVE  Inv'
<1>1. TypeOK
  BY DEF Inv
<1>2. /\ task' \in [Resources -> Row]
      /\ \A q \in Resources : KeptAsIs(task[q], task'[q])
  BY ResultKeeps DEF KeptAsIs
<1>3. job' \in [Workers -> Job] /\ \A v \in Workers : JobStep(v)
  BY <1>1, EndsJob
<1> QED
  BY <1>2, <1>3, SilentStep

(* A failure that only reaches the row.                                    *)
LEMMA FailInv ==
  ASSUME Inv, NEW w \in Workers, NEW terminal \in BOOLEAN, Fail(w, terminal)
  PROVE  Inv'
<1> DEFINE r == job[w].resource
           restart == TypeOf[r] = "dns_zone" /\ job[w].kind = "inspect"
           row == FailedRow(task[r], terminal, restart)
<1>1. r \in Resources /\ Running(w)
  BY DEF Inv, TypeOK, Job, Fail
<1>2. Kept(task[r], row) /\ ~row.ok
  <2>1. restart \in BOOLEAN
    OBVIOUS
  <2> HIDE DEF restart
  <2> QED
    BY <1>1, <2>1, RowsSound, FailedRowKept
<1>3. Result(w, row, terminal, FALSE) /\ Become(w, Idle) /\ UNCHANGED <<nextId, aggregate, applied>>
  BY DEF Fail
<1> HIDE DEF row
<1> QED
  BY <1>1, <1>2, <1>3, PlainResultInv

(* A certificate that waits for a zone's task gives its lease back.        *)
LEMMA ParkInv ==
  ASSUME Inv, NEW w \in Workers, NEW a \in Resources, NEW v \in 1 .. task[a].version, Park(w, a, v)
  PROVE  Inv'
<1> DEFINE r == job[w].resource
           row == WaitingRow(task[r], task[a].id, v)
<1>1. r \in Resources /\ Running(w)
  BY DEF Inv, TypeOK, Job, Park, Running
<1>2. task[a].id \in Nat \ {0} /\ v \in Nat \ {0}
  BY DEF Park, Exists, Inv, TypeOK, Row
<1>3. KeptAsIs(task[r], row)
  BY <1>1, <1>2, RowsSound, RowResults
<1>4. Result(w, row, FALSE, FALSE) /\ Become(w, Idle) /\ UNCHANGED <<nextId, aggregate, applied>>
  BY DEF Park
<1> HIDE DEF row
<1> QED
  BY <1>1, <1>3, <1>4, PlainResultInv DEF KeptAsIs

(* An inspection that found nothing to do.                                 *)
LEMMA KeepSettledInv ==
  ASSUME Inv, NEW w \in Workers, KeepSettled(w)
  PROVE  Inv'
<1> DEFINE r == job[w].resource
           row == InspectedRow(task[r])
<1>1. r \in Resources /\ Running(w)
  BY DEF Inv, TypeOK, Job, KeepSettled, Running
<1>2. KeptAsIs(task[r], row)
  BY <1>1, RowsSound, RowResults
<1>3. Result(w, row, FALSE, FALSE) /\ Become(w, Idle) /\ UNCHANGED <<nextId, aggregate, applied>>
  BY DEF KeepSettled
<1> HIDE DEF row
<1> QED
  BY <1>1, <1>2, <1>3, PlainResultInv DEF KeptAsIs

(* An attempt whose aggregate moved on never passes the fence.             *)
LEMMA GiveWayInv ==
  ASSUME Inv, NEW w \in Workers, GiveWay(w)
  PROVE  Inv'
<1>1. ~Holds(w) /\ TypeOK
  BY FenceIsCurrent DEF GiveWay, Inv
<1>2. task' = task
  BY <1>1 DEF GiveWay, Result
<1>3. /\ task' \in [Resources -> Row]
      /\ \A q \in Resources : KeptAsIs(task[q], task'[q])
  BY <1>1, <1>2, RowsSound, RowResults DEF TypeOK
<1>4. job' \in [Workers -> Job] /\ \A v \in Workers : JobStep(v)
  BY <1>1, EndsJob DEF GiveWay
<1> QED
  BY <1>3, <1>4, SilentStep DEF GiveWay

-----------------------------------------------------------------------------
(* Steps that queue, replace or remove the work of one resource.           *)

(* The row of r is gone, new, or the old one at a newer version or at the  *)
(* same version and operation; it is not settled.                          *)
Replaced(r) ==
    /\ RowIsSound(task'[r])
    /\ task'[r].id < nextId'
    /\ task'[r].id # 0 =>
          /\ ~task'[r].done
          /\ task'[r].version = aggregate'[r].version
          /\ task'[r].removal = aggregate'[r].deleted
          /\ aggregate'[r].deleted => TypeOf[r] = "dns_zone"
          /\ \/ task'[r].id >= nextId
             \/ /\ task'[r].id = task[r].id
                /\ \/ task'[r].version > task[r].version
                   \/ task'[r].version = task[r].version /\ task'[r].removal = task[r].removal

(* One aggregate and its row move on together; attempts of the old row or  *)
(* version lose their hold.                                                *)
LEMMA ReplaceStep ==
  ASSUME Inv, NEW r \in Resources,
         nextId' \in Nat \ {0}, nextId' >= nextId,
         aggregate' \in [Resources -> Aggregate],
         applied' \in [Resources -> Nat],
         task' \in [Resources -> Row],
         job' \in [Workers -> Job],
         \A q \in Resources \ {r} : /\ aggregate'[q] = aggregate[q]
                                   /\ applied'[q] = applied[q]
                                   /\ KeptAsIs(task[q], task'[q]),
         Replaced(r),
         \A w \in Workers : job'[w] = job[w] \/ (job'[w].kind = "idle" /\ job'[w].id = 0)
  PROVE  Inv'
<1>1. TypeOK'
  BY DEF TypeOK
<1>2. IdsAreOld'
  <2>1. nextId \in Nat \ {0} /\ \A q \in Resources : task[q].id \in Nat
    BY DEF Inv, TypeOK, Row
  <2>2. \A w \in Workers : job[w].id \in Nat
    BY DEF Inv, TypeOK, Job
  <2>3. \A q \in Resources : task'[q].id < nextId'
    BY <2>1 DEF Inv, IdsAreOld, Replaced, KeptAsIs, Kept
  <2>4. \A w \in Workers : job'[w].id < nextId'
    BY <2>1, <2>2 DEF Inv, IdsAreOld
  <2> QED
    BY <2>3, <2>4 DEF IdsAreOld
<1>3. RowsAgree'
  BY DEF Inv, RowsAgree, Replaced, Exists, KeptAsIs, Kept
<1>4. AttemptsFollow'
  <2> SUFFICES ASSUME NEW w \in Workers, Running(w)' PROVE AttemptFollows(w)'
    BY DEF AttemptsFollow
  <2>1. job'[w] = job[w]
    BY DEF Running
  <2>2. /\ AttemptFollows(w) /\ job[w].resource \in Resources /\ job[w].id < nextId
        /\ job[w].id \in Nat /\ job[w].version \in Nat /\ nextId \in Nat
    BY <2>1 DEF Inv, AttemptsFollow, IdsAreOld, Running, TypeOK, Job
  <2>3. CASE job[w].resource # r
    BY <2>1, <2>2, <2>3 DEF AttemptFollows, KeptAsIs, Kept
  <2>4. CASE job[w].resource = r
    <3>1. task'[r] \in Row /\ task[r] \in Row
      BY RowsSound
    <3> QED
      BY <2>1, <2>2, <2>4, <3>1 DEF AttemptFollows, Replaced, Row
  <2> QED
    BY <2>3, <2>4
<1>5. RepairsAreReal'
  BY DEF Inv, RepairsAreReal
<1>6. RowsAreSound'
  BY DEF RowsAreSound, Replaced, KeptAsIs, Kept
<1>7. OkMeansApplied'
  BY DEF Inv, OkMeansApplied, Exists, Replaced, KeptAsIs, Kept
<1> QED
  BY <1>1, <1>2, <1>3, <1>4, <1>5, <1>6, <1>7 DEF Inv

(* A row that goes away satisfies Replaced.                                *)
LEMMA RowGone ==
  ASSUME NEW r \in Resources, task'[r] = NoRow, nextId' \in Nat \ {0}
  PROVE  Replaced(r)
  BY DEF Replaced, NoRow, RowIsSound

(* The absent row is typed and sound, and waits for nothing.               *)
LEMMA NoRowIsRow == NoRow \in Row /\ RowIsSound(NoRow) /\ NoRow.id = 0 /\ NoRow.waitTask = 0
  BY FailsClosed DEF NoRow, Row, RowIsSound

(* The removal of a deleted zone is done and its row goes.                 *)
LEMMA FinishRemovalInv ==
  ASSUME Inv, NEW w \in Workers, FinishRemoval(w)
  PROVE  Inv'
<1> DEFINE r == job[w].resource
           written == [task EXCEPT ![r] = NoRow]
<1>1. r \in Resources /\ TypeOK /\ task \in [Resources -> Row] /\ job \in [Workers -> Job]
  BY DEF Inv, TypeOK, Job
<1>2. job' \in [Workers -> Job] /\ \A v \in Workers : JobStep(v)
  BY <1>1, EndsJob DEF FinishRemoval
<1>3. nextId' = nextId /\ aggregate' = aggregate
  BY DEF FinishRemoval
<1>4. CASE ~Holds(w)
  <2>1. task' = task /\ applied' = applied
    BY <1>4 DEF FinishRemoval, Result, Stored
  <2>2. task' \in [Resources -> Row] /\ \A q \in Resources : KeptAsIs(task[q], task'[q])
    BY <1>1, <2>1, RowsSound, RowResults
  <2> QED
    BY <1>2, <1>3, <2>1, <2>2, SilentStep
<1>5. CASE Holds(w)
  <2>1. task' = Resume(written, job[w].id, job[w].version, TRUE)
    BY <1>5 DEF FinishRemoval, Result
  <2>2. /\ written \in [Resources -> Row] /\ written[r] = NoRow
        /\ \A q \in Resources \ {r} : written[q] = task[q]
        /\ \A q \in Resources : RowIsSound(written[q])
    BY <1>1, NoRowIsRow, RowsSound
  <2> HIDE DEF written
  <2>3. task' \in [Resources -> Row] /\ \A q \in Resources : KeptAsIs(written[q], task'[q])
    BY <2>1, <2>2, ResumeKeeps
  <2>4. task'[r] = NoRow
    BY <1>1, <2>1, <2>2, NoRowIsRow DEF Resume
  <2>5. applied' = [applied EXCEPT ![r] = job[w].version] /\ job[w].version \in Nat
    BY <1>1, <1>5 DEF FinishRemoval, Stored, Job
  <2>6. \A v \in Workers : job'[v] = job[v] \/ (job'[v].kind = "idle" /\ job'[v].id = 0)
    BY <1>1, EndsJob DEF FinishRemoval
  <2>7. /\ nextId' \in Nat \ {0} /\ nextId' >= nextId
        /\ aggregate' \in [Resources -> Aggregate] /\ applied' \in [Resources -> Nat]
        /\ \A q \in Resources \ {r} : aggregate'[q] = aggregate[q] /\ applied'[q] = applied[q]
    BY <1>1, <1>3, <2>5 DEF TypeOK
  <2>8. Replaced(r)
    BY <1>1, <2>4, <2>7, RowGone
  <2>9. \A q \in Resources \ {r} : KeptAsIs(task[q], task'[q])
    BY <2>2, <2>3
  <2> QED
    BY <1>1, <1>2, <2>3, <2>6, <2>7, <2>8, <2>9, ReplaceStep
<1> QED
  BY <1>4, <1>5

-----------------------------------------------------------------------------
(* Claims, maintenance and time.                                           *)

(* A claim takes a row that waits for nothing and captures it.             *)
LEMMA LeaseInv ==
  ASSUME Inv, NEW w \in Workers, NEW r \in Resources, Exists(r), task[r].waitTask = 0,
         NEW kind \in {"run", "inspect"},
         task' = [task EXCEPT ![r] = Leased(@, w)],
         Become(w, NewJob(kind, r, w)), UNCHANGED <<nextId, aggregate, applied>>
  PROVE  Inv'
<1>1. TypeOK /\ task[r] \in Row
  BY RowsSound DEF Inv
<1>2. KeptAsIs(task[r], Leased(task[r], w))
  BY RowsSound, RowResults
<1>3. task' = [task EXCEPT ![r] = Leased(task[r], w)]
  OBVIOUS
<1>4. task' \in [Resources -> Row] /\ \A q \in Resources : KeptAsIs(task[q], task'[q])
  BY <1>2, <1>3, OneRow
<1>5. NewJob(kind, r, w) \in Job
  BY <1>1 DEF NewJob, Job, Kinds, Row
<1>6. job' \in [Workers -> Job]
  BY <1>1, <1>5 DEF Become, TypeOK
<1>7. \A v \in Workers : job'[v] = job[v] \/ job'[v] = NewJob(kind, r, w)
  BY <1>1 DEF Become, TypeOK
<1>8. \A v \in Workers : JobStep(v)
  BY <1>7 DEF JobStep, NewJob
<1> QED
  BY <1>4, <1>6, <1>8, SilentStep

(* A claim leases the row as it is.                                        *)
LEMMA ClaimInv ==
  ASSUME Inv, NEW w \in Workers, NEW r \in Resources, Claim(w, r) \/ ClaimInspection(w, r)
  PROVE  Inv'
<1>1. CASE Claim(w, r)
  BY <1>1, LeaseInv DEF Claim, Claimable
<1>2. CASE ClaimInspection(w, r)
  BY <1>2, LeaseInv DEF ClaimInspection, Inspectable
<1> QED
  BY <1>1, <1>2

(* The table is left alone.                                                *)
LEMMA TableAlone ==
  ASSUME Inv, task' = task
  PROVE  task' \in [Resources -> Row] /\ \A q \in Resources : KeptAsIs(task[q], task'[q])
  BY RowsSound, RowResults DEF Inv, TypeOK

(* A scan captures what it found and changes nothing.                      *)
LEMMA ScanInv ==
  ASSUME Inv, NEW w \in Workers, NEW r \in Resources, ScanExpired(w, r) \/ ScanMissing(w, r)
  PROVE  Inv'
<1>1. TypeOK /\ task[r] \in Row /\ task[r].id < nextId /\ aggregate[r] \in Aggregate
  BY RowsSound DEF Inv, IdsAreOld, TypeOK
<1>2. CASE ScanExpired(w, r)
  <2> DEFINE j == NewJob("recover", r, task[r].owner)
  <2>1. j \in Job /\ j.kind = "recover" /\ j.id = task[r].id /\ j.version = task[r].version
    BY <1>1 DEF NewJob, Job, Kinds, Row
  <2>2. job' = [job EXCEPT ![w] = j]
    BY <1>2 DEF ScanExpired, Become
  <2> HIDE DEF j
  <2>3. job' \in [Workers -> Job] /\ \A v \in Workers : job'[v] = job[v] \/ job'[v] = j
    BY <1>1, <2>1, <2>2 DEF TypeOK
  <2>4. \A v \in Workers : JobStep(v)
    BY <1>1, <2>1, <2>3 DEF JobStep
  <2> QED
    BY <1>2, <2>3, <2>4, TableAlone, SilentStep DEF ScanExpired
<1>3. CASE ScanMissing(w, r)
  <2> DEFINE j == [NewJob("repair", r, NoOwner) EXCEPT !.version = aggregate[r].version]
  <2>1. j \in Job /\ j.kind = "repair" /\ j.id = task[r].id /\ j.version = aggregate[r].version
    BY <1>1 DEF NewJob, Job, Kinds, Row, Aggregate
  <2>2. job' = [job EXCEPT ![w] = j] /\ aggregate[r].version > 0
    BY <1>3 DEF ScanMissing, Become, MarkerMissing
  <2> HIDE DEF j
  <2>3. job' \in [Workers -> Job] /\ \A v \in Workers : job'[v] = job[v] \/ job'[v] = j
    BY <1>1, <2>1, <2>2 DEF TypeOK
  <2>4. \A v \in Workers : JobStep(v)
    BY <1>1, <2>1, <2>2, <2>3 DEF JobStep
  <2> QED
    BY <1>3, <2>3, <2>4, TableAlone, SilentStep DEF ScanMissing
<1> QED
  BY <1>2, <1>3

(* A recovery takes the expired lease it had found, or does nothing.       *)
LEMMA RecoverInv ==
  ASSUME Inv, NEW w \in Workers, RecoverExpired(w)
  PROVE  Inv'
<1> DEFINE r == job[w].resource
<1>1. r \in Resources /\ TypeOK
  BY DEF Inv, TypeOK, Job
<1>2. KeptAsIs(task[r], RecoveredRow(task[r]))
  BY <1>1, RowsSound, RowResults
<1>3. task' = task \/ task' = [task EXCEPT ![r] = RecoveredRow(task[r])]
  BY DEF RecoverExpired
<1>4. task' \in [Resources -> Row] /\ \A q \in Resources : KeptAsIs(task[q], task'[q])
  BY <1>1, <1>2, <1>3, OneRow, TableAlone
<1> QED
  BY <1>1, <1>4, EndsJob, SilentStep DEF RecoverExpired

(* An attempt that ends without a result leaves its lease behind.          *)
LEMMA AbandonInv ==
  ASSUME Inv, NEW w \in Workers, Abandon(w)
  PROVE  Inv'
<1>1. TypeOK
  BY DEF Inv
<1> QED
  BY <1>1, TableAlone, EndsJob, SilentStep DEF Abandon

(* Resuming waiters changes waiting columns only.                          *)
LEMMA ResumeStaleInv ==
  ASSUME Inv, NEW w \in Workers, ResumeStaleWaiters(w)
  PROVE  Inv'
<1>1. \A q \in Resources : task'[q] \in {task[q], ResumedRow(task[q])}
  BY DEF ResumeStaleWaiters
<1>2. \A q \in Resources : KeptAsIs(task[q], task'[q])
  BY <1>1, RowsSound, RowResults
<1>3. task' \in [Resources -> Row]
  BY <1>2 DEF ResumeStaleWaiters, KeptAsIs, Kept
<1>4. job' \in [Workers -> Job] /\ \A v \in Workers : JobStep(v)
  BY DEF ResumeStaleWaiters, Inv, TypeOK, JobStep
<1> QED
  BY <1>2, <1>3, <1>4, SilentStep DEF ResumeStaleWaiters

(* Renewal, expiry and the schedule touch one flag of one row.             *)
LEMMA ClockInv ==
  ASSUME Inv,
         \/ \E w \in Workers : Renew(w)
         \/ \E r \in Resources : LeaseExpires(r) \/ BecomesDue(r)
  PROVE  Inv'
<1>1. ASSUME NEW r \in Resources, NEW row, KeptAsIs(task[r], row),
             task' = [task EXCEPT ![r] = row], UNCHANGED <<nextId, aggregate, applied, job>>
      PROVE  Inv'
  <2>1. job' \in [Workers -> Job] /\ \A v \in Workers : JobStep(v)
    BY <1>1 DEF Inv, TypeOK, JobStep
  <2> QED
    BY <1>1, <2>1, OneRow, SilentStep
<1>2. ASSUME NEW w \in Workers, Renew(w) PROVE Inv'
  <2> DEFINE r == job[w].resource
             row == [task[r] EXCEPT !.live = TRUE]
  <2>1. r \in Resources
    BY DEF Inv, TypeOK, Job
  <2>2. KeptAsIs(task[r], row)
    BY <1>2, <2>1, RowsSound DEF KeptAsIs, Kept, Row, RowIsSound, Renew, Holds, Fence
  <2>3. task' = [task EXCEPT ![r] = row] /\ UNCHANGED <<nextId, aggregate, applied, job>>
    BY <1>2 DEF Renew
  <2> HIDE DEF row
  <2> QED
    BY <1>1, <2>1, <2>2, <2>3
<1>3. ASSUME NEW r \in Resources, LeaseExpires(r) PROVE Inv'
  <2> DEFINE row == [task[r] EXCEPT !.live = FALSE]
  <2>1. KeptAsIs(task[r], row)
    BY RowsSound DEF KeptAsIs, Kept, Row, RowIsSound
  <2>2. task' = [task EXCEPT ![r] = row] /\ UNCHANGED <<nextId, aggregate, applied, job>>
    BY <1>3 DEF LeaseExpires
  <2> HIDE DEF row
  <2> QED
    BY <1>1, <2>1, <2>2
<1>4. ASSUME NEW r \in Resources, BecomesDue(r) PROVE Inv'
  <2> DEFINE row == [task[r] EXCEPT !.due = TRUE]
  <2>1. KeptAsIs(task[r], row)
    BY RowsSound DEF KeptAsIs, Kept, Row, RowIsSound
  <2>2. task' = [task EXCEPT ![r] = row] /\ UNCHANGED <<nextId, aggregate, applied, job>>
    BY <1>4 DEF BecomesDue
  <2> HIDE DEF row
  <2> QED
    BY <1>1, <2>1, <2>2
<1> QED
  BY <1>2, <1>3, <1>4

-----------------------------------------------------------------------------
(* Commands and repairs.                                                   *)

(* An upsert at a version that does not go back, together with its         *)
(* aggregate.                                                              *)
LEMMA UpsertInv ==
  ASSUME Inv, NEW r \in Resources, NEW version \in Nat \ {0}, NEW removal \in BOOLEAN,
         Upsert(r, version, removal),
         removal => TypeOf[r] = "dns_zone",
         \/ version > aggregate[r].version
         \/ version = aggregate[r].version /\ removal = aggregate[r].deleted,
         aggregate' \in [Resources -> Aggregate],
         aggregate'[r].version = version, aggregate'[r].deleted = removal,
         \A q \in Resources \ {r} : aggregate'[q] = aggregate[q],
         applied' = applied,
         job' \in [Workers -> Job],
         \A w \in Workers : job'[w] = job[w] \/ (job'[w].kind = "idle" /\ job'[w].id = 0)
  PROVE  Inv'
<1> DEFINE new == UpsertRow(task[r], nextId, version, removal)
<1>1. /\ task[r] \in Row /\ RowIsSound(task[r]) /\ nextId \in Nat \ {0}
      /\ task \in [Resources -> Row] /\ aggregate \in [Resources -> Aggregate]
      /\ applied \in [Resources -> Nat] /\ task[r].id < nextId
  BY RowsSound DEF Inv, TypeOK, IdsAreOld
<1>2. task[r].id \in Nat /\ task[r].version \in Nat /\ aggregate[r].version \in Nat
  BY <1>1 DEF Row, Aggregate
<1>3. task[r].id # 0 => task[r].version = aggregate[r].version /\ task[r].removal = aggregate[r].deleted
  BY DEF Inv, RowsAgree, Exists
<1>4. /\ new \in Row
      /\ new.id = IF task[r].id = 0 THEN nextId ELSE task[r].id
      /\ new.version = version
      /\ new.removal = removal
      /\ RowIsSound(new)
      /\ ~new.done
  <2>1. task[r].id # 0 => version >= task[r].version
    BY <1>2, <1>3
  <2> QED
    BY <1>1, <2>1, UpsertMakes
<1>5. /\ task' = [task EXCEPT ![r] = new]
      /\ nextId' = IF task[r].id # 0 THEN nextId ELSE nextId + 1
  BY DEF Upsert, Exists
<1> HIDE DEF new
<1>6. /\ task' \in [Resources -> Row] /\ task'[r] = new
      /\ \A q \in Resources \ {r} : KeptAsIs(task[q], task'[q])
  BY <1>1, <1>4, <1>5, RowsSound, RowResults
<1>7. nextId' \in Nat \ {0} /\ nextId' >= nextId
  BY <1>1, <1>5
<1>8. Replaced(r)
  BY <1>1, <1>2, <1>3, <1>4, <1>5, <1>6 DEF Replaced
<1> QED
  BY <1>1, <1>6, <1>7, <1>8, ReplaceStep

(* A marker removed together with the change of its aggregate.             *)
LEMMA RemoveInv ==
  ASSUME Inv, NEW r \in Resources, RemoveMarker(r),
         NEW a \in Aggregate, aggregate' = [aggregate EXCEPT ![r] = a],
         UNCHANGED <<nextId, applied, job>>
  PROVE  Inv'
<1>1. /\ nextId \in Nat \ {0} /\ task \in [Resources -> Row]
      /\ aggregate \in [Resources -> Aggregate]
      /\ applied \in [Resources -> Nat] /\ job \in [Workers -> Job]
  BY DEF Inv, TypeOK
<1>2. /\ task' \in [Resources -> Row] /\ task'[r] = NoRow
      /\ \A q \in Resources \ {r} : KeptAsIs(task[q], task'[q])
  BY <1>1, NoRowIsRow, RowsSound, RowResults DEF RemoveMarker
<1>3. /\ aggregate' \in [Resources -> Aggregate]
      /\ \A q \in Resources \ {r} : aggregate'[q] = aggregate[q]
  BY <1>1
<1>4. nextId' \in Nat \ {0} /\ nextId' >= nextId
  BY <1>1
<1>5. Replaced(r)
  BY <1>2, <1>4, RowGone
<1> QED
  BY <1>1, <1>2, <1>3, <1>4, <1>5, ReplaceStep

(* A command moves the aggregate and its marker in one transaction.        *)
LEMMA CommandInv ==
  ASSUME Inv, NEW r \in Resources, Command(r)
  PROVE  Inv'
<1>1. /\ aggregate \in [Resources -> Aggregate] /\ aggregate[r] \in Aggregate
      /\ aggregate[r].version \in Nat /\ aggregate[r].deleted \in BOOLEAN
      /\ job \in [Workers -> Job]
  BY DEF Inv, TypeOK, Aggregate
<1> DEFINE next == aggregate[r].version + 1
<1>2. next \in Nat \ {0} /\ next > aggregate[r].version
  BY <1>1
<1>3. CASE Enqueue(r)
  <2>1. /\ aggregate' \in [Resources -> Aggregate]
        /\ aggregate'[r].version = next /\ aggregate'[r].deleted = FALSE
        /\ \A q \in Resources \ {r} : aggregate'[q] = aggregate[q]
    BY <1>1, <1>2, <1>3 DEF Enqueue, Aggregate
  <2>2. Upsert(r, next, FALSE) /\ UNCHANGED <<applied, job>>
    BY <1>3 DEF Enqueue
  <2> QED
    BY <1>1, <1>2, <2>1, <2>2, UpsertInv
<1>4. CASE Requeue(r)
  <2>1. /\ aggregate' \in [Resources -> Aggregate]
        /\ aggregate'[r].version = aggregate[r].version /\ aggregate'[r].deleted = FALSE
        /\ \A q \in Resources \ {r} : aggregate'[q] = aggregate[q]
    BY <1>1, <1>4 DEF Requeue, Aggregate
  <2>2. Upsert(r, aggregate[r].version, FALSE) /\ UNCHANGED <<applied, job>>
    BY <1>4 DEF Requeue
  <2>3. aggregate[r].version \in Nat \ {0} /\ aggregate[r].deleted = FALSE
    BY <1>1, <1>4 DEF Requeue
  <2> QED
    BY <1>1, <2>1, <2>2, <2>3, UpsertInv
<1>5. CASE DeleteZone(r)
  <2>1. /\ aggregate' \in [Resources -> Aggregate]
        /\ aggregate'[r].version = next /\ aggregate'[r].deleted = TRUE
        /\ \A q \in Resources \ {r} : aggregate'[q] = aggregate[q]
    BY <1>1, <1>2, <1>5 DEF DeleteZone, Aggregate
  <2>2. Upsert(r, next, TRUE) /\ TypeOf[r] = "dns_zone" /\ UNCHANGED <<applied, job>>
    BY <1>5 DEF DeleteZone
  <2> QED
    BY <1>1, <1>2, <2>1, <2>2, UpsertInv
<1>6. CASE EditProvider(r)
  <2> DEFINE a == [aggregate[r] EXCEPT !.version = next]
  <2>1. a \in Aggregate
    BY <1>1, <1>2 DEF Aggregate
  <2>2. aggregate' = [aggregate EXCEPT ![r] = a] /\ RemoveMarker(r) /\ UNCHANGED <<nextId, applied, job>>
    BY <1>6 DEF EditProvider
  <2> HIDE DEF a
  <2> QED
    BY <2>1, <2>2, RemoveInv
<1>7. CASE Delete(r)
  <2> DEFINE a == [version |-> IF TypeOf[r] = "certificate" THEN aggregate[r].version ELSE next,
                   deleted |-> TRUE]
  <2>1. a \in Aggregate
    BY <1>1, <1>2 DEF Aggregate
  <2>2. aggregate' = [aggregate EXCEPT ![r] = a] /\ RemoveMarker(r) /\ UNCHANGED <<nextId, applied, job>>
    BY <1>7 DEF Delete
  <2> HIDE DEF a
  <2> QED
    BY <2>1, <2>2, RemoveInv
<1> QED
  BY <1>3, <1>4, <1>5, <1>6, <1>7 DEF Command

(* A repair upserts the aggregate's own version; by RowsAgree the marker it *)
(* finds missing is gone, not outdated.                                    *)
LEMMA RepairInv ==
  ASSUME Inv, NEW w \in Workers, Repair(w)
  PROVE  Inv'
<1> DEFINE r == job[w].resource
<1>1. /\ r \in Resources /\ TypeOK /\ job[w].version \in Nat \ {0}
      /\ aggregate \in [Resources -> Aggregate] /\ aggregate[r].deleted \in BOOLEAN
  <2>1. job[w] \in Job /\ job[w].version > 0
    BY DEF Inv, TypeOK, RepairsAreReal, Repair
  <2> QED
    BY <2>1 DEF Job, Inv, TypeOK, Aggregate
<1>2. /\ job' \in [Workers -> Job]
      /\ \A v \in Workers : job'[v] = job[v] \/ (job'[v].kind = "idle" /\ job'[v].id = 0)
      /\ \A v \in Workers : JobStep(v)
  BY <1>1, EndsJob DEF Repair
<1>3. CASE StillMissing(w)
  <2>1. Upsert(r, job[w].version, aggregate[r].deleted) /\ UNCHANGED <<aggregate, applied>>
    BY <1>3 DEF Repair
  <2>2. job[w].version = aggregate[r].version /\ (aggregate[r].deleted => TypeOf[r] = "dns_zone")
    BY <1>3 DEF StillMissing
  <2>3. /\ aggregate' \in [Resources -> Aggregate]
        /\ aggregate'[r].version = job[w].version /\ aggregate'[r].deleted = aggregate[r].deleted
        /\ \A q \in Resources \ {r} : aggregate'[q] = aggregate[q]
    BY <1>1, <2>1, <2>2
  <2> QED
    BY <1>1, <1>2, <2>1, <2>2, <2>3, UpsertInv
<1>4. CASE ~StillMissing(w)
  BY <1>2, <1>4, TableAlone, SilentStep DEF Repair
<1> QED
  BY <1>3, <1>4

-----------------------------------------------------------------------------
(* The invariant is inductive.                                             *)
LEMMA NextInv == Inv /\ [Next]_vars => Inv'
<1> SUFFICES ASSUME Inv, [Next]_vars PROVE Inv'
  OBVIOUS
<1>1. CASE UNCHANGED vars
  BY <1>1 DEF vars, Inv, TypeOK, IdsAreOld, RowsAgree, AttemptsFollow, AttemptFollows, Running,
              RepairsAreReal, RowsAreSound, OkMeansApplied, Exists
<1>2. ASSUME NEW r \in Resources, Command(r) \/ LeaseExpires(r) \/ BecomesDue(r) PROVE Inv'
  BY <1>2, CommandInv, ClockInv
<1>3. ASSUME NEW w \in Workers, Finish(w) PROVE Inv'
  BY <1>3, CompleteInv, FinishRemovalInv, StoreFailureInv, FailInv, KeepSettledInv, GiveWayInv, ParkInv
     DEF Finish
<1>4. ASSUME NEW w \in Workers, Maintain(w) PROVE Inv'
  BY <1>4, RecoverInv, RepairInv, ResumeStaleInv, ScanInv DEF Maintain
<1>5. ASSUME NEW w \in Workers, Abandon(w) \/ Renew(w) PROVE Inv'
  BY <1>5, AbandonInv, ClockInv
<1>6. ASSUME NEW w \in Workers, NEW r \in Resources, Claim(w, r) \/ ClaimInspection(w, r) PROVE Inv'
  BY <1>6, ClaimInv
<1> QED
  BY <1>1, <1>2, <1>3, <1>4, <1>5, <1>6 DEF Next

(* Every reachable state of the marker runtime satisfies Inv.              *)
THEOREM Invariance == Spec => []Inv
  BY InitInv, NextInv, PTL DEF Spec

(* The variables keep their types: a row has the columns of sys_sync_task, *)
(* a claim loop captures rows and versions that exist.                     *)
THEOREM TypeCorrect == Spec => []TypeOK
<1>1. Inv => TypeOK
  BY DEF Inv
<1> QED
  BY <1>1, Invariance, PTL

(* The CHECK constraints of sys_sync_task never abort a transaction of the *)
(* runtime, and no row waits while it runs or after it settled.            *)
THEOREM RowsStaySound == Spec => []RowsAreSound
<1>1. Inv => RowsAreSound
  BY DEF Inv
<1> QED
  BY <1>1, Invariance, PTL

(* A marker is at the version of its aggregate.                            *)
THEOREM MarkersMatch == Spec => []MarkerMatchesAggregate
<1>1. Inv => MarkerMatchesAggregate
  BY DEF Inv, RowsAgree, MarkerMatchesAggregate
<1> QED
  BY <1>1, Invariance, PTL

(* A result that passes the lease fence is one for the aggregate as it is, *)
(* whatever edits, deletions and recoveries happened since the claim.      *)
THEOREM FenceIsSound == Spec => []FenceImpliesCurrent
<1>1. Inv => FenceImpliesCurrent
  BY FenceIsCurrent DEF FenceImpliesCurrent
<1> QED
  BY <1>1, Invariance, PTL

(* A task shown as succeeded has its aggregate's current version stored.   *)
THEOREM SuccessIsApplied == Spec => []OkMeansApplied
<1>1. Inv => OkMeansApplied
  BY DEF Inv
<1> QED
  BY <1>1, Invariance, PTL

-----------------------------------------------------------------------------
(* The runtime implements LatestWins.                                      *)

(* The initial states are initial states of LatestWins.                    *)
LEMMA InitLatest == Init => Latest!Init
<1> SUFFICES ASSUME Init PROVE Latest!Init
  OBVIOUS
<1>1. \A r \in Resources : aggregate[r].version = 0 /\ aggregate[r].deleted = FALSE
  BY DEF Init
<1>2. [r \in Resources |-> aggregate[r].version] = [r \in Resources |-> 0]
  BY <1>1
<1>3. [r \in Resources |-> ~aggregate[r].deleted] = [r \in Resources |-> TRUE]
  BY <1>1
<1> QED
  BY <1>2, <1>3 DEF Init, Latest!Init

(* What a result stores is the version wanted now.                         *)
LEMMA StoreIsLatest ==
  ASSUME TypeOK, NEW w \in Workers, IsCurrent(w), Stored(w), aggregate' = aggregate
  PROVE  [Latest!Next]_(Latest!latestVars)
<1> DEFINE r == job[w].resource
<1>1. r \in Resources /\ applied \in [Resources -> Nat]
  BY DEF TypeOK, Job
<1>2. CASE ~Holds(w)
  BY <1>2 DEF Stored, Latest!latestVars
<1>3. CASE Holds(w)
  <2>1. applied' = [applied EXCEPT ![r] = aggregate[r].version]
    BY <1>3 DEF Stored, IsCurrent
  <2>2. ~aggregate[r].deleted \/ r \in {q \in Resources : TypeOf[q] = "dns_zone"}
    BY <1>1 DEF IsCurrent
  <2>3. Latest!Store(r)
    BY <1>1, <2>1, <2>2 DEF Latest!Store
  <2> QED
    BY <1>1, <2>3 DEF Latest!Next
<1> QED
  BY <1>2, <1>3

(* A command is a step of LatestWins that wants or closes, or none.        *)
LEMMA CommandIsLatest ==
  ASSUME TypeOK, NEW r \in Resources, Command(r)
  PROVE  [Latest!Next]_(Latest!latestVars)
<1>1. /\ aggregate \in [Resources -> Aggregate]
      /\ \A q \in Resources : aggregate[q].version \in Nat /\ aggregate[q].deleted \in BOOLEAN
  BY DEF TypeOK, Aggregate
<1> DEFINE wanted == [q \in Resources |-> aggregate[q].version]
           open == [q \in Resources |-> ~aggregate[q].deleted]
<1>2. CASE Enqueue(r) \/ EditProvider(r)
  <2>1. aggregate' = [aggregate EXCEPT ![r].version = @ + 1] /\ ~aggregate[r].deleted /\ applied' = applied
    BY <1>2 DEF Enqueue, EditProvider
  <2>2. wanted' = [wanted EXCEPT ![r] = @ + 1]
    BY <1>1, <2>1 DEF Aggregate
  <2>3. open' = open
    BY <1>1, <2>1 DEF Aggregate
  <2>4. Latest!Want(r)
    BY <2>1, <2>2, <2>3 DEF Latest!Want
  <2> QED
    BY <2>4 DEF Latest!Next
<1>3. CASE Requeue(r)
  BY <1>3 DEF Requeue, Latest!latestVars
<1>4. CASE DeleteZone(r) \/ Delete(r)
  <2>1. PICK v \in {aggregate[r].version, aggregate[r].version + 1} :
           aggregate' = [aggregate EXCEPT ![r] = [version |-> v, deleted |-> TRUE]]
    BY <1>4 DEF DeleteZone, Delete
  <2>2. ~aggregate[r].deleted /\ applied' = applied
    BY <1>4 DEF DeleteZone, Delete
  <2>3. wanted' \in {wanted, [wanted EXCEPT ![r] = @ + 1]}
    <3>1. CASE v = aggregate[r].version
      BY <1>1, <2>1, <3>1
    <3>2. CASE v = aggregate[r].version + 1
      BY <1>1, <2>1, <3>2
    <3> QED
      BY <2>1, <3>1, <3>2
  <2>4. open' = [open EXCEPT ![r] = FALSE]
    BY <1>1, <2>1
  <2>5. Latest!Close(r)
    BY <2>2, <2>3, <2>4 DEF Latest!Close
  <2> QED
    BY <2>5 DEF Latest!Next
<1> QED
  BY <1>2, <1>3, <1>4 DEF Command

(* Every step of the runtime is a step of LatestWins or a stutter.         *)
LEMMA NextLatest == Inv /\ [Next]_vars => [Latest!Next]_(Latest!latestVars)
<1> SUFFICES ASSUME Inv, [Next]_vars PROVE [Latest!Next]_(Latest!latestVars)
  OBVIOUS
<1>1. TypeOK
  BY DEF Inv
<1>2. ASSUME UNCHANGED <<aggregate, applied>> PROVE [Latest!Next]_(Latest!latestVars)
  BY <1>2 DEF Latest!latestVars
<1>3. ASSUME NEW w \in Workers, Complete(w) \/ FinishRemoval(w) \/ StoreFailure(w)
      PROVE  [Latest!Next]_(Latest!latestVars)
  BY <1>1, <1>3, StoreIsLatest DEF Complete, FinishRemoval, StoreFailure
<1>4. ASSUME NEW r \in Resources, Command(r) PROVE [Latest!Next]_(Latest!latestVars)
  BY <1>1, <1>4, CommandIsLatest
<1>5. CASE UNCHANGED vars
  BY <1>2, <1>5 DEF vars
<1>6. ASSUME NEW r \in Resources, LeaseExpires(r) \/ BecomesDue(r) PROVE UNCHANGED <<aggregate, applied>>
  BY <1>6 DEF LeaseExpires, BecomesDue
<1>7. ASSUME NEW w \in Workers,
             \/ Fail(w, TRUE) \/ Fail(w, FALSE) \/ KeepSettled(w) \/ GiveWay(w)
             \/ \E a \in Resources : \E v \in 1 .. task[a].version : Park(w, a, v)
      PROVE  UNCHANGED <<aggregate, applied>>
  BY <1>7 DEF Fail, KeepSettled, GiveWay, Park
<1>8. ASSUME NEW w \in Workers, Maintain(w) PROVE UNCHANGED <<aggregate, applied>>
  BY <1>8 DEF Maintain, RecoverExpired, Repair, ResumeStaleWaiters, ScanExpired, ScanMissing
<1>9. ASSUME NEW w \in Workers,
             Abandon(w) \/ Renew(w) \/ \E r \in Resources : Claim(w, r) \/ ClaimInspection(w, r)
      PROVE  UNCHANGED <<aggregate, applied>>
  BY <1>9 DEF Abandon, Renew, Claim, ClaimInspection
<1> QED
  BY <1>2, <1>3, <1>4, <1>5, <1>6, <1>7, <1>8, <1>9 DEF Next, Finish

(* The marker runtime, with its leases, retries, crashes, recoveries and   *)
(* repairs, stores only results for the version wanted at that moment.     *)
THEOREM RuntimeImplementsLatestWins == Spec => ImplementsLatestWins
<1> QED
  BY InitLatest, NextLatest, Invariance, PTL DEF Spec, ImplementsLatestWins, Latest!Spec

-----------------------------------------------------------------------------
(* A lost lease stays lost.                                                *)

(* A row gives w no lease it did not have.                                 *)
NoGift(old, new, w) ==
    new.owner = w /\ new.live =>
       /\ old.owner = w /\ old.live
       /\ new.id = old.id /\ new.version = old.version

(* A row without an owner gives nobody anything, a resumption neither.     *)
LEMMA ResumeNoGift ==
  ASSUME NEW table \in [Resources -> Row], NEW id, NEW version, NEW removed,
         NEW w \in Workers, NEW q \in Resources
  PROVE  NoGift(table[q], Resume(table, id, version, removed)[q], w)
<1>1. NoGift(table[q], ResumedRow(table[q]), w)
  BY DEF NoGift, ResumedRow, Row
<1>2. Resume(table, id, version, removed)[q] \in {table[q], ResumedRow(table[q])}
  BY DEF Resume
<1> QED
  BY <1>1, <1>2 DEF NoGift

(* A result gives nobody a lease.                                          *)
LEMMA ResultNoGift ==
  ASSUME TypeOK, NEW v \in Workers, NEW row \in Row, row.owner = NoOwner, NEW resumes, NEW removed,
         Result(v, row, resumes, removed), NEW w \in Workers, NEW q \in Resources
  PROVE  NoGift(task[q], task'[q], w)
<1> DEFINE written == [task EXCEPT ![job[v].resource] = row]
           resumed == Resume(written, job[v].id, job[v].version, removed)
<1>1. task' \in {task, written, resumed}
  BY DEF Result
<1>2. written \in [Resources -> Row]
  BY DEF TypeOK
<1>3. NoGift(task[q], written[q], w)
  BY DEF TypeOK, NoGift
<1> HIDE DEF written
<1>4. NoGift(written[q], resumed[q], w)
  BY <1>2, ResumeNoGift
<1> HIDE DEF resumed
<1> QED
  BY <1>1, <1>3, <1>4 DEF NoGift

(* The rows a result writes have no owner.                                 *)
LEMMA ResultsUnleased ==
  ASSUME NEW row \in Row
  PROVE  /\ CompletedRow(row).owner = NoOwner
         /\ \A t, b : FailedRow(row, t, b).owner = NoOwner
         /\ \A a, n : WaitingRow(row, a, n).owner = NoOwner
         /\ ReleasedRow(row).owner = NoOwner
         /\ InspectedRow(row).owner = NoOwner
         /\ RecoveredRow(row).owner = NoOwner
         /\ NoRow.owner = NoOwner
<1> USE DEF Unleased, Row
<1>1. CompletedRow(row).owner = NoOwner
  BY DEF CompletedRow
<1>2. ASSUME NEW t, NEW b PROVE FailedRow(row, t, b).owner = NoOwner
  BY DEF FailedRow
<1>3. ASSUME NEW a, NEW n PROVE WaitingRow(row, a, n).owner = NoOwner
  BY DEF WaitingRow
<1>4. /\ ReleasedRow(row).owner = NoOwner /\ InspectedRow(row).owner = NoOwner
      /\ RecoveredRow(row).owner = NoOwner /\ NoRow.owner = NoOwner
  BY DEF ReleasedRow, InspectedRow, RecoveredRow, NoRow
<1> QED
  BY <1>1, <1>2, <1>3, <1>4

(* Queueing a version gives nobody a lease.                                *)
LEMMA UpsertNoGift ==
  ASSUME NEW row \in Row, NEW id, NEW version \in Nat, NEW removal, NEW w \in Workers
  PROVE  NoGift(row, UpsertRow(row, id, version, removal), w)
<1>1. CASE row.id = 0
  BY <1>1 DEF UpsertRow, NewRow, NoRow, NoGift
<1>2. CASE row.id # 0
  BY <1>2 DEF UpsertRow, Requeued, NoGift, Row
<1> QED
  BY <1>1, <1>2

(* No end of an attempt gives another loop a lease.                        *)
LEMMA FinishNoGift ==
  ASSUME Inv, NEW v \in Workers, Finish(v), NEW w \in Workers, NEW q \in Resources
  PROVE  NoGift(task[q], task'[q], w)
<1> DEFINE r == job[v].resource
<1>1. TypeOK /\ r \in Resources /\ task[r] \in Row /\ RowIsSound(task[r])
  BY RowsSound DEF Inv, TypeOK, Job
<1>2. ASSUME NEW row \in Row, row.owner = NoOwner, NEW resumes, NEW removed,
             Result(v, row, resumes, removed)
      PROVE  NoGift(task[q], task'[q], w)
  BY <1>1, <1>2, ResultNoGift
<1>3. CASE Complete(v)
  BY <1>1, <1>2, <1>3, CompletedRowKept, ResultsUnleased DEF Complete, Kept
<1>4. CASE FinishRemoval(v)
  BY <1>2, <1>4, <1>1, NoRowIsRow, ResultsUnleased DEF FinishRemoval
<1>5. CASE StoreFailure(v)
  <2> DEFINE restart == TypeOf[r] = "website"
             row == FailedRow(task[r], TRUE, restart)
  <2>1. restart \in BOOLEAN
    OBVIOUS
  <2>2. Result(v, row, TRUE, FALSE)
    BY <1>5 DEF StoreFailure
  <2> HIDE DEF restart
  <2>3. row \in Row
    BY <1>1, <2>1, FailedRowKept DEF Kept
  <2>4. row.owner = NoOwner
    BY <1>1, ResultsUnleased
  <2> HIDE DEF row
  <2> QED
    BY <1>2, <2>2, <2>3, <2>4
<1>6. ASSUME NEW terminal \in BOOLEAN, Fail(v, terminal) PROVE NoGift(task[q], task'[q], w)
  <2> DEFINE restart == TypeOf[r] = "dns_zone" /\ job[v].kind = "inspect"
             row == FailedRow(task[r], terminal, restart)
  <2>1. restart \in BOOLEAN
    OBVIOUS
  <2>2. Result(v, row, terminal, FALSE)
    BY <1>6 DEF Fail
  <2> HIDE DEF restart
  <2>3. row \in Row
    BY <1>1, <2>1, FailedRowKept DEF Kept
  <2>4. row.owner = NoOwner
    BY <1>1, ResultsUnleased
  <2> HIDE DEF row
  <2> QED
    BY <1>2, <2>2, <2>3, <2>4
<1>7. CASE KeepSettled(v)
  BY <1>1, <1>2, <1>7, RowResults, ResultsUnleased DEF KeepSettled, KeptAsIs, Kept
<1>8. CASE GiveWay(v)
  <2>1. ~Holds(v)
    BY <1>8, FenceIsCurrent DEF GiveWay
  <2> QED
    BY <1>8, <2>1 DEF GiveWay, Result, NoGift
<1>9. ASSUME NEW a \in Resources, NEW n \in 1 .. task[a].version, Park(v, a, n)
      PROVE  NoGift(task[q], task'[q], w)
  <2>1. task[a].id \in Nat \ {0} /\ n \in Nat \ {0}
    BY <1>1, <1>9 DEF Park, Exists, TypeOK, Row
  <2> DEFINE row == WaitingRow(task[r], task[a].id, n)
  <2>2. row \in Row
    BY <1>1, <2>1, RowResults DEF KeptAsIs, Kept
  <2>3. row.owner = NoOwner
    BY <1>1, ResultsUnleased
  <2>4. Result(v, row, FALSE, FALSE)
    BY <1>9 DEF Park
  <2> HIDE DEF row
  <2> QED
    BY <1>2, <2>2, <2>3, <2>4
<1> QED
  BY <1>3, <1>4, <1>5, <1>6, <1>7, <1>8, <1>9 DEF Finish

(* No command gives a loop a lease.                                        *)
LEMMA CommandNoGift ==
  ASSUME Inv, NEW r \in Resources, Command(r), NEW w \in Workers, NEW q \in Resources
  PROVE  NoGift(task[q], task'[q], w)
<1>1. TypeOK /\ task[r] \in Row /\ aggregate[r].version \in Nat /\ task \in [Resources -> Row]
  BY DEF Inv, TypeOK, Aggregate
<1>2. ASSUME NEW version \in Nat, NEW removal, Upsert(r, version, removal)
      PROVE  NoGift(task[q], task'[q], w)
  <2>1. task' = [task EXCEPT ![r] = UpsertRow(task[r], nextId, version, removal)]
    BY <1>2 DEF Upsert
  <2>2. NoGift(task[r], UpsertRow(task[r], nextId, version, removal), w)
    BY <1>1, UpsertNoGift
  <2> QED
    BY <1>1, <2>1, <2>2 DEF NoGift
<1>3. ASSUME RemoveMarker(r) PROVE NoGift(task[q], task'[q], w)
  BY <1>1, <1>3 DEF RemoveMarker, NoRow, NoGift
<1>4. aggregate[r].version + 1 \in Nat
  BY <1>1
<1> QED
  BY <1>1, <1>2, <1>3, <1>4 DEF Command, Enqueue, Requeue, EditProvider, DeleteZone, Delete

(* No maintenance gives a loop a lease.                                    *)
LEMMA MaintainNoGift ==
  ASSUME Inv, NEW v \in Workers, Maintain(v), NEW w \in Workers, NEW q \in Resources
  PROVE  NoGift(task[q], task'[q], w)
<1> DEFINE r == job[v].resource
<1>1. TypeOK /\ r \in Resources /\ task[r] \in Row /\ task \in [Resources -> Row] /\ job[v].version \in Nat
  BY RowsSound DEF Inv, TypeOK, Job
<1>2. CASE task' = task
  BY <1>2 DEF NoGift
<1>3. CASE RecoverExpired(v)
  <2>1. CASE task' = [task EXCEPT ![r] = RecoveredRow(task[r])]
    BY <1>1, <2>1, ResultsUnleased DEF NoGift
  <2> QED
    BY <1>2, <1>3, <2>1 DEF RecoverExpired
<1>4. CASE Repair(v)
  <2>1. CASE Upsert(r, job[v].version, aggregate[r].deleted)
    <3>1. task' = [task EXCEPT ![r] = UpsertRow(task[r], nextId, job[v].version, aggregate[r].deleted)]
      BY <2>1 DEF Upsert
    <3>2. NoGift(task[r], UpsertRow(task[r], nextId, job[v].version, aggregate[r].deleted), w)
      BY <1>1, UpsertNoGift
    <3> QED
      BY <1>1, <3>1, <3>2 DEF NoGift
  <2> QED
    BY <1>2, <1>4, <2>1 DEF Repair
<1>5. CASE ResumeStaleWaiters(v)
  <2>1. task'[q] \in {task[q], ResumedRow(task[q])}
    BY <1>5 DEF ResumeStaleWaiters
  <2>2. NoGift(task[q], ResumedRow(task[q]), w)
    BY <1>1 DEF NoGift, ResumedRow, Row
  <2> QED
    BY <2>1, <2>2 DEF NoGift
<1> QED
  BY <1>2, <1>3, <1>4, <1>5 DEF Maintain, ScanExpired, ScanMissing

(* A running attempt without its lease does not get it back.               *)
LEMMA LostStays ==
  ASSUME Inv, Next, NEW w \in Workers, Running(w), ~Holds(w), job'[w] = job[w]
  PROVE  ~Holds(w)'
<1> DEFINE q == job[w].resource
<1>1. q \in Resources /\ TypeOK /\ task \in [Resources -> Row] /\ task[q] \in Row
  BY DEF Inv, TypeOK, Job
<1>2. ASSUME NoGift(task[q], task'[q], w) PROVE ~Holds(w)'
  BY <1>2 DEF NoGift, Holds, Fence, Running
<1>3. ASSUME NEW v \in Workers, NEW r \in Resources, Claim(v, r) \/ ClaimInspection(v, r)
      PROVE  NoGift(task[q], task'[q], w)
  <2>1. v # w
    BY <1>1, <1>3 DEF Claim, ClaimInspection, IsIdle, Running
  <2>2. task' = [task EXCEPT ![r] = Leased(task[r], v)]
    BY <1>3 DEF Claim, ClaimInspection
  <2> QED
    BY <1>1, <2>1, <2>2 DEF Leased, NoGift, Row
<1>4. ASSUME NEW v \in Workers, Renew(v) PROVE NoGift(task[q], task'[q], w)
  <2>1. v # w /\ task[job[v].resource].owner = v /\ job[v].resource \in Resources
    BY <1>1, <1>4 DEF Renew, Holds, Fence, TypeOK, Job
  <2>2. task' = [task EXCEPT ![job[v].resource] = [task[job[v].resource] EXCEPT !.live = TRUE]]
    BY <1>4 DEF Renew
  <2> QED
    BY <1>1, <2>1, <2>2 DEF NoGift, Row
<1>5. ASSUME NEW r \in Resources, LeaseExpires(r) \/ BecomesDue(r) PROVE NoGift(task[q], task'[q], w)
  BY <1>1, <1>5 DEF LeaseExpires, BecomesDue, NoGift, Row
<1>6. ASSUME NEW v \in Workers, Abandon(v) PROVE NoGift(task[q], task'[q], w)
  BY <1>6 DEF Abandon, NoGift
<1> QED
  BY <1>1, <1>2, <1>3, <1>4, <1>5, <1>6, FinishNoGift, MaintainNoGift, CommandNoGift DEF Next

(* An attempt that lost its lease (superseded, removed, expired or         *)
(* recovered) never passes the fence again, however long it still runs.    *)
THEOREM LostLeasesStayLost == Spec => LostLeaseStaysLost
<1>1. Inv /\ [Next]_vars =>
         [\A w \in Workers : Running(w) /\ ~Holds(w) /\ job'[w] = job[w] => ~Holds(w)']_vars
  BY LostStays
<1> QED
  BY <1>1, Invariance, PTL DEF Spec, LostLeaseStaysLost

-----------------------------------------------------------------------------
(* Repairs.  Only its own repair or an abort ends a loop's repair, and the *)
(* repair looks again at the row it is about to write.                     *)
LEMMA RepairEnds ==
  ASSUME Inv, Next, NEW w \in Workers, job[w].kind = "repair", job'[w].kind = "idle"
  PROVE  Repair(w) \/ task' = task
<1>0. job \in [Workers -> Job] BY DEF Inv, TypeOK
<1>1. CASE \E r \in Resources : Command(r) \/ LeaseExpires(r) \/ BecomesDue(r)
  BY <1>1 DEF Command, Enqueue, Requeue, EditProvider, DeleteZone, Delete, LeaseExpires, BecomesDue
<1>2. ASSUME NEW v \in Workers, Finish(v) PROVE FALSE
  <2>1. Running(v) /\ Become(v, Idle)
    BY <1>2 DEF Finish, Complete, FinishRemoval, StoreFailure, Fail, KeepSettled, GiveWay, Park, Running
  <2> QED BY <1>0, <2>1 DEF Running, Become
<1>3. ASSUME NEW v \in Workers, Maintain(v) PROVE Repair(w) \/ task' = task
  <2>1. CASE RecoverExpired(v) BY <1>0, <2>1 DEF RecoverExpired, Become
  <2>2. CASE Repair(v) BY <1>0, <2>2 DEF Repair, Become
  <2>3. CASE ResumeStaleWaiters(v) BY <2>3 DEF ResumeStaleWaiters
  <2>4. CASE \E r \in Resources : ScanExpired(v, r) \/ ScanMissing(v, r)
    BY <2>4 DEF ScanExpired, ScanMissing
  <2> QED BY <1>3, <2>1, <2>2, <2>3, <2>4 DEF Maintain
<1>4. ASSUME NEW v \in Workers, Abandon(v) PROVE task' = task BY <1>4 DEF Abandon
<1>5. ASSUME NEW v \in Workers, Renew(v) PROVE FALSE BY <1>5 DEF Renew
<1>6. ASSUME NEW v \in Workers, NEW r \in Resources, Claim(v, r) \/ ClaimInspection(v, r) PROVE FALSE
  BY <1>0, <1>6 DEF Claim, ClaimInspection, IsIdle, Become
<1> QED BY <1>1, <1>2, <1>3, <1>4, <1>5, <1>6 DEF Next

(* A repair never resets a marker that is at its aggregate's version, also *)
(* one that appeared after the scan.                                       *)
THEOREM RepairsOnlyCreate == Spec => RepairOnlyCreates
<1>1. Inv /\ [Next]_vars =>
        [\A w \in Workers :
           job[w].kind = "repair" /\ job'[w].kind = "idle" =>
             \A r \in Resources :
                Exists(r) /\ task[r].version = aggregate[r].version => task'[r] = task[r]]_vars
  <2> SUFFICES ASSUME Inv, Next, NEW w \in Workers, job[w].kind = "repair", job'[w].kind = "idle",
                      NEW r \in Resources, Exists(r), task[r].version = aggregate[r].version
               PROVE  task'[r] = task[r]
    OBVIOUS
  <2>0. task \in [Resources -> Row] BY DEF Inv, TypeOK
  <2>1. CASE Repair(w)
    <3>1. CASE StillMissing(w)
      <4>1. job[w].resource # r BY <3>1 DEF StillMissing
      <4> QED BY <2>0, <2>1, <3>1, <4>1 DEF Repair, Upsert
    <3>2. CASE ~StillMissing(w) BY <2>1, <3>2 DEF Repair
    <3> QED BY <3>1, <3>2
  <2> QED BY <2>1, RepairEnds
<1> QED BY <1>1, Invariance, PTL DEF Spec, RepairOnlyCreates
=============================================================================
