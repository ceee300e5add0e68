--------------------------- MODULE NotificationStream ---------------------------
(***************************************************************************)
(* How a committed change reaches the open console subscriptions of every  *)
(* web worker.  A business transaction inserts one outbox row with its     *)
(* change; the claim loops of the workers relay rows to Redis streams      *)
(* inside a transaction of their own and erase them; the notification      *)
(* reader of each worker follows the streams from a cursor and delivers to *)
(* the subscriptions of that worker only.  Redis keeps a bounded suffix of *)
(* each stream and may come back empty, a reply may be lost after its      *)
(* script ran, the commit of a claim transaction may stay uncertain, and   *)
(* workers crash.  What a subscription knows is abstracted to the set of   *)
(* committed changes its last snapshot and its wakeups account for.        *)
(***************************************************************************)
EXTENDS Naturals, Sequences, FiniteSets, FiniteSetsExt, Functions

CONSTANTS
  WebWorkers,         \* web workers: each runs one claim loop and one reader
  Events,          \* committed changes, one outbox row each
  Streams,         \* the Redis streams the readers follow
  StreamOf,        \* the stream an event is relayed to
  Oversized,       \* events bounded() reduces to a recovery of the tenant
  Guarded,         \* events enqueued behind the trace delivery guard
  MaxLen,          \* entries a trim leaves in a stream (10000)
  ClaimMax,        \* rows of one claim (32)
  BatchMax,        \* entries of one read of a stream (128)
  EarlySubscribers,\* may a subscription open before the first head capture?
  MaxResets,       \* bound: times Redis loses its data
  MaxFailures      \* bound: lost replies, failed operations and crashes

ASSUME NotificationAssumption ==
  /\ StreamOf \in [Events -> Streams]
  /\ Oversized \subseteq Events /\ Guarded \subseteq Events
  /\ MaxLen \in Nat \ {0} /\ ClaimMax \in Nat \ {0} /\ BatchMax \in Nat \ {0}
  /\ MaxResets \in Nat /\ MaxFailures \in Nat /\ EarlySubscribers \in BOOLEAN

VARIABLES
  committed,  \* the events in the order their transactions committed
  row,        \* sys_notification_outbox: the state of an event's row
  claim,      \* the claim transaction of a worker
  redis,      \* the streams, the publication fences and the generation key
  copies,     \* history: how often this Redis holds or held an event
  reader,     \* the reader of a worker
  known,      \* the events the subscriptions of a worker account for
  subscribed, \* does a worker have a subscription?
  resets, faults

noticeVars == <<committed, row, claim, redis, copies, reader, known, subscribed, resets, faults>>

NoGeneration == 0
IsCommitted(e) == \E i \in DOMAIN committed : committed[i] = e
AllCommitted == Range(committed)
Older(e, d) == \E i, j \in DOMAIN committed : i < j /\ committed[i] = e /\ committed[j] = d
OfStream(s) == {e \in AllCommitted : StreamOf[e] = s}

(***************************************************************************)
(* Redis: an entry carries its id, its event and, for an oversized event,  *)
(* the instant up to which the tenant has to recover.                      *)
(***************************************************************************)
EmptyRedis == [entries |-> [s \in Streams |-> <<>>], last |-> [s \in Streams |-> 0],
               added |-> [s \in Streams |-> 0], fence |-> {}, generation |-> NoGeneration]

NewReader == [pc |-> "generation", generation |-> NoGeneration, fetched |-> NoGeneration,
              cursor |-> [s \in Streams |-> 0], seen |-> [s \in Streams |-> 0],
              initialized |-> FALSE, interrupted |-> FALSE, recovered |-> 0,
              batch |-> [s \in Streams |-> <<>>], gap |-> [s \in Streams |-> FALSE]]

NoClaim == [pc |-> "idle", todo |-> {}, done |-> {}, failed |-> {}]

NoticeInit ==
  /\ committed = <<>>
  /\ row = [e \in Events |-> "absent"]
  /\ claim = [w \in WebWorkers |-> NoClaim]
  /\ redis = [data |-> EmptyRedis, clock |-> 0, nonce |-> 0]
  /\ copies = [e \in Events |-> 0]
  /\ reader = [w \in WebWorkers |-> NewReader]
  /\ known = [w \in WebWorkers |-> {}]
  /\ subscribed = [w \in WebWorkers |-> FALSE]
  /\ resets = 0 /\ faults = 0

MayFault == faults < MaxFailures /\ faults' = faults + 1

(***************************************************************************)
(* The outbox.  commit_and_notify inserts the row in the business          *)
(* transaction; a trace notification becomes available only when its       *)
(* producer releases it or when its guard expires.                         *)
(***************************************************************************)
Commit(e) ==
  /\ row[e] = "absent"
  /\ ~IsCommitted(e)
  /\ committed' = Append(committed, e)
  /\ row' = [row EXCEPT ![e] = IF e \in Guarded THEN "deferred" ELSE "available"]
  /\ UNCHANGED <<claim, redis, copies, reader, known, subscribed, resets, faults>>

Held(w) == claim[w].todo \cup claim[w].done \cup claim[w].failed
Locked(e) == \E w \in WebWorkers : e \in Held(w)

\* release_notification, or available_at passes: the guard, or the backoff
\* of a row whose publication failed.
BecomeAvailable(e) ==
  /\ row[e] = "deferred"
  /\ ~Locked(e)
  /\ row' = [row EXCEPT ![e] = "available"]
  /\ UNCHANGED <<committed, claim, redis, copies, reader, known, subscribed, resets, faults>>

\* deliver_batch: the oldest available rows that no other claim has locked.
ClaimBatch(w) ==
  LET free == {e \in Events : row[e] = "available" /\ ~Locked(e)}
  IN /\ claim[w].pc = "idle"
     /\ \E batch \in SUBSET free \ {{}} :
          /\ Cardinality(batch) = Min({ClaimMax, Cardinality(free)})
          /\ \A e \in batch, d \in free \ batch : Older(e, d)
          /\ claim' = [claim EXCEPT ![w] = [pc |-> "publish", todo |-> batch, done |-> {}, failed |-> {}]]
     /\ UNCHANGED <<committed, row, redis, copies, reader, known, subscribed, resets, faults>>

\* outbox::publish: one script, so the fence, the append and the trim are
\* atomic.  MAXLEN ~ removes a prefix at its own time, never below the cap.
Published(r, e) ==
  LET s == StreamOf[e]
      d == r.data
      longer == Append(d.entries[s], [id |-> r.clock + 1, event |-> e])
      Trimmed(n) ==
        [entries |-> [d.entries EXCEPT ![s] = SubSeq(longer, n + 1, Len(longer))],
         last |-> [d.last EXCEPT ![s] = r.clock + 1], added |-> [d.added EXCEPT ![s] = d.added[s] + 1],
         fence |-> d.fence \cup {e}, generation |-> d.generation]
  IN IF e \in d.fence
       THEN {r}
       ELSE {[data |-> Trimmed(n), clock |-> r.clock + 1, nonce |-> r.nonce] :
              n \in {m \in 0..Len(longer) : m = 0 \/ m + MaxLen <= Len(longer)}}

\* The rows of a claim are published oldest first.
IsNext(w, e) == e \in claim[w].todo /\ \A d \in claim[w].todo \ {e} : Older(e, d)
Finished(c, e) == [c EXCEPT !.todo = c.todo \ {e}, !.done = c.done \cup {e}]
Postponed(c, e) == [c EXCEPT !.todo = c.todo \ {e}, !.failed = c.failed \cup {e}]

Publish(w) ==
  /\ claim[w].pc = "publish"
  /\ \E e \in claim[w].todo :
       /\ IsNext(w, e)
       /\ \E r \in Published(redis, e) :
            /\ redis' = r
            /\ copies' = [copies EXCEPT ![e] = @ + (r.data.added[StreamOf[e]] - redis.data.added[StreamOf[e]])]
       /\ \/ /\ claim' = [claim EXCEPT ![w] = Finished(claim[w], e)]
             /\ UNCHANGED faults
          \/ /\ MayFault   \* the reply is lost after the script ran
             /\ claim' = [claim EXCEPT ![w] = Postponed(claim[w], e)]
  /\ UNCHANGED <<committed, row, reader, known, subscribed, resets>>

\* A participant deferred the row, or Redis refused the script.
PublishFails(w) ==
  /\ claim[w].pc = "publish"
  /\ MayFault
  /\ \E e \in claim[w].todo :
       /\ IsNext(w, e)
       /\ claim' = [claim EXCEPT ![w] = Postponed(claim[w], e)]
  /\ UNCHANGED <<committed, row, redis, copies, reader, known, subscribed, resets>>

\* What the claim transaction wrote: published rows erased, failed rows
\* deferred by their backoff.
Settled(c) == [e \in Events |-> IF e \in c.done THEN "erased"
                                ELSE IF e \in c.failed THEN "deferred" ELSE row[e]]

CommitClaim(w) ==
  /\ claim[w].pc = "publish" /\ claim[w].todo = {}
  /\ row' = Settled(claim[w])
  /\ claim' = [claim EXCEPT ![w] = [pc |-> "forget", todo |-> {}, done |-> claim[w].done, failed |-> {}]]
  /\ UNCHANGED <<committed, redis, copies, reader, known, subscribed, resets, faults>>

\* The connection dies in the commit: the transaction took effect or not,
\* and the fences stay.
CommitUncertain(w) ==
  /\ claim[w].pc = "publish" /\ claim[w].todo = {}
  /\ MayFault
  /\ row' \in {row, Settled(claim[w])}
  /\ claim' = [claim EXCEPT ![w] = NoClaim]
  /\ UNCHANGED <<committed, redis, copies, reader, known, subscribed, resets>>

\* After a known commit the fences are released; the first failure leaves
\* the rest to expire.
Forget(events) == redis' = [redis EXCEPT !.data = [redis.data EXCEPT !.fence = redis.data.fence \ events]]
ForgetFences(w) ==
  /\ claim[w].pc = "forget"
  /\ \/ Forget(claim[w].done) /\ UNCHANGED faults
     \/ MayFault /\ \E some \in SUBSET claim[w].done \ {claim[w].done} : Forget(some)
  /\ claim' = [claim EXCEPT ![w] = NoClaim]
  /\ UNCHANGED <<committed, row, copies, reader, known, subscribed, resets>>

(***************************************************************************)
(* The reader of a worker.                                                 *)
(***************************************************************************)
SetReader(w, r) == reader' = [reader EXCEPT ![w] = r]

\* The generation key: created with a fresh value when Redis has none.
FetchGeneration(w) ==
  LET d == redis.data
      g == IF d.generation = NoGeneration THEN redis.nonce + 1 ELSE d.generation
      lost == reader[w].generation # NoGeneration /\ g # reader[w].generation
      r == [reader[w] EXCEPT !.fetched = g, !.initialized = @ /\ ~lost, !.interrupted = @ \/ lost]
  IN /\ reader[w].pc = "generation"
     /\ redis' = [redis EXCEPT !.data = [d EXCEPT !.generation = g], !.nonce = IF g > redis.nonce THEN g ELSE redis.nonce]
     /\ SetReader(w, [r EXCEPT !.pc = IF ~r.initialized THEN "head"
                                      ELSE IF r.interrupted THEN "recover" ELSE "batch"])
     /\ UNCHANGED <<committed, row, claim, copies, known, subscribed, resets, faults>>

\* read_notification_batch(head): the cursors move to the newest entries.
CaptureHeads(w) ==
  /\ reader[w].pc = "head"
  /\ IF redis.data.generation # reader[w].fetched
       THEN SetReader(w, [reader[w] EXCEPT !.pc = "generation"])
       ELSE SetReader(w, [reader[w] EXCEPT
              !.cursor = redis.data.last, !.seen = redis.data.added,
              !.generation = reader[w].fetched, !.initialized = TRUE,
              !.pc = IF reader[w].interrupted THEN "recover" ELSE "batch"])
  /\ UNCHANGED <<committed, row, claim, redis, copies, known, subscribed, resets, faults>>

Told(w, events) == known' = [known EXCEPT ![w] = IF subscribed[w] THEN @ \cup events ELSE {}]

\* Every handler recovers: reusable snapshots are invalid and every
\* subscription of the worker reads the committed state again.
RecoverAll(w) ==
  /\ reader[w].pc = "recover"
  /\ Told(w, AllCommitted)
  /\ SetReader(w, [reader[w] EXCEPT !.interrupted = FALSE, !.recovered = redis.clock, !.pc = "batch"])
  /\ UNCHANGED <<committed, row, claim, redis, copies, subscribed, resets, faults>>

\* Mutant: a trimmed prefix is not a gap as long as the stream is not younger.
GapWithoutTrim(d, r, s) == d.last[s] < r.cursor[s] \/ d.added[s] < r.seen[s]

\* The script's gap test: the stream is younger than the cursor, or entries
\* the reader has not seen were trimmed.
Gap(d, r, s) ==
  \/ d.last[s] < r.cursor[s]
  \/ d.added[s] < r.seen[s]
  \/ d.added[s] - Len(d.entries[s]) > r.seen[s]

\* XRANGE after the cursor, at most BatchMax entries.
Unread(d, r, s) ==
  LET after == {i \in DOMAIN d.entries[s] : d.entries[s][i].id > r.cursor[s]}
      first == CHOOSE i \in after : \A j \in after : i <= j
      size == Len(d.entries[s])
  IN IF after = {} THEN <<>>
     ELSE SubSeq(d.entries[s], first, IF first + BatchMax <= size THEN first + BatchMax - 1 ELSE size)

ReadBatch(w) ==
  LET d == redis.data
      r == reader[w]
      gap == [s \in Streams |-> Gap(d, r, s)]
      batch == [s \in Streams |-> IF gap[s] THEN <<>> ELSE Unread(d, r, s)]
  IN /\ r.pc = "batch"
     /\ IF d.generation # r.generation
          THEN SetReader(w, [r EXCEPT !.pc = "generation", !.initialized = FALSE, !.interrupted = TRUE])
          ELSE SetReader(w, [r EXCEPT !.pc = "deliver", !.batch = batch, !.gap = gap,
                 !.cursor = [s \in Streams |-> IF gap[s] THEN d.last[s]
                                               ELSE IF batch[s] = <<>> THEN r.cursor[s] ELSE batch[s][Len(batch[s])].id],
                 !.seen = [s \in Streams |-> IF gap[s] THEN d.added[s] ELSE r.seen[s] + Len(batch[s])]])
     /\ UNCHANGED <<committed, row, claim, redis, copies, known, subscribed, resets, faults>>

\* What the delivery of one stream's entries tells the subscriptions: an
\* oversized event carries nothing but the owed recovery, which a recovery
\* of this reader since its publication already covers.
DeliveredFrom(r, s) ==
  LET entry == Range(r.batch[s])
      plain == {x.event : x \in {y \in entry : y.event \notin Oversized}}
      owed == {x \in entry : x.event \in Oversized /\ r.recovered < x.id}
  IN plain \cup (IF owed # {} THEN AllCommitted ELSE {})

\* Only the streams with a gap recover; the cursors of ReadBatch are
\* accepted after the deliveries, and a failure before leaves the reader
\* interrupted, so nothing depends on them.
Deliver(w) ==
  LET r == reader[w]
      active == \E s \in Streams : r.gap[s] \/ r.batch[s] # <<>>
  IN /\ r.pc = "deliver"
     /\ Told(w, UNION {IF r.gap[s] THEN OfStream(s) ELSE DeliveredFrom(r, s) : s \in Streams})
     /\ SetReader(w, [r EXCEPT !.batch = NewReader.batch, !.gap = NewReader.gap,
                               !.pc = IF active THEN "generation" ELSE "wait"])
     /\ UNCHANGED <<committed, row, claim, redis, copies, subscribed, resets, faults>>

\* XREAD BLOCK returns with an entry or after 15 s; its reply is not used.
WakeReader(w) ==
  /\ reader[w].pc = "wait"
  /\ SetReader(w, [reader[w] EXCEPT !.pc = "generation"])
  /\ UNCHANGED <<committed, row, claim, redis, copies, known, subscribed, resets, faults>>

\* Any Redis operation of the reader throws; it retries after one second.
ReaderFails(w) ==
  /\ MayFault
  /\ SetReader(w, [reader[w] EXCEPT !.pc = "generation", !.initialized = FALSE, !.interrupted = TRUE,
                                    !.batch = NewReader.batch, !.gap = NewReader.gap])
  /\ UNCHANGED <<committed, row, claim, redis, copies, known, subscribed, resets>>

\* A console opens its stream: it reads one snapshot of the committed state.
\* Unless EarlySubscribers, it does so after the first head capture.
Subscribe(w) ==
  /\ ~subscribed[w]
  /\ EarlySubscribers \/ reader[w].generation # NoGeneration
  /\ subscribed' = [subscribed EXCEPT ![w] = TRUE]
  /\ known' = [known EXCEPT ![w] = AllCommitted]
  /\ UNCHANGED <<committed, row, claim, redis, copies, reader, resets, faults>>

(***************************************************************************)
(* Faults of the environment.                                              *)
(***************************************************************************)
\* Redis comes back without its data; ids keep growing with time.
ResetRedis ==
  /\ resets < MaxResets
  /\ resets' = resets + 1
  /\ redis' = [redis EXCEPT !.data = EmptyRedis]
  /\ copies' = [e \in Events |-> 0]
  /\ UNCHANGED <<committed, row, claim, reader, known, subscribed, faults>>

\* A worker dies: its claim rolls back, its subscriptions are gone and its
\* reader starts over.
Crash(w) ==
  /\ MayFault
  /\ claim' = [claim EXCEPT ![w] = NoClaim]
  /\ reader' = [reader EXCEPT ![w] = NewReader]
  /\ known' = [known EXCEPT ![w] = {}]
  /\ subscribed' = [subscribed EXCEPT ![w] = FALSE]
  /\ UNCHANGED <<committed, row, redis, copies, resets>>

ClaimStep(w) == ClaimBatch(w) \/ Publish(w) \/ PublishFails(w) \/ CommitClaim(w) \/ CommitUncertain(w) \/ ForgetFences(w)
ReaderStep(w) == FetchGeneration(w) \/ CaptureHeads(w) \/ RecoverAll(w) \/ ReadBatch(w) \/ Deliver(w) \/ WakeReader(w)

NoticeNext ==
  \/ \E e \in Events : Commit(e) \/ BecomeAvailable(e)
  \/ \E w \in WebWorkers : ClaimStep(w) \/ ReaderStep(w) \/ ReaderFails(w) \/ Subscribe(w) \/ Crash(w)
  \/ ResetRedis

NoticeSpec == NoticeInit /\ [][NoticeNext]_noticeVars

\* A claim loop rescans at least every 15 s and a reader blocks at most 15 s;
\* Redis and the database answer or fail; timers fire.
FairNoticeSpec ==
  /\ NoticeSpec
  /\ \A w \in WebWorkers : WF_noticeVars(ClaimStep(w)) /\ WF_noticeVars(ReaderStep(w))
  /\ \A e \in Events : WF_noticeVars(BecomeAvailable(e))

(***************************************************************************)
(* Properties.                                                             *)
(***************************************************************************)
Entry == [id : Nat \ {0}, event : Events]
RedisData == [entries : [Streams -> Seq(Entry)], last : [Streams -> Nat], added : [Streams -> Nat],
              fence : SUBSET Events, generation : Nat]
Claim == [pc : {"idle", "publish", "forget"}, todo : SUBSET Events, done : SUBSET Events, failed : SUBSET Events]
Reader == [pc : {"generation", "head", "recover", "batch", "deliver", "wait"}, generation : Nat, fetched : Nat,
           cursor : [Streams -> Nat], seen : [Streams -> Nat], initialized : BOOLEAN, interrupted : BOOLEAN,
           recovered : Nat, batch : [Streams -> Seq(Entry)], gap : [Streams -> BOOLEAN]]
NoticeTypeOK ==
  /\ committed \in Seq(Events)
  /\ row \in [Events -> {"absent", "deferred", "available", "erased"}]
  /\ claim \in [WebWorkers -> Claim]
  /\ redis \in [data : RedisData, clock : Nat, nonce : Nat]
  /\ copies \in [Events -> Nat]
  /\ reader \in [WebWorkers -> Reader]
  /\ known \in [WebWorkers -> SUBSET Events] /\ subscribed \in [WebWorkers -> BOOLEAN]
  /\ resets \in Nat /\ faults \in Nat

\* A change the reader of w still has to account for: it is in the batch in
\* hand, ahead of the cursor, in a gap the next read detects, or the reader
\* owes a recovery.
Pending(w, e) ==
  LET r == reader[w]
      d == redis.data
      s == StreamOf[e]
  IN \/ r.interrupted \/ r.generation # d.generation
     \/ \E t \in Streams : r.gap[t] /\ StreamOf[e] = t
     \/ \E x \in Range(r.batch[s]) : x.event = e
     \/ \E x \in Range(d.entries[s]) : x.event = e /\ x.id > r.cursor[s]
     \/ Gap(d, r, s)

\* Until a subscription accounts for a committed change, its row is in the
\* outbox, or its entry is still ahead of the reader, or the reader is bound
\* to recover.
ReachesSubscribers ==
  \A w \in WebWorkers, e \in AllCommitted :
    subscribed[w] /\ e \notin known[w] => row[e] \in {"available", "deferred"} \/ Pending(w, e)

\* outbox::publish: one Redis never holds two entries of one event, however
\* often its row is claimed again after a lost reply or an uncertain commit.
PublishedOnce == \A e \in Events : copies[e] <= 1

\* A row leaves the outbox only after its event was published: erased rows
\* and their entries can only disappear with the whole Redis.
ErasedIsPublished == \A e \in Events : row[e] = "erased" /\ resets = 0 => copies[e] = 1

\* deliver_batch and the reader: no committed change is lost on the way to an
\* open subscription, through trims, lost replies, uncertain commits and a
\* Redis that came back empty; one Redis never holds two entries of one
\* event, and a row leaves the outbox only after its event was published.
NothingMissed == NoticeTypeOK /\ ReachesSubscribers /\ PublishedOnce /\ ErasedIsPublished

\* Every committed change reaches every subscription that stays open.
ChangesArrive ==
  \A w \in WebWorkers, e \in Events :
    (subscribed[w] /\ IsCommitted(e)) ~> (e \in known[w] \/ ~subscribed[w])
=============================================================================
