----------------------------- MODULE SnapshotReads -----------------------------
(***************************************************************************)
(* The live views of the console: the connections of several web workers   *)
(* follow one projection of the database.  The hub of a worker marks the   *)
(* mailboxes of its connections and invalidates their shared read before   *)
(* it wakes them; connections that read at the same time share one flight; *)
(* the workers share a Redis cache of the serialised projection, fenced by *)
(* the generation of its scope; heartbeats travel as patches replayed on   *)
(* top of a snapshot; a high-rate projection is delivered at most once per *)
(* interval.  A snapshot is abstracted to the number of committed changes  *)
(* and the number of patches it was read after.                            *)
(***************************************************************************)
EXTENDS Naturals, FiniteSets, FiniteSetsExt

CONSTANTS
  Workers, Conns,  \* web workers, and their SSE connections
  WorkerOf,        \* the worker that holds a connection
  Cacheable,       \* redis_snapshot_cache::cacheable of the projection
  Coalesced,       \* is the projection delivered through the interval gate?
  MaxChanges, MaxPatches,   \* bounds: committed changes, heartbeat patches
  MaxCloses, MaxFaults,     \* bounds: disconnections, failed reads and Redis calls
  MaxRecoveries             \* bound: recoveries of a worker's notification reader

\* The cached projections are database aggregates that no patch refreshes.
ASSUME SnapshotAssumption ==
  /\ WorkerOf \in [Conns -> Workers]
  /\ Cacheable \in BOOLEAN /\ Coalesced \in BOOLEAN
  /\ {MaxChanges, MaxPatches, MaxCloses, MaxFaults, MaxRecoveries} \subseteq Nat
  /\ Cacheable => MaxPatches = 0

VARIABLES
  db,        \* committed changes and patches
  published, \* changes whose publication invalidated the Redis scope
  delivered, \* changes and patches the hub of a worker delivered
  cache,     \* the Redis entry and the generation of its scope
  entry,     \* snapshot_reads::entry of the projection on a worker
  gate,      \* coalesced_gate of the projection on a worker
  mailbox,   \* pending_changes of a connection
  conn,      \* the stream_snapshots loop of a connection
  view,      \* what the client of a connection shows
  recovering, \* workers whose reader has invalidated Redis and not yet its hub
  used       \* budgets spent

readsVars == <<db, published, delivered, cache, entry, gate, mailbox, conn, view, recovering, used>>

None == [db |-> 0, patch |-> 0, failure |-> TRUE, none |-> TRUE]
Failed == [None EXCEPT !.none = FALSE]
Snapshot(d, p) == [db |-> d, patch |-> p, failure |-> FALSE, none |-> FALSE]
Larger(a, b) == IF a > b THEN a ELSE b

\* A deadline refresh_at_ is that of the deferral under way ("set") or of one
\* that was released since ("old"): the earlier deadline is kept.
Earlier(a, b) ==
  IF "old" \in {a, b} THEN "old" ELSE IF "set" \in {a, b} THEN "set" ELSE "none"
Aged(t) == IF t = "set" THEN "old" ELSE t

NewEntry == [version |-> 1, epoch |-> 0, loading |-> FALSE, flight |-> 0, waiters |-> {}]
EmptyMailbox == [snapshot |-> FALSE, patch |-> 0, refresh |-> "none"]
NoResult == [snapshot |-> None, version |-> 0, epoch |-> 0, sent |-> FALSE]
Closed == [pc |-> "closed", joined |-> 0, minimum |-> 0, version |-> 0, epoch |-> 0, flight |-> 0,
           generation |-> 0, value |-> None, inbox |-> NoResult, patch |-> 0, timer |-> "none"]

ReadsInit ==
  /\ db = [change |-> 0, patch |-> 0]
  /\ published = 0
  /\ delivered = [w \in Workers |-> [change |-> 0, patch |-> 0]]
  /\ cache = [value |-> None, generation |-> 0, scope |-> 0, sequence |-> 0]
  /\ entry = [w \in Workers |-> NewEntry]
  /\ gate = [w \in Workers |-> "none"]
  /\ mailbox = [c \in Conns |-> EmptyMailbox]
  /\ conn = [c \in Conns |-> Closed]
  /\ view = [c \in Conns |-> None]
  /\ recovering = {}
  /\ used = [closes |-> 0, faults |-> 0, recoveries |-> 0]

Open(c) == conn[c].pc # "closed"
OpenOn(w) == {c \in Conns : WorkerOf[c] = w /\ Open(c)}
MayFail == used.faults < MaxFaults /\ used' = [used EXCEPT !.faults = @ + 1]

(***************************************************************************)
(* The database, the publication and the delivery by a worker's hub.       *)
(***************************************************************************)
CommitChange ==
  /\ db.change < MaxChanges
  /\ db' = [db EXCEPT !.change = @ + 1]
  /\ UNCHANGED <<recovering, published, delivered, cache, entry, gate, mailbox, conn, view, used>>

CommitPatch ==
  /\ db.patch < MaxPatches
  /\ db' = [db EXCEPT !.patch = @ + 1]
  /\ UNCHANGED <<recovering, published, delivered, cache, entry, gate, mailbox, conn, view, used>>

\* snapshot_invalidate: the scope gets a generation nobody has seen.
Invalidated(k) == [k EXCEPT !.scope = k.sequence + 1, !.sequence = @ + 1]

\* outbox::publish: the scope and the stream in one script.
PublishChange ==
  /\ published < db.change
  /\ published' = published + 1
  /\ cache' = IF Cacheable THEN Invalidated(cache) ELSE cache
  /\ UNCHANGED <<recovering, db, delivered, entry, gate, mailbox, conn, view, used>>

\* snapshot_prune_scopes: the scope is the oldest of more than 4095.
EvictScope ==
  /\ Cacheable /\ cache.scope # 0
  /\ MayFail
  /\ cache' = [cache EXCEPT !.scope = 0]
  /\ UNCHANGED <<recovering, db, published, delivered, entry, gate, mailbox, conn, view>>

\* The entry expired after 15 s, or made room for another.
ExpireEntry ==
  /\ ~cache.value.none
  /\ cache' = [cache EXCEPT !.value = None]
  /\ UNCHANGED <<recovering, db, published, delivered, entry, gate, mailbox, conn, view, used>>

Marked(w, boxes) == [c \in Conns |-> IF c \in OpenOn(w) THEN [boxes[c] EXCEPT !.snapshot = TRUE] ELSE boxes[c]]

\* hub::deliver: the shared read is invalid before any connection wakes.  The
\* entry exists only while the worker has a subscriber.
HubDelivers(w) ==
  /\ entry' = [entry EXCEPT ![w].version = IF OpenOn(w) # {} THEN @ + 1 ELSE @]
  /\ mailbox' = Marked(w, mailbox)

\* publish_coalesced: at once after a quiet interval, otherwise one deferred
\* delivery that the connections release at its deadline.
PublishCoalesced(w) ==
  \/ /\ OpenOn(w) = {}
     /\ gate' = [gate EXCEPT ![w] = "none"]
     /\ UNCHANGED <<entry, mailbox>>
  \/ /\ OpenOn(w) # {} /\ gate[w] \in {"none", "quiet"}
     /\ gate' = [gate EXCEPT ![w] = "shut"]
     /\ HubDelivers(w)
  \/ /\ OpenOn(w) # {} /\ gate[w] = "shut"
     /\ gate' = [gate EXCEPT ![w] = "deferred"]
     /\ mailbox' = [c \in Conns |-> IF c \in OpenOn(w) THEN [mailbox[c] EXCEPT !.refresh = Earlier(@, "set")] ELSE mailbox[c]]
     /\ UNCHANGED entry
  \/ /\ OpenOn(w) # {} /\ gate[w] \in {"deferred", "due"}
     /\ UNCHANGED <<gate, entry, mailbox>>

DeliverChange(w) ==
  /\ delivered[w].change < published /\ w \notin recovering
  /\ delivered' = [delivered EXCEPT ![w].change = @ + 1]
  /\ IF Coalesced THEN PublishCoalesced(w) ELSE HubDelivers(w) /\ UNCHANGED gate
  /\ UNCHANGED <<recovering, db, published, cache, conn, view, used>>

\* publish_runtime, publish_origins: a patch advances the epoch of the read
\* and lands in the mailboxes, it does not invalidate the snapshot.
DeliverPatch(w) ==
  /\ delivered[w].patch < db.patch /\ w \notin recovering
  /\ delivered' = [delivered EXCEPT ![w].patch = @ + 1]
  /\ entry' = [entry EXCEPT ![w].epoch = IF OpenOn(w) # {} THEN @ + 1 ELSE @]
  /\ mailbox' = [c \in Conns |-> IF c \in OpenOn(w) THEN [mailbox[c] EXCEPT !.patch = delivered[w].patch + 1] ELSE mailbox[c]]
  /\ UNCHANGED <<recovering, db, published, cache, gate, conn, view, used>>

\* resource_subscriptions::recover: first the scope of every tenant in Redis,
\* then, when that call has returned, the hub.
RecoverScopes(w) ==
  /\ used.recoveries < MaxRecoveries /\ w \notin recovering
  /\ used' = [used EXCEPT !.recoveries = @ + 1]
  /\ recovering' = recovering \cup {w}
  /\ cache' = IF Cacheable THEN Invalidated(cache) ELSE cache
  /\ UNCHANGED <<db, published, delivered, entry, gate, mailbox, conn, view>>

RecoverHub(w) ==
  /\ w \in recovering
  /\ recovering' = recovering \ {w}
  /\ delivered' = [delivered EXCEPT ![w] = [change |-> published, patch |-> db.patch]]
  /\ HubDelivers(w)
  /\ UNCHANGED <<db, published, cache, gate, conn, view, used>>

\* The interval of a gate passes.
IntervalPasses(w) ==
  /\ gate[w] \in {"shut", "deferred"}
  /\ gate' = [gate EXCEPT ![w] = IF @ = "shut" THEN "quiet" ELSE "due"]
  /\ UNCHANGED <<recovering, db, published, delivered, cache, entry, mailbox, conn, view, used>>

(***************************************************************************)
(* A connection.                                                           *)
(***************************************************************************)
SetConn(c, r) == conn' = [conn EXCEPT ![c] = r]

\* hub::subscribe: a change deferred before the connection joined is its to
\* release as well.
FirstMailbox(w) == [EmptyMailbox EXCEPT !.refresh = IF gate[w] \in {"deferred", "due"} THEN "set" ELSE @]

OpenStream(c) ==
  LET w == WorkerOf[c]
      e == IF OpenOn(w) = {} THEN NewEntry ELSE entry[w]
  IN /\ conn[c].pc = "closed"
     /\ used.closes <= MaxCloses
     /\ entry' = [entry EXCEPT ![w] = e]
     /\ mailbox' = [mailbox EXCEPT ![c] = FirstMailbox(w)]
     /\ SetConn(c, [Closed EXCEPT !.pc = "read", !.joined = e.epoch, !.minimum = e.epoch])
     /\ view' = [view EXCEPT ![c] = None]
     /\ UNCHANGED <<recovering, db, published, delivered, cache, gate, used>>

\* ticket::cancel: the flight ends without a result.
Released(e) == [e EXCEPT !.loading = FALSE, !.waiters = {}]

\* The waiters of an ended flight receive r.
Sent(cs, ws, r) == [c \in Conns |-> IF c \in ws THEN [cs[c] EXCEPT !.inbox = r] ELSE cs[c]]

Nothing == [NoResult EXCEPT !.sent = TRUE]
HasFlight(c) == conn[c].flight # 0

\* ~subscription: gates exist only while the projection has subscribers.
GateAfter(w, others) == IF others = {} THEN "none" ELSE gate[w]

\* The client disconnects, the read budget of 30 s ends or the worker stops:
\* an own flight is cancelled, so its waiters read again.
CloseStream(c) ==
  LET w == WorkerOf[c]
      others == OpenOn(w) \ {c}
      left == IF HasFlight(c) THEN Released(entry[w]) ELSE [entry[w] EXCEPT !.waiters = @ \ {c}]
  IN /\ Open(c)
     /\ used.closes < MaxCloses
     /\ used' = [used EXCEPT !.closes = @ + 1]
     /\ entry' = [entry EXCEPT ![w] = IF others = {} THEN NewEntry ELSE left]
     /\ gate' = [gate EXCEPT ![w] = GateAfter(w, others)]
     /\ conn' = [Sent(conn, IF HasFlight(c) THEN entry[w].waiters ELSE {}, Nothing) EXCEPT ![c] = Closed]
     /\ mailbox' = [mailbox EXCEPT ![c] = EmptyMailbox]
     /\ view' = [view EXCEPT ![c] = None]
     /\ UNCHANGED <<recovering, db, published, delivered, cache>>

\* lease::read: joins the flight under way or starts one.
JoinRead(c) ==
  LET w == WorkerOf[c]
      e == entry[w]
  IN /\ conn[c].pc = "read"
     /\ entry' = [entry EXCEPT ![w].waiters = @ \cup {c}, ![w].loading = TRUE,
                               ![w].flight = IF e.loading THEN @ ELSE @ + 1]
     /\ SetConn(c, IF e.loading
          THEN [conn[c] EXCEPT !.pc = "await", !.inbox = NoResult]
          ELSE [conn[c] EXCEPT !.pc = IF Cacheable THEN "lookup" ELSE "fetch", !.inbox = NoResult,
                  !.version = e.version, !.epoch = e.epoch, !.flight = e.flight + 1, !.generation = 0])
     /\ UNCHANGED <<recovering, db, published, delivered, cache, gate, mailbox, view, used>>

\* snapshot_capacity_error: 128 flights are under way on the worker, and the
\* client is told.
JoinRefused(c) ==
  /\ conn[c].pc = "read" /\ ~entry[WorkerOf[c]].loading
  /\ MayFail
  /\ SetConn(c, [conn[c] EXCEPT !.pc = "write", !.value = Failed])
  /\ UNCHANGED <<recovering, db, published, delivered, cache, entry, gate, mailbox, view>>

\* redis_snapshot_cache::read: a missing scope gets a fresh generation; the
\* entry is used only under the generation it was stored for.
Lookup(c) ==
  LET k == IF cache.scope = 0 THEN Invalidated(cache) ELSE cache
      hit == ~k.value.none /\ k.generation = k.scope
  IN /\ conn[c].pc = "lookup"
     /\ cache' = IF hit THEN k ELSE [k EXCEPT !.value = None]
     /\ SetConn(c, IF hit THEN [conn[c] EXCEPT !.pc = "complete", !.value = k.value]
                   ELSE [conn[c] EXCEPT !.pc = "fetch", !.generation = k.scope])
     /\ UNCHANGED <<recovering, db, published, delivered, entry, gate, mailbox, view, used>>

\* Redis failed: the read falls back to the database and stores nothing.
LookupFails(c) ==
  /\ conn[c].pc = "lookup"
  /\ MayFail
  /\ SetConn(c, [conn[c] EXCEPT !.pc = "fetch"])
  /\ UNCHANGED <<recovering, db, published, delivered, cache, entry, gate, mailbox, view>>

\* The query of the projection; a business error is a failure snapshot.
Fetch(c) ==
  /\ conn[c].pc = "fetch"
  /\ \/ /\ SetConn(c, [conn[c] EXCEPT !.value = Snapshot(db.change, db.patch),
                         !.pc = IF @ = "fetch" /\ conn[c].generation # 0 THEN "store" ELSE "complete"])
        /\ UNCHANGED used
     \/ /\ MayFail
        /\ SetConn(c, [conn[c] EXCEPT !.value = Failed, !.pc = "complete"])
  /\ UNCHANGED <<recovering, db, published, delivered, cache, entry, gate, mailbox, view>>

\* redis_snapshot_cache::store: a publication overtook the query, or the scope
\* was evicted: the flight is cancelled and the connection reads again.
Store(c) ==
  LET w == WorkerOf[c]
      unchanged == cache.scope # 0 /\ cache.scope = conn[c].generation
  IN /\ conn[c].pc = "store"
     /\ IF unchanged
          THEN /\ cache' = [cache EXCEPT !.value = conn[c].value, !.generation = cache.scope]
               /\ SetConn(c, [conn[c] EXCEPT !.pc = "complete"])
               /\ UNCHANGED entry
          ELSE /\ entry' = [entry EXCEPT ![w] = Released(@)]
               /\ conn' = [Sent(conn, entry[w].waiters \ {c}, Nothing) EXCEPT
                            ![c].pc = "read", ![c].flight = 0, ![c].value = None]
               /\ UNCHANGED cache
     /\ UNCHANGED <<recovering, db, published, delivered, gate, mailbox, view, used>>

\* Redis failed, or the bytes are too many to be retained: they are delivered.
StoreFails(c) ==
  /\ conn[c].pc = "store"
  /\ MayFail
  /\ SetConn(c, [conn[c] EXCEPT !.pc = "complete"])
  /\ UNCHANGED <<recovering, db, published, delivered, cache, entry, gate, mailbox, view>>

\* ticket::finish: the result of an invalidated flight is never distributed.
Distributed(c) ==
  IF entry[WorkerOf[c]].version = conn[c].version
    THEN [NoResult EXCEPT !.sent = TRUE, !.snapshot = conn[c].value, !.version = conn[c].version, !.epoch = conn[c].epoch]
    ELSE Nothing

CompleteFlight(c) ==
  LET w == WorkerOf[c]
  IN /\ conn[c].pc = "complete"
     /\ entry' = [entry EXCEPT ![w] = Released(@)]
     /\ conn' = [Sent(conn, entry[w].waiters, Distributed(c)) EXCEPT ![c].pc = "await", ![c].flight = 0, ![c].value = None]
     /\ UNCHANGED <<recovering, db, published, delivered, cache, gate, mailbox, view, used>>

\* Mutant: a connection may use a query begun before it joined.
AnyEpoch(c, r) == ~r.snapshot.none /\ r.version = entry[WorkerOf[c]].version

\* lease::current: the result is still valid, and began after the connection
\* joined and after its read did.
Current(c, r) ==
  /\ ~r.snapshot.none
  /\ r.version = entry[WorkerOf[c]].version
  /\ r.epoch >= Larger(conn[c].joined, conn[c].minimum)

Receive(c) ==
  LET r == conn[c].inbox
  IN /\ conn[c].pc = "await" /\ r.sent
     /\ SetConn(c, IF Current(c, r) THEN [conn[c] EXCEPT !.pc = "write", !.value = r.snapshot, !.inbox = NoResult]
                   ELSE [conn[c] EXCEPT !.pc = "read", !.inbox = NoResult])
     /\ UNCHANGED <<recovering, db, published, delivered, cache, entry, gate, mailbox, view, used>>

\* stream_snapshots: the snapshot frame or a resource-error frame, then the
\* patches of the drained mailbox on top of the baseline.
Write(c) ==
  /\ conn[c].pc = "write"
  /\ view' = [view EXCEPT ![c] = IF conn[c].value.failure THEN Failed
                ELSE Snapshot(conn[c].value.db, Larger(conn[c].value.patch, conn[c].patch))]
  /\ SetConn(c, [conn[c] EXCEPT !.pc = "idle", !.value = None, !.patch = 0])
  /\ UNCHANGED <<recovering, db, published, delivered, cache, entry, gate, mailbox, used>>

\* The loop wakes and drains its mailbox.  A deadline of the mailbox replaces
\* the one the loop waits for only when it is earlier.
Drained(c, box) ==
  [conn[c] EXCEPT !.pc = IF box.snapshot THEN "read" ELSE "idle", !.minimum = entry[WorkerOf[c]].epoch,
                  !.patch = IF box.snapshot THEN box.patch ELSE 0, !.timer = Earlier(@, box.refresh)]

PatchedView(c, box) ==
  IF ~box.snapshot /\ box.patch # 0 /\ ~view[c].failure
    THEN [view EXCEPT ![c].patch = Larger(@, box.patch)] ELSE view

WakeStream(c) ==
  /\ conn[c].pc = "idle" /\ mailbox[c] # EmptyMailbox
  /\ SetConn(c, Drained(c, mailbox[c]))
  /\ view' = PatchedView(c, mailbox[c])
  /\ mailbox' = [mailbox EXCEPT ![c] = EmptyMailbox]
  /\ UNCHANGED <<recovering, db, published, delivered, cache, entry, gate, used>>

\* No signal came before the deadline: it is reset whether or not it is still
\* that of the gate.  release_coalesced: the first connection after the gate's
\* deadline delivers to all, the others keep a deadline that has passed.
Fires(c) == conn[c].timer = "old" \/ (conn[c].timer = "set" /\ gate[WorkerOf[c]] = "due")

ReleaseCoalesced(c) ==
  LET w == WorkerOf[c]
      reset == [conn[c] EXCEPT !.timer = "none", !.minimum = entry[w].epoch, !.patch = 0]
  IN /\ conn[c].pc = "idle" /\ mailbox[c] = EmptyMailbox /\ Fires(c)
     /\ \/ /\ gate[w] # "due"
           /\ SetConn(c, reset)
           /\ UNCHANGED <<entry, gate, mailbox>>
        \/ /\ gate[w] = "due"
           /\ gate' = [gate EXCEPT ![w] = "shut"]
           /\ entry' = [entry EXCEPT ![w].version = @ + 1]
           /\ conn' = [o \in Conns |-> IF o = c THEN [reset EXCEPT !.pc = "read"]
                                       ELSE IF o \in OpenOn(w) THEN [conn[o] EXCEPT !.timer = Aged(@)] ELSE conn[o]]
           /\ mailbox' = [o \in Conns |-> IF o \in OpenOn(w) \ {c}
                             THEN [mailbox[o] EXCEPT !.snapshot = TRUE, !.refresh = Aged(@)] ELSE mailbox[o]]
     /\ UNCHANGED <<recovering, db, published, delivered, cache, view, used>>

ConnStep(c) == \/ JoinRead(c) \/ Lookup(c) \/ Fetch(c) \/ Store(c) \/ CompleteFlight(c)
               \/ Receive(c) \/ Write(c) \/ WakeStream(c) \/ ReleaseCoalesced(c)

ReadsNext ==
  \/ CommitChange \/ CommitPatch \/ PublishChange \/ EvictScope \/ ExpireEntry
  \/ \E w \in Workers : DeliverChange(w) \/ DeliverPatch(w) \/ RecoverScopes(w) \/ RecoverHub(w) \/ IntervalPasses(w)
  \/ \E c \in Conns : OpenStream(c) \/ CloseStream(c) \/ ConnStep(c) \/ JoinRefused(c) \/ LookupFails(c) \/ StoreFails(c)

ReadsSpec == ReadsInit /\ [][ReadsNext]_readsVars

\* Published changes are read and delivered (NotificationStream), reads and
\* writes finish, and timers fire.
FairReadsSpec ==
  /\ ReadsSpec
  /\ WF_readsVars(PublishChange)
  /\ \A w \in Workers : WF_readsVars(DeliverChange(w)) /\ WF_readsVars(DeliverPatch(w)) /\ WF_readsVars(IntervalPasses(w))
  /\ \A c \in Conns : WF_readsVars(ConnStep(c))

(***************************************************************************)
(* Properties.                                                             *)
(***************************************************************************)
ReadsTypeOK ==
  /\ gate \in [Workers -> {"none", "quiet", "shut", "deferred", "due"}]
  /\ \A w \in Workers : entry[w].waiters \subseteq OpenOn(w)
  /\ \A w \in Workers : gate[w] # "none" => OpenOn(w) # {}
  /\ \A c \in Conns : conn[c].pc \in {"closed", "read", "lookup", "fetch", "store", "complete", "await", "write", "idle"}
  /\ cache.scope <= cache.sequence

Owed(c) == gate[WorkerOf[c]] \in {"deferred", "due"}

\* stream_snapshots with hub::deliver and ticket::finish: a connection that
\* waits with nothing in its mailbox shows every change and every patch the
\* hub of its worker delivered; no shared flight, cached snapshot, late join
\* or replayed patch leaves it behind.
ShowsDelivered ==
  \A c \in Conns :
    conn[c].pc = "idle" /\ mailbox[c] = EmptyMailbox /\ ~view[c].failure /\ ~Owed(c) =>
      /\ view[c].db >= delivered[WorkerOf[c]].change
      /\ view[c].patch >= delivered[WorkerOf[c]].patch

\* redis_snapshot_cache: what a lookup may return was read after every
\* published change, although the query runs outside of any lock.
CachedIsCurrent ==
  ~cache.value.none /\ cache.scope # 0 /\ cache.generation = cache.scope => cache.value.db >= published

\* snapshot_reads: a connection that waits for a shared flight is one of its
\* waiters and some other open connection is flying it.
NobodyStranded ==
  \A c \in Conns : conn[c].pc = "await" /\ ~conn[c].inbox.sent =>
    /\ c \in entry[WorkerOf[c]].waiters
    /\ \E o \in OpenOn(WorkerOf[c]) \ {c} : HasFlight(o) /\ conn[o].flight = entry[WorkerOf[c]].flight

Deadlines(c) == {conn[c].timer, mailbox[c].refresh}
WillRelease(c) == "set" \in Deadlines(c) /\ "old" \notin Deadlines(c)

\* A deferred delivery has a connection that will release it, as long as no
\* connection has left: the one that released the delivery before, or one
\* that joined since (publish_coalesced, drain, release_coalesced).
DeferralStaysOwned ==
  \A w \in Workers : gate[w] \in {"deferred", "due"} /\ used.closes = 0 =>
    \E c \in OpenOn(w) : WillRelease(c)

\* What the comment of publish_coalesced promises, "subscribers release at
\* the deadline": some connection that is open will, whoever left.
DeferralIsOwned ==
  \A w \in Workers : gate[w] \in {"deferred", "due"} => \E c \in OpenOn(w) : "none" # Earlier(conn[c].timer, mailbox[c].refresh)

\* Live views are fresh when they rest, and never wait for something that
\* nobody brings: stream_snapshots, snapshot_reads, redis_snapshot_cache and
\* the coalesced gate together.
SettledIsFresh == ShowsDelivered /\ CachedIsCurrent /\ NobodyStranded /\ DeferralStaysOwned

\* Every committed change is shown by every connection that stays open and
\* is not told of an error.
ChangesAreShown ==
  \A c \in Conns : \A n \in 1..MaxChanges :
    (Open(c) /\ db.change >= n) ~> (view[c].db >= n \/ ~Open(c) \/ view[c] = Failed)
=============================================================================
