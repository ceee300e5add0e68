---------------------------- MODULE NodePresence ----------------------------
(***************************************************************************)
(* Node presence (src/service/features/node_presence): every committed     *)
(* heartbeat arms a deadline in Redis, every worker of every process       *)
(* inspects the deadlines and announces the windows that ran out, and a    *)
(* Redis that lost its data is seeded again from the database.             *)
(*                                                                         *)
(* Time is counted in Redis clock units (the script truncates to           *)
(* milliseconds), so `now' stands for the instants after that tick and     *)
(* before the next: a heartbeat is within the window exactly while         *)
(* beat + Window > now.  Tokens are numbered by the losses before them.    *)
(* `shown' is what a console reader last read, `dirty' the nodes whose     *)
(* notification it has not followed yet; the stream that carries the       *)
(* notifications is the module NotificationStream.                         *)
(***************************************************************************)
EXTENDS Naturals, FiniteSets, Sequences

CONSTANTS WatchedNodes, Worker,
          Window,       \* online_window
          DueLimit,     \* candidates one inspection returns
          MaxTime,      \* bound: the clock
          MaxOutages,    \* bound: lost Redis data, failed commands, restarts
          MaxToggles,   \* bound: how often a node is disabled or enabled
          MaxOutbox     \* bound: committed notifications not yet removed

ASSUME PresenceAssumption ==
    /\ Window \in Nat \ {0} /\ DueLimit \in Nat \ {0}
    /\ MaxTime \in Nat \ {0} /\ MaxOutages \in Nat /\ MaxToggles \in Nat
    /\ MaxOutbox \in Nat

VARIABLES
    now,
    beat,        \* last_heartbeat_at, 0 before the first
    enabled,     \* registered and enabled
    outbox,      \* committed notifications the relay has not removed
    published,   \* replay fences in Redis
    deadlines,   \* sorted set of the armed deadlines, 0 for no member
    generation,  \* token of this Redis data set, 0 when missing
    seeded,      \* generation whose seed was completed
    workers,
    shown, dirty,
    expired,     \* windows announced as over, oldest first
    outages, toggles

presenceVars == <<now, beat, enabled, outbox, published, deadlines, generation, seeded,
          workers, shown, dirty, expired, outages, toggles>>

----------------------------------------------------------------------------

Notice == [node: WatchedNodes, seen: 0..MaxTime, at: 0..MaxTime]
Candidate == [node: WatchedNodes, deadline: 1..MaxTime]

Idle(known) == [pc |-> "idle", known |-> known, generation |-> 0, rows |-> {}]

PresenceInit ==
    /\ now = 1
    /\ beat = [n \in WatchedNodes |-> 0]
    /\ enabled = [n \in WatchedNodes |-> TRUE]
    /\ outbox = {} /\ published = {}
    /\ deadlines = [n \in WatchedNodes |-> 0]
    /\ generation = 0 /\ seeded = 0
    /\ workers = [w \in Worker |-> Idle(0)]
    /\ shown = [n \in WatchedNodes |-> FALSE]
    /\ dirty = {}
    /\ expired = [n \in WatchedNodes |-> <<>>]
    /\ outages = 0 /\ toggles = [n \in WatchedNodes |-> 0]

----------------------------------------------------------------------------
(* The rule of the node queries and the record script.                     *)

InWindow(n) == beat[n] > 0 /\ beat[n] + Window > now
Online(n) == enabled[n] /\ InWindow(n)

Recorded(d, n, deadline) ==
    IF deadline <= now \/ deadline <= d[n] THEN d ELSE [d EXCEPT ![n] = deadline]

----------------------------------------------------------------------------
(* The database and the outbox relay.                                      *)

Tick ==
    /\ now < MaxTime
    /\ now' = now + 1
    /\ UNCHANGED <<beat, enabled, outbox, published, deadlines, generation,
                   seeded, workers, shown, dirty, expired, outages, toggles>>

Heartbeat(n) ==
    /\ now > beat[n] /\ now + Window < MaxTime
    /\ Cardinality(outbox) < MaxOutbox
    /\ beat' = [beat EXCEPT ![n] = now]
    /\ outbox' = outbox \cup {[node |-> n, seen |-> now, at |-> now]}
    /\ UNCHANGED <<now, enabled, published, deadlines, generation, seeded,
                   workers, shown, dirty, expired, outages, toggles>>

SetStatus(n) ==
    /\ toggles[n] < MaxToggles /\ Cardinality(outbox) < MaxOutbox
    /\ toggles' = [toggles EXCEPT ![n] = @ + 1]
    /\ enabled' = [enabled EXCEPT ![n] = ~@]
    /\ outbox' = outbox \cup {[node |-> n, seen |-> 0, at |-> now]}
    /\ UNCHANGED <<now, beat, published, deadlines, generation, seeded,
                   workers, shown, dirty, expired, outages>>

Overdue(e) == e.seen > 0 /\ now - e.seen > Window

(* resource_relay::publish: the patch, the invalidation and the deadline   *)
(* are one script behind the replay fence.  A heartbeat older than the     *)
(* window asks every reader to recover.  The claim that published may      *)
(* still roll back, which leaves the row for another claim.                *)
Publish(e) ==
    /\ e \in outbox
    /\ IF e \in published
       THEN UNCHANGED <<published, deadlines, dirty>>
       ELSE /\ published' = published \cup {e}
            /\ deadlines' = IF e.seen = 0 THEN deadlines
                            ELSE Recorded(deadlines, e.node, e.seen + Window)
            /\ dirty' = IF Overdue(e) THEN WatchedNodes ELSE dirty \cup {e.node}
    /\ outbox' \in {outbox, outbox \ {e}}
    /\ UNCHANGED <<now, beat, enabled, generation, seeded, workers, shown,
                   expired, outages, toggles>>

\* A reader follows its notification and reads the node again.
Read(n) ==
    /\ n \in dirty
    /\ shown' = [shown EXCEPT ![n] = Online(n)]
    /\ dirty' = dirty \ {n}
    /\ UNCHANGED <<now, beat, enabled, outbox, published, deadlines, generation,
                   seeded, workers, expired, outages, toggles>>

----------------------------------------------------------------------------
(* run_worker: inspect, seed a generation it has not seen, expire.         *)

Due == {c \in Candidate : deadlines[c.node] = c.deadline /\ c.deadline < now}

DueBatches ==
    {s \in SUBSET Due :
        /\ Cardinality(s) <= DueLimit
        /\ Cardinality(s) < DueLimit => s = Due
        /\ \A c \in s, o \in Due \ s : c.deadline <= o.deadline}

Inspect(w) ==
    /\ workers[w].pc = "idle"
    /\ LET token == IF generation = 0 THEN outages + 1 ELSE generation
       IN  /\ generation' = token
           /\ \E due \in DueBatches :
                workers' = [workers EXCEPT ![w] =
                    IF token # @.known
                    THEN [@ EXCEPT !.pc = "load", !.generation = token]
                    ELSE IF due = {} THEN @
                    ELSE [@ EXCEPT !.pc = "expire", !.rows = due]]
    /\ UNCHANGED <<now, beat, enabled, outbox, published, deadlines, seeded,
                   shown, dirty, expired, outages, toggles>>

\* seed_from_database: the rows of the online nodes, as of this read.
LoadRows(w) ==
    /\ workers[w].pc = "load"
    /\ workers' = [workers EXCEPT ![w].pc = "seed",
                     ![w].rows = {[node |-> n, deadline |-> beat[n] + Window] :
                                    n \in {k \in WatchedNodes : Online(k)}}]
    /\ UNCHANGED <<now, beat, enabled, outbox, published, deadlines, generation,
                   seeded, shown, dirty, expired, outages, toggles>>

SeedRow(w, c) ==
    /\ workers[w].pc = "seed" /\ c \in workers[w].rows
    /\ IF generation # workers[w].generation
       THEN /\ workers' = [workers EXCEPT ![w] = Idle(@.known)]
            /\ UNCHANGED deadlines
       ELSE /\ deadlines' = Recorded(deadlines, c.node, c.deadline)
            /\ workers' = [workers EXCEPT ![w].rows = @ \ {c}]
    /\ UNCHANGED <<now, beat, enabled, outbox, published, generation, seeded,
                   shown, dirty, expired, outages, toggles>>

(* complete_seed: once per generation, every reader is told to recover.    *)
(* The reply may be lost, and the worker then seeds once more.             *)
CompleteSeed(w) ==
    /\ workers[w].pc = "seed" /\ workers[w].rows = {}
    /\ IF generation # workers[w].generation
       THEN /\ workers' = [workers EXCEPT ![w] = Idle(@.known)]
            /\ UNCHANGED <<seeded, dirty, outages>>
       ELSE /\ \/ /\ workers' = [workers EXCEPT ![w] = Idle(generation)]
                  /\ UNCHANGED outages
               \/ /\ outages < MaxOutages
                  /\ workers' = [workers EXCEPT ![w] = Idle(@.known)]
                  /\ outages' = outages + 1
            /\ seeded' = generation
            /\ dirty' = IF seeded = generation THEN dirty ELSE WatchedNodes
    /\ UNCHANGED <<now, beat, enabled, outbox, published, deadlines, generation,
                   shown, expired, toggles>>

\* Mutant: the score is not compared with the inspected one.
ExpireStale(w, c) ==
    /\ workers[w].pc = "expire" /\ c \in workers[w].rows
    /\ deadlines' = [deadlines EXCEPT ![c.node] = 0]
    /\ expired' = [expired EXCEPT ![c.node] = Append(@, c.deadline)]
    /\ dirty' = dirty \cup {c.node}
    /\ workers' = [workers EXCEPT ![w] =
                     IF @.rows = {c} THEN Idle(@.known)
                     ELSE [@ EXCEPT !.rows = workers[w].rows \ {c}]]
    /\ UNCHANGED <<now, beat, enabled, outbox, published, generation, seeded,
                   shown, outages, toggles>>

\* expire: only the inspected deadline, and only while it is in the past.
Expire(w, c) ==
    /\ workers[w].pc = "expire" /\ c \in workers[w].rows
    /\ IF deadlines[c.node] = c.deadline /\ c.deadline < now
       THEN /\ deadlines' = [deadlines EXCEPT ![c.node] = 0]
            /\ expired' = [expired EXCEPT ![c.node] = Append(@, c.deadline)]
            /\ dirty' = dirty \cup {c.node}
       ELSE UNCHANGED <<deadlines, expired, dirty>>
    /\ workers' = [workers EXCEPT ![w] =
                     IF @.rows = {c} THEN Idle(@.known)
                     ELSE [@ EXCEPT !.rows = workers[w].rows \ {c}]]
    /\ UNCHANGED <<now, beat, enabled, outbox, published, generation, seeded,
                   shown, outages, toggles>>

----------------------------------------------------------------------------
(* Faults.                                                                 *)

\* A command fails: the candidates stay claimable in Redis.
WorkerFails(w) ==
    /\ outages < MaxOutages /\ workers[w].pc # "idle"
    /\ outages' = outages + 1
    /\ workers' = [workers EXCEPT ![w] = Idle(@.known)]
    /\ UNCHANGED <<now, beat, enabled, outbox, published, deadlines, generation,
                   seeded, shown, dirty, expired, toggles>>

\* The process restarts: only its local generation is lost.
Restart(w) ==
    /\ outages < MaxOutages
    /\ outages' = outages + 1
    /\ workers' = [workers EXCEPT ![w] = Idle(0)]
    /\ UNCHANGED <<now, beat, enabled, outbox, published, deadlines, generation,
                   seeded, shown, dirty, expired, toggles>>

LoseRedis ==
    /\ outages < MaxOutages
    /\ outages' = outages + 1
    /\ deadlines' = [n \in WatchedNodes |-> 0]
    /\ published' = {} /\ generation' = 0 /\ seeded' = 0
    /\ UNCHANGED <<now, beat, enabled, outbox, workers, shown, dirty, expired,
                   toggles>>

Work(w) ==
    \/ Inspect(w) \/ LoadRows(w) \/ CompleteSeed(w)
    \/ \E c \in workers[w].rows : SeedRow(w, c) \/ Expire(w, c)

PresenceNext ==
    \/ Tick \/ LoseRedis
    \/ \E n \in WatchedNodes : Heartbeat(n) \/ SetStatus(n) \/ Read(n)
    \/ \E e \in outbox : Publish(e)
    \/ \E w \in Worker : Work(w) \/ WorkerFails(w) \/ Restart(w)

PresenceSpec == PresenceInit /\ [][PresenceNext]_presenceVars

(* The relay, the readers and every worker's loop keep running; a claim    *)
(* that rolls back forever is excluded by asking for the removal itself.   *)
Delivered(e) == Publish(e) /\ e \notin outbox'
PresenceFairness ==
    /\ WF_presenceVars(Tick)
    /\ \A n \in WatchedNodes : WF_presenceVars(Read(n))
    /\ \A w \in Worker : WF_presenceVars(Work(w))
    /\ \A e \in Notice : WF_presenceVars(Delivered(e))

LivePresenceSpec == PresenceSpec /\ PresenceFairness

----------------------------------------------------------------------------
(* Properties.                                                             *)

PresenceTypeOK ==
    /\ now \in 1..MaxTime /\ outages \in 0..MaxOutages
    /\ generation \in 0..(MaxOutages + 1) /\ seeded \in {0, generation}
    /\ \A n \in WatchedNodes :
         /\ beat[n] \in 0..MaxTime /\ deadlines[n] \in 0..MaxTime
         /\ enabled[n] \in BOOLEAN /\ shown[n] \in BOOLEAN
         /\ expired[n] \in Seq(1..MaxTime)
    /\ \A e \in outbox \cup published : e.seen \in {0, e.at} /\ e.at \in 1..now
    /\ \A w \in DOMAIN workers :
         /\ workers[w].pc \in {"idle", "load", "seed", "expire"}
         /\ \A c \in workers[w].rows : c.deadline \in 1..MaxTime
         /\ workers[w].pc \in {"idle", "load"} => workers[w].rows = {}
         /\ workers[w].known \in 0..(MaxOutages + 1)

InOutbox(n) == \E e \in outbox : e.node = n

(* A seed leaves out the disabled nodes, so that a node enabled again      *)
(* after it has no deadline before its next heartbeat: the promises are    *)
(* for the nodes that were not enabled again.                              *)
Steady(n) == toggles[n] <= 1

(* A console that shows a node online which is no longer heard from will   *)
(* be told: the deadline is armed, a notification is on its way, or the    *)
(* current Redis data set still has to be seeded (run_worker, expire,      *)
(* complete_seed).                                                         *)
StaleViewPending ==
    \A n \in WatchedNodes : Steady(n) /\ shown[n] /\ ~Online(n) =>
        \/ n \in dirty \/ InOutbox(n)
        \/ deadlines[n] > 0
        \/ generation = 0 \/ seeded # generation

(* Once the data set is seeded, a node that the queries call online has    *)
(* its deadline armed, at the end of its own window (seed_script and the   *)
(* heartbeat publication against node_online_predicate).                   *)
OnlineIsArmed ==
    \A n \in WatchedNodes : Steady(n) /\ Online(n) /\ seeded = generation /\ generation # 0 =>
        InOutbox(n) \/ deadlines[n] = beat[n] + Window

(* A window is announced as over at most once, and windows in order,       *)
(* whichever workers inspected it and whatever Redis lost (expire,         *)
(* presence_record).                                                       *)
WindowsEndOnce ==
    \A n \in WatchedNodes : \A i \in 1..(Len(expired[n]) - 1) :
        expired[n][i] < expired[n][i + 1]

(* An offline transition is announced only for a node that the queries do  *)
(* not call online, or whose newer heartbeat is itself still to be         *)
(* published (expire_script's comparison with the inspected score).        *)
ExpiresOffline ==
    \A n \in WatchedNodes : Steady(n) /\ expired'[n] # expired[n] => ~Online(n) \/ InOutbox(n)

(* Presence follows the heartbeats: a console that shows a silent node     *)
(* online will be told, an online node has its deadline armed, and a       *)
(* window is announced as over once, in order, and only for a node that    *)
(* is not heard from (heartbeat publication, seeding and expiry together,  *)
(* through lost Redis data and workers that stall).                        *)
PresenceFollowsHeartbeats ==
    /\ [](PresenceTypeOK /\ StaleViewPending /\ OnlineIsArmed /\ WindowsEndOnce)
    /\ [][ExpiresOffline]_presenceVars

(* A node that stays silent is eventually shown offline, through lost      *)
(* Redis data, failed commands and restarted workers (run_worker's retry). *)
OfflineIsShown ==
    \A n \in WatchedNodes : (shown[n] /\ ~InWindow(n)) ~> (~shown[n] \/ InWindow(n))

=============================================================================
