---------------------------- MODULE NodeSession -----------------------------
(***************************************************************************)
(* One node's WebSocket on the service (src/service/features/node_channel: *)
(* session.h over channel_service.h), from authentication to disconnect.   *)
(*                                                                         *)
(* Two coroutines of one worker share the connection: the reader handles   *)
(* the node's messages one after the other, and a release probe becomes a  *)
(* watch that runs beside it.  Both await the desired state in Redis       *)
(* (channel_service::desired_state, with its repair and its deadline), the *)
(* persistence of a report (commit_report) and the response lane.  A       *)
(* configuration (node spec revision, release and manifest digest) is a    *)
(* number; `projection' is the agent's record in Redis.                    *)
(*                                                                         *)
(* The continuation of a completed write runs before a message that        *)
(* answers it is read: both are completions of the same worker's loop.     *)
(***************************************************************************)
EXTENDS Naturals, Sequences, FiniteSets

CONSTANTS MaxConfig,    \* bound: configurations published
          MaxMessages,  \* bound: messages the node sends
          MaxFaults,    \* bound: damage, rotation, timeouts, disconnects
          Chunks,       \* chunks of a node binary
          Kinds         \* message kinds the node sends

SessionAssumption ==
    /\ MaxConfig \in Nat \ {0} /\ MaxMessages \in Nat
    /\ MaxFaults \in Nat /\ Chunks \in Nat \ {0}
    /\ Kinds \subseteq {"objects", "probe", "logs", "binary", "cache", "apply",
                     "failed", "beat", "bad"}

Config == 1..MaxConfig
Coroutine == {"reader", "watch"}

VARIABLES
    projection,  \* [config, damaged, current]: the agent's record
    announced,   \* a projection change the hub has not published yet
    repair,      \* a repair is requested
    catalog,     \* node binary the process offers
    phase,       \* "auth", "serving", "joining", "closed"
    purpose,     \* "control" or "log"
    co,          \* the two coroutines
    woken,       \* subscriptions with a queued signal
    lane,        \* holder of the response lane
    stopped,     \* operations.request_stop, socket aborted
    known,       \* configuration the session holds as applied
    dispatched,  \* [config, id]: last desired state sent, id 0 when taken
    transfer,    \* [binary, next]: the chunked download, next 0 when none
    reports,     \* report id -> "queued", "accepted", "rejected"
    inbox,       \* messages of the node
    node,        \* [config, received]: what the node runs, last state it got
    log,         \* ghost: [frames, acked, timed, chunks, sends]
    sent, faults

vars == <<projection, announced, repair, catalog, phase, purpose, co, woken,
          lane, stopped, known, dispatched, transfer, reports, inbox, node, log,
          sent, faults>>

----------------------------------------------------------------------------

\* A coroutine: where it is, what it fetches for, and what it holds.
Resting == [pc |-> "idle", next |-> "idle", got |-> 0, asked |-> FALSE,
            config |-> 0, summary |-> 0, frame |-> "none", report |-> 0]

Fetching(c, next) == [co[c] EXCEPT !.pc = "fetch", !.next = next, !.asked = FALSE]
Writing(r, frame) == [r EXCEPT !.pc = "write", !.frame = frame]

Init ==
    /\ projection = [config |-> 1, damaged |-> FALSE, current |-> TRUE]
    /\ announced = FALSE /\ repair = FALSE /\ catalog = 1
    /\ phase = "auth" /\ purpose \in {"control", "log"}
    /\ co = [c \in Coroutine |-> Resting]
    /\ woken = {} /\ lane = "free" /\ stopped = FALSE
    /\ known \in 0..1
    /\ dispatched = [config |-> 0, id |-> 0]
    /\ transfer = [binary |-> 0, next |-> 0]
    /\ reports = <<>> /\ inbox = <<>>
    /\ node = [config |-> known, received |-> 0]
    /\ log = [probe |-> 0, state |-> 0, acked |-> {}, timed |-> <<>>,
              chunks |-> <<>>, sends |-> 0]
    /\ sent = 0 /\ faults = 0

World == <<projection, announced, repair, catalog>>
Session == <<phase, purpose, stopped, known, dispatched, transfer>>
Peer == <<inbox, node, sent>>

----------------------------------------------------------------------------
(* The rest of the system: releases, repairs, rotations, the hub.          *)

\* The outbox refreshed the projection; its notification follows.
Release ==
    /\ projection.config < MaxConfig /\ projection.current
    /\ projection' = [projection EXCEPT !.config = @ + 1, !.damaged = FALSE]
    /\ announced' = TRUE
    /\ UNCHANGED <<repair, catalog, Session, co, woken, lane, reports, Peer, log, faults>>

Damage ==
    /\ faults < MaxFaults /\ ~projection.damaged
    /\ faults' = faults + 1
    /\ projection' = [projection EXCEPT !.damaged = TRUE]
    /\ UNCHANGED <<announced, repair, catalog, Session, co, woken, lane, reports, Peer, log>>

Rotate ==
    /\ faults < MaxFaults /\ projection.current
    /\ faults' = faults + 1
    /\ projection' = [projection EXCEPT !.current = FALSE]
    /\ announced' = TRUE
    /\ UNCHANGED <<repair, catalog, Session, co, woken, lane, reports, Peer, log>>

Repaired ==
    /\ repair
    /\ repair' = FALSE
    /\ projection' = [projection EXCEPT !.damaged = FALSE]
    /\ announced' = TRUE
    /\ UNCHANGED <<catalog, Session, co, woken, lane, reports, Peer, log, faults>>

NewBinary ==
    /\ catalog < 2 /\ "binary" \in Kinds
    /\ catalog' = catalog + 1
    /\ UNCHANGED <<projection, announced, repair, Session, co, woken, lane, reports, Peer, log, faults>>

\* Subscriptions: one per fetch, and the watch's own from its first step on.
Subscriptions ==
    {<<c, "fetch">> : c \in {k \in Coroutine : co[k].pc = "fetch"}}
        \cup (IF co["watch"].pc # "idle" THEN {<<"watch", "watch">>} ELSE {})

\* desired_state_waits::deliver: every connection of the tenant is woken.
Wake ==
    /\ announced
    /\ announced' = FALSE
    /\ woken' = woken \cup Subscriptions
    /\ UNCHANGED <<projection, repair, catalog, Session, co, lane, reports, Peer, log, faults>>

\* The queue's consumer stores a report, or refuses what it says.
Persist(i, outcome) ==
    /\ reports[i] = "queued"
    /\ reports' = [reports EXCEPT ![i] = outcome]
    /\ UNCHANGED <<World, Session, co, woken, lane, Peer, log, faults>>

----------------------------------------------------------------------------
(* Failures.  A failed watch stops the operations and aborts the socket;   *)
(* a failed reader leaves its loop.  Ending joins the watch.               *)

Failed(c) ==
    IF c = "watch"
    THEN /\ co' = [co EXCEPT !["watch"] = Resting]
         /\ stopped' = TRUE
         /\ UNCHANGED phase
    ELSE /\ co' = [co EXCEPT !["reader"] = Resting]
         /\ stopped' = TRUE
         /\ phase' = IF phase = "auth" \/ purpose = "log" THEN "closed" ELSE "joining"

Unlaned(c) == IF lane = c THEN "free" ELSE lane

Abort(c) ==
    /\ Failed(c)
    /\ lane' = Unlaned(c)
    /\ woken' = {s \in woken : s[1] # c}
    /\ UNCHANGED <<World, purpose, known, dispatched, transfer, reports, node, sent, log>>

\* The peer disconnects, a command or a deadline fails, or the stop arrives
\* at something the coroutine awaits.
Interrupt(c) ==
    /\ phase \in {"auth", "serving"} \/ c = "watch"
    /\ c = "watch" => co["watch"].pc # "idle"
    /\ \/ stopped /\ UNCHANGED faults
       \/ faults < MaxFaults /\ faults' = faults + 1
    /\ Abort(c) /\ UNCHANGED inbox

\* serve_control_messages: the scope is joined before the session ends.
Join ==
    /\ phase = "joining" /\ co["watch"].pc = "idle"
    /\ phase' = "closed"
    /\ UNCHANGED <<World, purpose, stopped, known, dispatched, transfer, co, woken,
                   lane, reports, Peer, log, faults>>

----------------------------------------------------------------------------
(* channel_service.                                                        *)

\* desired_state: the identity and the payload are one Redis read.
Fetch(c) ==
    /\ co[c].pc = "fetch" /\ projection.current /\ ~projection.damaged
    /\ co' = [co EXCEPT ![c].pc = co[c].next, ![c].got = projection.config]
    /\ woken' = woken \ {<<c, "fetch">>}
    /\ UNCHANGED <<World, Session, lane, reports, Peer, log, faults>>

\* desired_state: an unreadable projection is repaired once, on the word of a
\* current agent, and awaited.
AskRepair(c) ==
    /\ co[c].pc = "fetch" /\ ~co[c].asked
    /\ projection.damaged \/ ~projection.current
    /\ IF projection.current
       THEN /\ repair' = TRUE
            /\ co' = [co EXCEPT ![c].asked = TRUE]
            /\ UNCHANGED <<projection, announced, catalog, Session, woken, lane,
                           reports, Peer, log, faults>>
       ELSE Abort(c) /\ UNCHANGED <<inbox, faults>>

\* commit_report: the identity again, then the queue.
Enqueue(c) ==
    /\ co[c].pc = "report"
    /\ IF projection.current
       THEN /\ reports' = Append(reports, "queued")
            /\ co' = [co EXCEPT ![c].pc = "confirm", ![c].report = Len(reports) + 1]
            /\ UNCHANGED <<World, Session, woken, lane, Peer, log, faults>>
       ELSE Abort(c) /\ UNCHANGED <<inbox, faults>>

Confirm(c) ==
    /\ co[c].pc = "confirm" /\ reports[co[c].report] # "queued"
    /\ IF reports[co[c].report] = "accepted"
       THEN /\ co' = [co EXCEPT ![c].pc = co[c].next]
            /\ UNCHANGED <<World, Session, woken, lane, reports, Peer, log, faults>>
       ELSE Abort(c) /\ UNCHANGED <<inbox, faults>>

----------------------------------------------------------------------------
(* The response lane and what each frame does.                             *)

TakeLane(c) ==
    /\ co[c].pc = "write" /\ lane = "free"
    /\ lane' = c
    /\ co' = [co EXCEPT ![c].pc = "writing"]
    /\ UNCHANGED <<World, Session, woken, reports, Peer, log, faults>>

\* record_dispatch: each desired state sent starts the time of one apply.
Dispatched(config) ==
    /\ dispatched' = [config |-> config, id |-> log.sends + 1]
    /\ node' = [node EXCEPT !.received = config]

Written(c) ==
    /\ co[c].pc = "writing" /\ ~stopped
    /\ lane' = Unlaned(c)
    /\ LET r == co[c]
       IN CASE r.frame = "welcome" ->
                 /\ phase' = "serving"
                 /\ co' = [co EXCEPT ![c] =
                             IF purpose = "control" /\ known # r.got
                             THEN Fetching(c, "push") ELSE Resting]
                 /\ UNCHANGED <<dispatched, node, log, woken>>
            [] r.frame = "pushed" ->
                 /\ Dispatched(r.got)
                 /\ log' = [log EXCEPT !.sends = @ + 1]
                 /\ co' = [co EXCEPT ![c] = Resting]
                 /\ UNCHANGED <<phase, woken>>
            [] r.frame = "summary" ->
                 /\ log' = [log EXCEPT !.probe = r.summary, !.state = 0]
                 /\ IF r.config = 0
                    THEN /\ co' = [co EXCEPT ![c] = Resting]
                         /\ woken' = woken \ {<<c, "watch">>}
                    ELSE /\ co' = [co EXCEPT ![c] = Writing(r, "state")]
                         /\ UNCHANGED woken
                 /\ UNCHANGED <<phase, dispatched, node>>
            [] r.frame = "state" ->
                 /\ Dispatched(r.config)
                 /\ log' = [log EXCEPT !.state = r.config, !.sends = @ + 1]
                 /\ co' = [co EXCEPT ![c] = Resting]
                 /\ woken' = woken \ {<<c, "watch">>}
                 /\ UNCHANGED phase
            [] r.frame = "ack" ->
                 /\ log' = [log EXCEPT !.acked = @ \cup {r.report}]
                 /\ co' = [co EXCEPT ![c] = Resting]
                 /\ UNCHANGED <<phase, dispatched, node, woken>>
            [] OTHER ->
                 /\ co' = [co EXCEPT ![c] = Resting]
                 /\ UNCHANGED <<phase, dispatched, node, log, woken>>
    /\ UNCHANGED <<World, purpose, stopped, known, transfer, reports, inbox, sent, faults>>

----------------------------------------------------------------------------
(* The reader.                                                             *)

\* authenticate: the credentials are checked, the node's caching ability is
\* reported and confirmed, and the session starts.
Authenticate ==
    /\ phase = "auth" /\ co["reader"].pc = "idle"
    /\ IF projection.current
       THEN /\ co' = [co EXCEPT !["reader"] = [Resting EXCEPT !.pc = "report",
                        !.next = IF purpose = "log" THEN "hello" ELSE "start"]]
            /\ UNCHANGED <<World, Session, woken, lane, reports, Peer, log, faults>>
       ELSE Abort("reader") /\ UNCHANGED <<inbox, faults>>

\* serve_control_session: the welcome tells the desired summary.
Start ==
    /\ co["reader"].pc = "start"
    /\ co' = [co EXCEPT !["reader"] = Fetching("reader", "hello")]
    /\ UNCHANGED <<World, Session, woken, lane, reports, Peer, log, faults>>

Reply(pc, frame) ==
    /\ co["reader"].pc = pc
    /\ co' = [co EXCEPT !["reader"] = Writing(@, frame)]
    /\ UNCHANGED <<World, Session, woken, lane, reports, Peer, log, faults>>

Waiting(kind) ==
    /\ phase = "serving" /\ ~stopped
    /\ co["reader"].pc = "idle"
    /\ inbox # <<>> /\ Head(inbox).kind = kind
    /\ inbox' = Tail(inbox)

Then(r) == co' = [co EXCEPT !["reader"] = r]

\* ingest_logs: queued for a current agent, then acknowledged.
HandleLogs ==
    /\ Waiting("logs")
    /\ IF projection.current
       THEN /\ Then(Writing(Resting, "logged"))
            /\ UNCHANGED <<World, Session, woken, lane, reports, node, sent, log, faults>>
       ELSE Abort("reader") /\ UNCHANGED faults

\* handle_heartbeat and cache_result: a report, then the answer.
HandleReport(kind) ==
    /\ Waiting(kind) /\ purpose = "control"
    /\ Then([Resting EXCEPT !.pc = "report", !.next = "ack"])
    /\ UNCHANGED <<World, Session, woken, lane, reports, node, sent, log, faults>>

\* handle_apply_result: the dispatch it answers times it, once.
HandleApply(kind) ==
    /\ Waiting(kind) /\ purpose = "control"
    /\ LET m == Head(inbox)
       IN  /\ IF dispatched.id # 0 /\ dispatched.config = m.config
              THEN /\ log' = [log EXCEPT !.timed = Append(@, dispatched.id)]
                   /\ dispatched' = [dispatched EXCEPT !.id = 0]
              ELSE UNCHANGED <<log, dispatched>>
           /\ Then([Resting EXCEPT !.pc = "report", !.got = m.config,
                      !.next = IF kind = "apply" THEN "applied" ELSE "ack"])
    /\ UNCHANGED <<World, phase, purpose, stopped, known, transfer, woken, lane,
                   reports, node, sent, faults>>

\* The result is stored: the session follows it and acknowledges.
Applied ==
    /\ co["reader"].pc = "applied"
    /\ known' = co["reader"].got
    /\ co' = [co EXCEPT !["reader"] = Writing(@, "ack")]
    /\ UNCHANGED <<World, phase, purpose, stopped, dispatched, transfer, woken, lane,
                   reports, Peer, log, faults>>

HandleObjects ==
    /\ Waiting("objects") /\ purpose = "control"
    /\ Then([Fetching("reader", "objects") EXCEPT !.config = Head(inbox).config])
    /\ UNCHANGED <<World, Session, woken, lane, reports, node, sent, log, faults>>

\* channel_service::objects: only objects of the release that is desired now.
ServeObjects ==
    /\ co["reader"].pc = "objects"
    /\ IF co["reader"].got = co["reader"].config /\ projection.current
            /\ projection.config = co["reader"].config /\ ~projection.damaged
       THEN /\ Then(Writing(co["reader"], "batch"))
            /\ UNCHANGED <<World, Session, woken, lane, reports, Peer, log, faults>>
       ELSE Abort("reader") /\ UNCHANGED <<inbox, faults>>

\* handle_node_release_request over transfer::next: a download keeps the
\* binary it started with, and its chunks are asked for in order.
HandleBinary ==
    /\ Waiting("binary") /\ purpose = "control"
    /\ LET m == Head(inbox)
           at == transfer.next
           binary == IF at = 0 THEN catalog ELSE transfer.binary
       IN  IF m.config # at
           THEN Abort("reader") /\ UNCHANGED faults
           ELSE /\ transfer' = [binary |-> binary, next |-> (at + 1) % Chunks]
                /\ log' = [log EXCEPT !.chunks = Append(IF at = 0 THEN <<>> ELSE @, binary)]
                /\ Then(Writing(Resting, "chunk"))
                /\ UNCHANGED <<World, phase, purpose, stopped, known, dispatched, woken,
                               lane, reports, node, sent, faults>>

\* A malformed, foreign or misplaced message ends the session.
HandleBad ==
    /\ \E kind \in Kinds :
         /\ Waiting(kind)
         /\ kind = "bad" \/ (purpose = "log" /\ kind # "logs")
    /\ Failed("reader")
    /\ UNCHANGED <<World, purpose, known, dispatched, transfer, woken, lane, reports,
                   node, sent, log, faults>>

\* A probe becomes a watch, unless one is running.
HandleProbe ==
    /\ Waiting("probe") /\ purpose = "control"
    /\ IF co["watch"].pc # "idle"
       THEN /\ Failed("reader")
            /\ UNCHANGED <<World, purpose, known, dispatched, transfer, woken, lane,
                           reports, node, sent, log, faults>>
       ELSE /\ co' = [co EXCEPT !["watch"] =
                        [Resting EXCEPT !.pc = "fetch", !.next = "compare", !.config = Head(inbox).config]]
            /\ UNCHANGED <<World, Session, woken, lane, reports, node, sent, log, faults>>

----------------------------------------------------------------------------
(* The watch: compare, wait, deliver.                                      *)

\* Mutant: the subscription starts with the wait.
CompareThenSubscribe ==
    /\ co["watch"].pc = "compare"
    /\ LET r == co["watch"]
           reported == IF r.config = 0 THEN known ELSE r.config
       IN  co' = [co EXCEPT !["watch"] =
                    IF r.got = reported
                    THEN [r EXCEPT !.pc = "wait", !.config = reported]
                    ELSE Fetching("watch", "deliver")]
    /\ woken' = woken \ {<<"watch", "watch">>}
    /\ UNCHANGED <<World, Session, lane, reports, Peer, log, faults>>

\* handle_release_probe: a known configuration is awaited, a new one sent.
Compare ==
    /\ co["watch"].pc = "compare"
    /\ LET r == co["watch"]
           reported == IF r.config = 0 THEN known ELSE r.config
       IN  co' = [co EXCEPT !["watch"] =
                    IF r.got = reported
                    THEN [r EXCEPT !.pc = "wait", !.config = reported]
                    ELSE Fetching("watch", "deliver")]
    /\ UNCHANGED <<World, Session, woken, lane, reports, Peer, log, faults>>

\* A signal: the desired state is read again.
WatchSignal ==
    /\ co["watch"].pc = "wait" /\ <<"watch", "watch">> \in woken
    /\ woken' = woken \ {<<"watch", "watch">>}
    /\ co' = [co EXCEPT !["watch"] = Fetching("watch", "compare")]
    /\ UNCHANGED <<World, Session, lane, reports, Peer, log, faults>>

\* The deadline: read once more, and answer whatever that shows.
WatchTimeout ==
    /\ co["watch"].pc = "wait"
    /\ co' = [co EXCEPT !["watch"] = Fetching("watch", "last")]
    /\ UNCHANGED <<World, Session, woken, lane, reports, Peer, log, faults>>

LastLook ==
    /\ co["watch"].pc = "last"
    /\ LET r == co["watch"]
       IN  co' = [co EXCEPT !["watch"] =
                    IF r.got = r.config
                    THEN [Writing(r, "summary") EXCEPT !.summary = r.got, !.config = 0]
                    ELSE Fetching("watch", "deliver")]
    /\ UNCHANGED <<World, Session, woken, lane, reports, Peer, log, faults>>

\* Mutant: the summary is the one that ended the wait.
DeliverTwoReads ==
    /\ co["watch"].pc = "deliver"
    /\ LET r == co["watch"]
       IN  co' = [co EXCEPT !["watch"] =
                    [Writing(r, "summary") EXCEPT !.summary = r.config + 1, !.config = r.got]]
    /\ UNCHANGED <<World, Session, woken, lane, reports, Peer, log, faults>>

\* One snapshot supplies both frames.
Deliver ==
    /\ co["watch"].pc = "deliver"
    /\ LET r == co["watch"]
       IN  co' = [co EXCEPT !["watch"] =
                    [Writing(r, "summary") EXCEPT !.summary = r.got, !.config = r.got]]
    /\ UNCHANGED <<World, Session, woken, lane, reports, Peer, log, faults>>

----------------------------------------------------------------------------
(* The node.                                                               *)

Send(kind, config) ==
    /\ sent < MaxMessages /\ phase = "serving" /\ Len(inbox) < 2
    /\ sent' = sent + 1
    /\ inbox' = Append(inbox, [kind |-> kind, config |-> config])
    /\ UNCHANGED <<World, Session, co, woken, lane, reports, log, faults>>

NodeSends ==
    \/ /\ "apply" \in Kinds /\ node.received # 0 /\ Send("apply", node.received)
       /\ node' = [config |-> node.received, received |-> 0]
    \/ /\ "failed" \in Kinds /\ node.received # 0 /\ Send("failed", node.received)
       /\ node' = [node EXCEPT !.received = 0]
    \/ \E kind \in Kinds \ {"apply", "failed", "binary"} :
         Send(kind, node.config) /\ UNCHANGED node
    \/ /\ "binary" \in Kinds
       /\ \E offset \in 0..(Chunks - 1) : Send("binary", offset)
       /\ UNCHANGED node

Step(c) ==
    Fetch(c) \/ AskRepair(c) \/ Enqueue(c) \/ Confirm(c) \/ TakeLane(c) \/ Written(c)

Reader ==
    \/ Authenticate \/ Start \/ Reply("hello", "welcome") \/ Reply("push", "pushed")
    \/ Reply("ack", "ack") \/ Applied \/ ServeObjects
    \/ HandleReport("beat") \/ HandleReport("cache") \/ HandleLogs
    \/ HandleApply("apply") \/ HandleApply("failed") \/ HandleObjects \/ HandleBinary \/ HandleBad \/ HandleProbe

Watch == Compare \/ WatchSignal \/ WatchTimeout \/ LastLook \/ Deliver

Environment ==
    \/ Release \/ Damage \/ Rotate \/ Repaired \/ NewBinary \/ Wake
    \/ \E i \in DOMAIN reports, o \in {"accepted", "rejected"} : Persist(i, o)
    \/ NodeSends

Next ==
    \/ Environment \/ Reader \/ Watch \/ Join
    \/ \E c \in Coroutine : Step(c) \/ Interrupt(c)

Spec == Init /\ [][Next]_vars

(* Every coroutine that can run runs; a queued report is confirmed one way *)
(* or the other, a requested repair and a queued signal arrive.            *)
Fairness ==
    /\ WF_vars(Reader) /\ WF_vars(Join) /\ WF_vars(Repaired) /\ WF_vars(Wake)
    /\ WF_vars(Compare \/ WatchSignal \/ LastLook \/ Deliver)
    /\ \A c \in Coroutine : WF_vars(Step(c)) /\ WF_vars(stopped /\ Interrupt(c))
    /\ \A i \in 1..(MaxMessages + 1) :
         WF_vars(i \in DOMAIN reports /\ \E o \in {"accepted", "rejected"} : Persist(i, o))

LiveSpec == Spec /\ Fairness

----------------------------------------------------------------------------
(* Properties.                                                             *)

TypeOK ==
    /\ projection \in [config: Config, damaged: BOOLEAN, current: BOOLEAN]
    /\ phase \in {"auth", "serving", "joining", "closed"}
    /\ lane \in Coroutine \cup {"free"}
    /\ woken \subseteq (Coroutine \X {"fetch", "watch"})
    /\ known \in 0..MaxConfig /\ node.config \in 0..MaxConfig
    /\ transfer.next \in 0..(Chunks - 1)
    /\ \A c \in Coroutine : co[c].pc = "confirm" => co[c].report \in DOMAIN reports
    /\ \A i \in DOMAIN reports : reports[i] \in {"queued", "accepted", "rejected"}

(* The two coroutines never write the socket at once (response_lane).      *)
OneWriter ==
    \A c \in Coroutine : co[c].pc = "writing" => lane = c

(* The summary and the desired state of one answer describe the same       *)
(* configuration, even if a newer release commits meanwhile                *)
(* (handle_release_probe).                                                 *)
FramesAgree == log.state # 0 => log.state = log.probe

(* A watch that waits with an old configuration in hand has a signal       *)
(* queued or coming: no release is missed between the read and the wait    *)
(* (subscribe before reading).                                             *)
NoMissedRelease ==
    co["watch"].pc = "wait" /\ co["watch"].got # projection.config /\ projection.current =>
        announced \/ <<"watch", "watch">> \in woken

(* What the node is told is stored has been stored (commit_report polls    *)
(* its own report's completion).                                           *)
AcknowledgedIsStored == \A i \in log.acked : reports[i] = "accepted"

(* Each dispatch times one result (take_dispatch_elapsed).                 *)
DispatchTimesOnce ==
    \A i, j \in DOMAIN log.timed : i < j => log.timed[i] < log.timed[j]

(* Every chunk of a download comes from the same binary (transfer::next).  *)
ChunksOfOneBinary ==
    \A i, j \in DOMAIN log.chunks : log.chunks[i] = log.chunks[j]

(* A session that ended has no watch left running (the scope is joined).   *)
EndedAlone == phase = "closed" => co["watch"].pc = "idle"

(* A configuration is fetched only for the agent that is current: what was *)
(* authenticated earlier authorises nothing (read_script).                 *)
FetchesForCurrent ==
    \A c \in Coroutine : co'[c].got # co[c].got /\ co'[c].pc = co[c].next
         /\ co[c].pc = "fetch" => projection.current

(* A session with a watch either answers it or ends, through damaged       *)
(* projections and their repair; a wait without news ends at its deadline, *)
(* so only news is asked for here.                                         *)
WatchAnswered ==
    (co["watch"].pc = "wait" /\ co["watch"].got # projection.config)
        ~> (co["watch"].pc \in {"idle", "write", "writing"} \/ phase = "closed")

=============================================================================
