---------------------------- MODULE HttpSession ----------------------------
(***************************************************************************)
(* The sessions of one worker of the data plane: node/data/http_session.h. *)
(* A session serves one request: it reads it, answers it itself, from the  *)
(* response cache, or from an origin with failover, and closes.  All       *)
(* sessions run on the worker's loop, so a handler is one step; what       *)
(* interleaves are the completions of the operations they start, the       *)
(* timers and the worker's shutdown.  A completion that comes after its    *)
(* attempt was given up finds another attempt number and does nothing.     *)
(*                                                                         *)
(* The sessions ask the cache for one key.  ResponseCache models the cache *)
(* itself; here it is its entry and the session that holds the ticket to   *)
(* fill it.                                                                *)
(***************************************************************************)
EXTENDS Integers, Sequences, FiniteSets

CONSTANTS
    Clients,      \* sessions of accepted connections
    Refreshes,    \* sessions a stale hit may start to fill the cache again
    Origins,      \* the origins of the route, in the order the cursor takes them
    Kinds,        \* the requests clients make: how handle_request answers them
    MaxWaits,     \* polls of another fill before the waiting deadline
    MaxEntries,   \* bound: entries ever stored under the key
    MaxFills,     \* fills the cache hands out tickets for at a time
    MaxBlocks,    \* blocks a ranged answer is made of
    TimerRace     \* an expired timer's handler may run after another completion

SessionAssumption ==
    /\ Clients \cap Refreshes = {}
    /\ Kinds \subseteq {"none", "bypass", "cache", "updating", "range"}
    /\ Origins \in Seq({"a", "b", "c"})
    /\ MaxWaits \in Nat \ {0} /\ MaxEntries \in Nat \ {0} /\ MaxBlocks \in Nat \ {0} /\ MaxFills \in Nat
    /\ TimerRace \in BOOLEAN

Sessions == Clients \cup Refreshes
Nobody == "nobody"
Lapsed == "lapsed"     \* no session of this worker: a session of another worker, or
                       \* nobody, until the lease ends
Ages == {"none", "fresh", "stale", "spent"}   \* of the entry; "none": there is no entry
NoTimer == [attempt |-> 0, action |-> "none"]

Actions == {"none", "poll", "close", "failover"}
Replies == {"none", "edge", "cached", "ok", "unavailable", "gateway", "unmodified"}
ClientWrites == {"continue", "relay", "reply", "cached"}
Ops == ClientWrites \cup {"read", "send", "head", "body", "tunnel_client", "tunnel_origin"}
OpOf(o, n) == [op |-> o, attempt |-> n]

VARIABLES
    ses,     \* ses[s]: the members of session s
    cache    \* [entry, filling]: the entry of the resource, and who fills it or
             \* the block a ranged request asks for

vars == <<ses, cache>>

Session == [
    state    : {"idle", "open", "closed", "gone"},
    pending  : BOOLEAN,                  \* response_pending_
    attempt  : Nat,                      \* origin_attempt_
    ops      : SUBSET [op : Ops, attempt : Nat],
    timer    : [attempt : Nat, action : Actions],
    expired  : SUBSET [attempt : Nat, action : Actions],
    todo     : Seq({"a", "b", "c"}),      \* origins_
    continued : BOOLEAN,                 \* continue_sent_
    mode     : {"none", "bypass", "cache", "updating", "range"},
    blocks   : Nat,                      \* blocks of the range still to fetch
    started  : BOOLEAN,                  \* origin_ranges_->head_started_
    partial  : BOOLEAN,                  \* partial_codec_: a block from the cache
    ticket   : {"none", "whole", "block"},  \* cache_ticket_
    fill     : BOOLEAN,                  \* cache_fill_
    reval    : 0..MaxEntries,            \* revalidation_response_
    spent    : BOOLEAN,                  \* the time that one may be served stale is over
    waits    : Nat,                      \* cache_waits_
    head     : BOOLEAN,                  \* the codec has a status
    complete : BOOLEAN,                  \* the codec has the whole response
    tunnel   : BOOLEAN,
    stream   : BOOLEAN,                  \* access_log_.streaming()
    status   : Replies,                  \* access_log_.response_status_
    sent     : Seq(Replies),             \* final heads handed to the client
    interim  : BOOLEAN,                  \* an informational head followed a final one
    logged   : Replies,                  \* what access_log_ recorded
    promise  : {"none", "waiting", "stored", "failed"}]  \* prewarm_completion_

NewSession == [state |-> "idle", pending |-> FALSE, attempt |-> 0, ops |-> {},
    timer |-> NoTimer, expired |-> {}, todo |-> <<>>, continued |-> FALSE,
    mode |-> "none", blocks |-> 0, started |-> FALSE, partial |-> FALSE, ticket |-> "none", fill |-> FALSE, reval |-> 0, spent |-> FALSE, waits |-> 0,
    head |-> FALSE, complete |-> FALSE, tunnel |-> FALSE, stream |-> FALSE,
    status |-> "none", sent |-> <<>>, interim |-> FALSE, logged |-> "none", promise |-> "none"]

Init ==
    /\ ses = [s \in Sessions |-> NewSession]
    /\ \E id \in 0..1, holder \in {Nobody, Lapsed} :     \* what earlier requests left
          cache = [entry |-> [id |-> id, age |-> IF id = 0 THEN "none" ELSE "stale"],
                   filling |-> [k \in {"whole", "block"} |->
                                  IF k = "whole" THEN holder ELSE Nobody]]

----------------------------------------------------------------------------
(* A handler works on one session and the cache: w = [me, r, c, spawn].    *)

World(s) == [me |-> s, r |-> ses[s], c |-> cache, spawn |-> FALSE]
Put(w) ==
    /\ cache' = w.c
    /\ ses' = [t \in Sessions |->
                 IF t = w.me THEN w.r
                 ELSE IF w.spawn /\ t \in Refreshes /\ ses[t].state = "idle"
                         /\ t = CHOOSE q \in Refreshes : ses[q].state = "idle"
                      THEN [ses[t] EXCEPT !.state = "open", !.promise = "waiting",
                                          !.ops = {OpOf("read", 0)}]
                      ELSE ses[t]]

Prewarm(w) == w.me \in Refreshes
AnyAttempt(r, n) == r.state = "open" /\ ~r.pending
Current(r, n) == r.state = "open" /\ ~r.pending /\ n = r.attempt
Started(w, op) == [w EXCEPT !.r.ops = @ \cup {OpOf(op, w.r.attempt)}]
Finished(w, o) == [w EXCEPT !.r.ops = @ \ {o}]
Armed(w, action) ==
    [w EXCEPT !.r.timer = [attempt |-> w.r.attempt, action |-> action]]
Unarmed(w) == [w EXCEPT !.r.timer = NoTimer]

(* access_log_capture::record: at most once; a stream keeps its status.    *)
Recorded(w, status) ==
    IF w.r.logged # "none" THEN w
    ELSE [w EXCEPT !.r.logged =
             IF w.r.stream /\ w.r.status # "none" THEN w.r.status ELSE status]

(* cache_->abandon is a no-op for a ticket whose lease another holder took. *)
Owns(w) == w.r.ticket # "none" /\ w.c.filling[w.r.ticket] = w.me
Abandoned(w) ==
    [w EXCEPT !.r.ticket = "none",
              !.c.filling = IF Owns(w) THEN [@ EXCEPT ![w.r.ticket] = Nobody] ELSE @]
StopFill(w) == [Abandoned(w) EXCEPT !.r.fill = FALSE]

Closed(w) ==
    IF w.r.state # "open" THEN w
    ELSE [Unarmed(StopFill(w)) EXCEPT
             !.r.state = "closed", !.r.attempt = @ + 1,
             !.r.promise = IF @ = "waiting" THEN "failed" ELSE @]

(* send and reply: a whole response, or the end of a prewarm.              *)
Send(w, status) ==
    IF w.r.state # "open" \/ w.r.pending THEN w
    ELSE IF Prewarm(w) THEN
        Closed([w EXCEPT !.r.promise =
                   IF @ # "waiting" THEN @
                   ELSE IF status = "cached" THEN "stored" ELSE "failed"])
    ELSE Started([Unarmed(w) EXCEPT !.r.pending = TRUE,
                                    !.r.sent = Append(@, status)], "reply")

(* send_cached: a file that cannot be opened is answered by the edge, which *)
(* is the same from here on.                                               *)
SendCached(w) ==
    IF Prewarm(w) THEN Send(w, "cached")
    ELSE Started([Unarmed(w) EXCEPT !.r.pending = TRUE,
                                    !.r.sent = Append(@, "cached")], "cached")

(* try_stale: the response the request wanted to revalidate may still be   *)
(* served stale (usable_stale) and is the entry (current).                 *)
Present(w) == w.c.entry.age # "none"
StaleUsable(w) ==
    /\ ~Prewarm(w) /\ w.r.reval # 0 /\ ~w.r.spent
    /\ Present(w) /\ w.c.entry.id = w.r.reval
TryStale(w) == SendCached(Unarmed(StopFill(w)))

(* prepare_range_cache: the ticket of the block, if nobody has it.         *)
Room(w) == Cardinality({k \in {"whole", "block"} : w.c.filling[k] # Nobody}) < MaxFills
PrepareBlock(w, cached) ==
    IF cached \/ w.c.filling["block"] # Nobody \/ ~Room(w) THEN w
    ELSE [w EXCEPT !.r.ticket = "block", !.c.filling["block"] = w.me]

(* start_origin_attempt: a block the cache holds needs no exchange; its    *)
(* head is taken at once.                                                  *)
StartAttempt(w, cached) ==
    LET n == [w EXCEPT !.r.head = cached, !.r.complete = FALSE, !.r.partial = cached]
    IN IF ~cached THEN Started(Armed(n, "failover"), "send")
       ELSE Started(Armed([n EXCEPT
                !.r.status = "ok", !.r.started = TRUE,
                !.r.sent = IF w.r.started THEN @ ELSE Append(@, "ok")], "close"), "relay")

TryNext(w, cached) ==
    LET n == [Unarmed(w) EXCEPT !.r.attempt = @ + 1, !.r.fill = FALSE,
                                !.r.partial = FALSE,
                                !.r.todo = IF @ = <<>> THEN @ ELSE Tail(@)]
    IN IF w.r.todo # <<>> THEN StartAttempt(n, cached)
       ELSE IF StaleUsable(n) THEN TryStale(n)
       ELSE Send(n, "edge")

OriginFailed(w) == IF w.r.started THEN Closed(w) ELSE TryNext(w, FALSE)

(* select_origin_candidates and proxy                                      *)
Proxy(w, cached) == TryNext([w EXCEPT !.r.todo = Origins], cached)

----------------------------------------------------------------------------
(* handle_request and try_cache                                            *)

Fresh(w) == w.c.entry.age = "fresh"
MayFill(w) == w.c.filling["whole"] = Nobody /\ ~Fresh(w) /\ Room(w)
Ticketed(w) == [w EXCEPT !.r.ticket = "whole", !.c.filling["whole"] = w.me]
IdleRefresh == \E q \in Refreshes : ses[q].state = "idle"

(* try_cache (filling): the next poll, until the waiting deadline.         *)
WaitForever(n) == Armed(n, "poll")
WaitForFill(n) ==
    IF n.r.waits = MaxWaits
    THEN IF StaleUsable(n) THEN TryStale(n) ELSE Send(n, "edge")
    ELSE [Armed(n, "poll") EXCEPT !.r.waits = @ + 1]

(* try_cache: a fresh entry answers; where the rule allows it an expired   *)
(* one answers too while it is filled again, by another session or by a    *)
(* refresh this one starts; a request that would fill next to another one  *)
(* polls; otherwise the origin answers, and fills the cache if this        *)
(* session has the ticket.                                                 *)
TryCache(w) ==
    LET e == w.c.entry
        n == [w EXCEPT !.r.reval = IF Present(w) THEN e.id ELSE 0, !.r.spent = (e.age = "spent")]
        updating == e.age = "stale" /\ w.r.mode = "updating" /\ ~Prewarm(w)
        filling == w.c.filling["whole"] # Nobody
    IN CASE Fresh(w) -> SendCached(w)
         [] ~Fresh(w) /\ updating /\ filling -> SendCached(w)
         [] ~Fresh(w) /\ updating /\ MayFill(w) /\ IdleRefresh ->
              SendCached([w EXCEPT !.spawn = TRUE])
         [] ~filling /\ MayFill(w) /\ ~(updating /\ IdleRefresh) ->
              Proxy(Ticketed(n), FALSE)
         [] ~filling /\ ~Fresh(w) /\ ~MayFill(w) -> Proxy(n, FALSE)   \* cache_busy
         [] OTHER -> WaitForFill(n)

(* The answers the edge gives without a cache or an origin: no published   *)
(* configuration, a bad Host header, a redirect, a misdirected name, a     *)
(* request the security rules refuse, no origin.                           *)
EdgeAnswer(w) == Send(w, "edge")

HandleRequest(w, kind, cached) ==
    LET n == [w EXCEPT !.r.mode = kind]
    IN CASE kind = "none" -> EdgeAnswer(n)
         [] kind = "bypass" -> Proxy(n, FALSE)
         [] kind \in {"cache", "updating"} -> TryCache(n)
         [] kind = "range" ->
              IF Fresh(w) THEN SendCached(n)
              ELSE Proxy(PrepareBlock([n EXCEPT !.r.blocks = MaxBlocks], cached), cached)

----------------------------------------------------------------------------
(* The request *)

Accept(s) ==
    /\ s \in Clients /\ ses[s].state = "idle"
    /\ Put(Started([World(s) EXCEPT !.r.state = "open"], "read"))

(* read_completed and consume: the read fails, more of the request is      *)
(* needed, it is refused (malformed, too large, no memory for it), or it   *)
(* is complete.                                                            *)
ReadCompleted(s) ==
    LET o == OpOf("read", 0)  w == Finished(World(s), o)
    IN /\ o \in ses[s].ops
       /\ \/ (ses[s].state # "open" \/ ses[s].pending) /\ Put(w)
          \/ /\ ses[s].state = "open" /\ ~ses[s].pending
             /\ \/ Put(Closed(w))
                \/ /\ s \in Clients /\ ~ses[s].continued
                   /\ Put(Started([w EXCEPT !.r.continued = TRUE], "continue"))
                \/ Put(Started(w, "read"))
                \/ Put(EdgeAnswer(w))
                \/ \E kind \in Kinds, cached \in BOOLEAN :
                      /\ kind = "range" => s \in Clients
                      /\ kind # "range" => ~cached
                      /\ Put(HandleRequest(w, kind, cached))

ContinueWritten(s) ==
    LET o == OpOf("continue", 0)  w == Finished(World(s), o)
    IN /\ o \in ses[s].ops
       /\ \/ Put(Closed(w))
          \/ Put(IF ses[s].state = "open" THEN Started(w, "read") ELSE w)

----------------------------------------------------------------------------
(* The origin *)

SendDone(s) ==
    \E o \in ses[s].ops : o.op = "send" /\
      LET w == Finished(World(s), o)
      IN IF ~Current(ses[s], o.attempt) THEN Put(w)
         ELSE \/ Put(OriginFailed(w))
              \/ Put(Started(Armed(w, "failover"), "head"))

(* commit_cache: a response that was captured to its end becomes the entry *)
(* unless the configuration changed meanwhile or the cache refuses it.  An *)
(* exception leaves the ticket to its lease.                               *)
Committed(w, result) ==
    CASE ~w.r.fill \/ result = "refused" -> StopFill(w)
      [] w.r.fill /\ result = "threw" ->
           [w EXCEPT !.r.fill = FALSE, !.r.ticket = "none",
                     !.c.filling = IF Owns(w) THEN [@ EXCEPT ![w.r.ticket] = Lapsed] ELSE @]
      [] OTHER ->
           [StopFill(w) EXCEPT
              !.c.entry = IF Owns(w) /\ w.r.ticket = "whole" /\ @.id < MaxEntries
                          THEN [id |-> @.id + 1, age |-> "fresh"] ELSE @,
              !.r.promise = IF Owns(w) /\ @ = "waiting" THEN "stored" ELSE @]

(* The next block of a range is asked of the same origin.                  *)
NextBlock(w, cached) ==
    StartAttempt(PrepareBlock([StopFill(w) EXCEPT !.r.attempt = @ + 1, !.r.blocks = @ - 1],
                              cached), cached)

Completed(w, k) ==
    LET n == Committed(w, k.result)
    IN IF w.r.mode = "range" /\ w.r.blocks > 1 THEN NextBlock(n, k.cached)
       ELSE IF Prewarm(w) THEN Send(n, "edge")
       ELSE Closed(Recorded(n, w.r.status))

StartTunnel(w) == Started(Started(Unarmed(w), "tunnel_client"), "tunnel_origin")

(* discard: the entry the request wanted to revalidate, if it is still the *)
(* entry.                                                                  *)
Discarded(w) ==
    [w EXCEPT !.c.entry.age = IF w.r.reval # 0 /\ w.c.entry.id = w.r.reval THEN "none" ELSE @]

(* capture_origin_bytes: the response is captured, or no longer; what the  *)
(* origin replaced by a response that cannot be kept is discarded.         *)
Captured(w, kept) ==
    CASE w.r.ticket # "none" /\ kept -> [w EXCEPT !.r.fill = TRUE]
      [] w.r.ticket # "none" /\ ~kept /\ w.r.status \in {"ok", "unmodified"} ->
           StopFill(Discarded(w))
      [] OTHER -> StopFill(w)

(* continue_origin_response, with what the cache makes of the bytes.       *)
Choices == [kept : BOOLEAN, result : {"stored", "refused", "threw"}, cached : BOOLEAN]
NoChoice == [kept |-> FALSE, result |-> "refused", cached |-> FALSE]
ContinueResponse(w, k) ==
    LET n == Captured(w, k.kept)
    IN IF ~w.r.head THEN Started(Armed(w, "failover"), "head")
       ELSE IF Prewarm(w) /\ ~n.r.fill THEN Send(n, "edge")
       ELSE IF w.r.tunnel THEN StartTunnel(n)
       ELSE IF w.r.complete THEN Completed(n, k)
       ELSE Started(Armed(n, "close"), "body")

(* relay_origin_bytes: a prewarm has nobody to write to.                   *)
Relay(w, k) ==
    IF Prewarm(w) THEN ContinueResponse(w, k)
    ELSE Started(Armed(w, "close"), "relay")

(* consume_origin_head: an origin that answers a range with the whole      *)
(* response swaps the ticket of the block for that of the response.        *)
WholeAnswer(w) ==
    LET n == [Abandoned(w) EXCEPT !.r.blocks = 1]
    IN IF MayFill(n) THEN Ticketed(n) ELSE n

HeadTaken(w, h) ==
    [w EXCEPT !.r.head = TRUE, !.r.status = h.status, !.r.stream = @ \/ h.stream \/ h.tunnel,
              !.r.tunnel = h.tunnel, !.r.started = (w.r.mode = "range"),
              !.r.blocks = IF h.status = "ok" THEN @ ELSE 1,
              !.r.sent = IF w.r.started \/ Prewarm(w) THEN @ ELSE Append(@, h.status)]

Heads == [status : {"ok", "unavailable", "gateway", "unmodified"},
          stream : BOOLEAN, tunnel : BOOLEAN, passthrough : BOOLEAN,
          validated : {"refreshed", "differs", "unfit"}]

ConsumeHead(w, h, k) ==
    CASE h.status \in {"unavailable", "gateway"} /\ StaleUsable(w) -> TryStale(w)
      [] h.status = "gateway" /\ ~StaleUsable(w) /\ w.r.mode # "bypass" /\ ~h.passthrough ->
           Send(StopFill(w), "gateway")
      [] h.status = "unmodified" /\ w.r.reval # 0 /\ w.r.ticket # "none" ->
           IF h.validated = "refreshed" /\ Owns(w) /\ Present(w) /\ w.c.entry.id = w.r.reval
           THEN SendCached(StopFill([w EXCEPT !.c.entry.age = "fresh"]))
           ELSE Proxy([StopFill(IF h.validated = "unfit" THEN Discarded(w) ELSE w)
                         EXCEPT !.r.reval = 0], FALSE)
      [] OTHER -> Relay(HeadTaken(w, h), k)

(* The choices that matter in a state: the others are fixed.  A later      *)
(* block of a range has to be answered like the first: the codec fails any *)
(* other status.                                                           *)
Sensible(r, k) ==
    /\ ~k.kept => k.result = "refused"
    /\ r.ticket = "none" => ~k.kept
    /\ k.cached => r.mode = "range" /\ r.blocks > 1
SensibleHead(r, h) ==
    /\ h.stream \/ h.tunnel \/ r.started => h.status = "ok"
    /\ h.tunnel => r.mode = "bypass" /\ ~h.stream
    /\ h.validated # "differs" => h.status = "unmodified"
    /\ h.passthrough => h.status = "gateway"

HeadRead(s) ==
    \E o \in ses[s].ops : o.op = "head" /\
      LET w == Finished(World(s), o)
      IN IF ~Current(ses[s], o.attempt) THEN Put(w)
         ELSE \/ Put(OriginFailed(w))                   \* it cannot be read or parsed
              \/ ~ses[s].started /\ Put(Send(w, "edge"))   \* no memory to parse it
              \/ /\ s \in Clients                       \* an informational response
                 /\ Put(Relay([w EXCEPT !.r.interim = @ \/ w.r.sent # <<>>], NoChoice))
              \/ \E h \in Heads, k \in Choices :
                   /\ SensibleHead(ses[s], h) /\ Sensible(ses[s], k)
                   /\ s \in Clients => ~k.kept /\ ~k.cached
                   /\ Put(ConsumeHead(w, h, k))
              \/ /\ ses[s].mode = "range" /\ ~ses[s].started
                 /\ Put(Relay(HeadTaken(WholeAnswer(w),
                          [status |-> "ok", stream |-> FALSE, tunnel |-> FALSE]), NoChoice))

RelayDone(s) ==
    \E o \in ses[s].ops : o.op = "relay" /\
      LET w == Finished(World(s), o)
      IN IF ~Current(ses[s], o.attempt) THEN Put(w)
         ELSE \/ Put(Closed(Recorded(w, "edge")))
              \/ \E k \in Choices : Sensible(ses[s], k) /\ Put(ContinueResponse(w, k))

(* A block of the cache that cannot be read is no failure of the origin.   *)
BodyRead(s) ==
    \E o \in ses[s].ops : o.op = "body" /\
      LET w == Finished(World(s), o)
      IN IF ~Current(ses[s], o.attempt) THEN Put(w)
         ELSE \/ ~ses[s].partial /\ Put(Closed(Recorded(w, "gateway")))
              \/ Put(Closed(w))                         \* the framing is broken
              \/ \E last \in BOOLEAN, k \in Choices :
                   /\ Sensible(ses[s], k) /\ (s \in Clients => ~k.kept /\ ~k.cached)
                   /\ Put(Relay([w EXCEPT !.r.complete = last], k))

(* Either side of a tunnel ends; bytes that pass change nothing here.      *)
TunnelEnds(s) ==
    \E o \in ses[s].ops : o.op \in {"tunnel_client", "tunnel_origin"} /\
      LET w == Finished(World(s), o)
      IN Put(IF Current(ses[s], o.attempt) THEN Closed(w) ELSE w)

----------------------------------------------------------------------------
(* The answers of the edge, the timers and the end                         *)

Answered(s) ==
    \E o \in ses[s].ops : o.op \in {"reply", "cached"} /\
        Put(Closed(Recorded(Finished(World(s), o), ses[s].sent[Len(ses[s].sent)])))

TimerFired(w, t) ==
    IF t.action = "poll"
    THEN IF w.r.state = "open" THEN TryCache(w) ELSE w
    ELSE IF ~Current(w.r, t.attempt) THEN w
    ELSE IF t.action = "failover" /\ ~w.r.started THEN TryNext(w, FALSE)
    ELSE Closed(w)

(* The timer expires.  Re-arming or cancelling it afterwards does not take *)
(* back a handler that is already queued.                                  *)
Expire(s) ==
    LET t == ses[s].timer  w == Unarmed(World(s))
    IN /\ t # NoTimer
       /\ Put(IF TimerRace THEN [w EXCEPT !.r.expired = @ \cup {t}] ELSE TimerFired(w, t))

RunExpired(s) ==
    \E t \in ses[s].expired :
        Put(TimerFired([World(s) EXCEPT !.r.expired = @ \ {t}], t))

(* The lease timer finds the ticket lost.                                  *)
RenewFails(s) ==
    /\ ses[s].state = "open" /\ ses[s].ticket # "none" /\ cache.filling[ses[s].ticket] # s
    /\ Put(StopFill(World(s)))

(* The worker shuts down or drains: close() on the session's connection; a *)
(* refresh is also closed by its task when its time is over.               *)
Shutdown(s) ==
    /\ ses[s].state = "open"
    /\ Put(Closed(World(s)))

(* Nothing refers to the session any more: a streamed response is logged.  *)
Destroy(s) ==
    LET w == World(s)
    IN /\ ses[s].state = "closed" /\ ses[s].ops = {} /\ ses[s].expired = {}
       /\ Put([(IF ses[s].stream THEN Recorded(w, "edge") ELSE w) EXCEPT !.r.state = "gone"])

(* The cache: an entry expires and then may not even be served stale; a    *)
(* purge takes it and every ticket; a lease that was not renewed in time   *)
(* is taken back.                                                          *)
CacheMoves ==
    /\ \/ cache.entry.age = "fresh" /\ cache' = [cache EXCEPT !.entry.age = "stale"]
       \/ cache.entry.age = "stale" /\ cache' = [cache EXCEPT !.entry.age = "spent"]
       \/ /\ cache.entry.age # "none"
          /\ cache' = [entry |-> [cache.entry EXCEPT !.age = "none"],
                       filling |-> [k \in {"whole", "block"} |-> Nobody]]
       \/ \E k \in {"whole", "block"} :
             /\ cache.filling[k] # Nobody
             /\ cache' = [cache EXCEPT !.filling[k] = Nobody]
    /\ UNCHANGED ses

(* The time of the response a session holds to revalidate is over; that of *)
(* the entry may have been renewed meanwhile.                              *)
CopySpends(s) ==
    /\ ses[s].state = "open" /\ ses[s].reval # 0 /\ ~ses[s].spent
    /\ ses' = [ses EXCEPT ![s].spent = TRUE]
    /\ UNCHANGED cache

Step(s) ==
    \/ Accept(s) \/ ReadCompleted(s) \/ ContinueWritten(s) \/ SendDone(s) \/ HeadRead(s)
    \/ RelayDone(s) \/ BodyRead(s) \/ TunnelEnds(s) \/ Answered(s)
    \/ Expire(s) \/ RunExpired(s) \/ RenewFails(s) \/ CopySpends(s) \/ Shutdown(s) \/ Destroy(s)

Next == CacheMoves \/ \E s \in Sessions : Step(s)

Spec == Init /\ [][Next]_vars

(* The loop runs what is ready and timers expire.  Peers owe nothing: an   *)
(* origin or a client may leave any operation open.                        *)
Fairness ==
    /\ \A s \in Sessions : WF_vars(Expire(s)) /\ WF_vars(RunExpired(s))
LiveSpec == Spec /\ Fairness

----------------------------------------------------------------------------
(* Properties *)

(* The members of every session and the cache keep their types.            *)
TypeOK ==
    /\ ses \in [Sessions -> Session]
    /\ cache \in [entry : [id : 0..MaxEntries, age : Ages],
                   filling : [{"whole", "block"} -> Sessions \cup {Nobody, Lapsed}]]

(* A client gets one response: at most one final head is ever handed to    *)
(* its connection, and no write is started while another one is open,      *)
(* whatever failover, timeout, stale answer or revalidation came before.   *)
OneResponse ==
    \A s \in Sessions :
        /\ Len(ses[s].sent) <= 1
        /\ Cardinality({o \in ses[s].ops : o.op \in ClientWrites}) <= 1

(* A ticket is never left with a session that has ended: unless a store    *)
(* threw, the session others wait for is open and has the ticket, and will *)
(* fill or abandon it.                                                     *)
TicketsHaveOwners ==
    \A k \in {"whole", "block"} :
        LET s == cache.filling[k]
        IN s \in Sessions => ses[s].ticket = k /\ ses[s].state = "open"

(* Only the holder of the ticket that the cache still knows fills it: a    *)
(* session that lost its lease to another one does not replace the entry   *)
(* and does not take the other one's ticket away.                          *)
HolderFills ==
    \A s \in Sessions :
       (ses'[s] # ses[s] /\ cache' # cache) =>
          \A k \in {"whole", "block"} :
             cache.filling[k] \in {Nobody, s} \/ cache'.filling[k] = cache.filling[k]

(* The log of a streamed response has the status the client was sent.      *)
StatusIsTheOneSent ==
    \A s \in Sessions :
        ses[s].stream /\ ses[s].logged # "none" /\ ses[s].sent # <<>> =>
            ses[s].logged = ses[s].sent[1]

(* An informational head is forwarded before the response, not inside it.  *)
InterimPrecedesResponse == \A s \in Sessions : ~ses[s].interim

(* A refresh tells its task once how it ended, and never that it stored    *)
(* what it did not store; it ends told.                                    *)
RefreshIsSettled ==
    \A s \in Refreshes :
        /\ ses[s].promise = "stored" => cache.entry.id # 0
        /\ ses[s].state \in {"closed", "gone"} => ses[s].promise \in {"stored", "failed"}

(* A request that went to an origin gets an answer or an end: an origin    *)
(* that stays silent is given up, and so is the last one.                  *)
OriginIsGivenUp ==
    \A s \in Sessions :
        (ses[s].attempt > 0) ~> (ses[s].pending \/ ses[s].head \/ ses[s].state # "open")

(* A request that waits for another fill gets on, whoever fills and        *)
(* however often the fill changes hands.                                   *)
WaiterProceeds ==
    \A s \in Sessions : ses[s].timer.action = "poll" ~> ses[s].timer.action # "poll"
============================================================================
