---------------------------- MODULE LogDelivery -----------------------------
(***************************************************************************)
(* Log events on a node, from the loops that produce them to the           *)
(* acknowledgement of the service (node/runtime/log_producer.h,            *)
(* node/control/log_delivery.h, and the request mailboxes of               *)
(* node/control/control_stream.h).                                         *)
(*                                                                         *)
(* A producer stages events on its own loop and posts sealed batches       *)
(* through a bounded channel.  The control worker takes batches over as    *)
(* its budget allows, sends one delivery at a time and keeps it until it   *)
(* is acknowledged, over as many sessions as that takes.                   *)
(*                                                                         *)
(* Events of a source are numbered in the order of production.  A batch    *)
(* queue is kept flat: events are taken out of it one by one, in order.    *)
(* Every event is one unit of the budgets.                                 *)
(***************************************************************************)
EXTENDS Integers, Sequences, FiniteSets, FiniteSetsExt

CONSTANTS Sources,       \* the producers: data plane and control
          Own,           \* the source whose producer is the control worker
          Supply,        \* events ever produced, per source (bound)
          MaxDelivery,   \* log_contract::max_delivery_events
          ChannelSize,   \* data_log_channel_capacity, control_...
          MaxRetained,   \* maximum_events_ of a source
          MaxRequests    \* requests and replies under way (bound)

ASSUME SourcesAssumption == Own \in Sources
ASSUME BoundsAssumption ==
    /\ Supply \in [Sources -> Nat] /\ MaxRequests \in Nat
    /\ MaxDelivery \in Nat \ {0} /\ ChannelSize \in Nat \ {0}
    /\ MaxRetained \in Nat /\ MaxDelivery <= MaxRetained

VARIABLES prod,      \* per source: the producer on its own loop
          src,       \* per source: batch_source of the control worker
          ready,     \* the wake-up token of the sending loop
          flight,    \* in_flight_: source and events, or nothing
          run,       \* the sending loop and its session
          wire,      \* requests under way: they may arrive after a time-out
          replies,   \* replies under way: [id, ok]
          accepted,  \* events the service has acknowledged or stored
          snap       \* the production figures of the last heartbeat

deliveryVars == <<prod, src, ready, flight, run, wire, replies, accepted, snap>>

EventIds == Nat \ {0}
Log == Sources \X EventIds
Nothing == [source |-> Own, events |-> <<>>]
Phases == {"down", "check", "await", "sent", "sleep", "done"}

(* producer_state and the channel it posts to.                             *)
Producer == [made : Nat, staged : Seq(EventIds), channel : Seq(Seq(EventIds)),
             published : Nat, dropped : Nat, open : BOOLEAN]

BatchSource == [waiting : Seq(EventIds), pending : Seq(EventIds), retained : 0 .. MaxRetained,
                received : Nat, acknowledged : Nat,
                space : BOOLEAN, blocked : BOOLEAN, closed : BOOLEAN]

DeliveryTypeOK ==
    /\ prod \in [Sources -> Producer]
    /\ src \in [Sources -> BatchSource]
    /\ ready \in BOOLEAN
    /\ flight \in [source : Sources, events : Seq(EventIds)]
    /\ run \in [phase : Phases, id : 0 .. MaxRequests, failing : BOOLEAN]
    /\ \A m \in wire : m.id \in 1 .. MaxRequests /\ m.logs \subseteq Log
    /\ replies \subseteq [id : 1 .. MaxRequests, ok : BOOLEAN]
    /\ accepted \subseteq Log
    /\ snap \in [Sources \ {Own} -> [published : Nat, queued : Nat]]

DeliveryInit ==
    /\ prod = [s \in Sources |-> [made |-> 0, staged |-> <<>>, channel |-> <<>>,
                                  published |-> 0, dropped |-> 0, open |-> TRUE]]
    /\ src = [s \in Sources |-> [waiting |-> <<>>, pending |-> <<>>, retained |-> 0,
                                 received |-> 0, acknowledged |-> 0,
                                 space |-> FALSE, blocked |-> FALSE, closed |-> FALSE]]
    /\ ready = FALSE
    /\ flight = Nothing
    /\ run = [phase |-> "down", id |-> 0, failing |-> FALSE]
    /\ wire = {} /\ replies = {} /\ accepted = {}
    /\ snap = [s \in Sources \ {Own} |-> [published |-> 0, queued |-> 0]]

Flying == flight.events # <<>>

-----------------------------------------------------------------------------
(* The producer.                                                           *)

(* flush: the staged events become one batch; a full channel drops it.     *)
Flushed(p) ==
    CASE p.staged = <<>> -> p
      [] p.staged # <<>> /\ Len(p.channel) < ChannelSize ->
           [p EXCEPT !.channel = Append(@, p.staged), !.staged = <<>>,
                     !.published = @ + Len(p.staged)]
      [] OTHER -> [p EXCEPT !.staged = <<>>, !.dropped = @ + Len(p.staged)]

(* append: a full batch is flushed at once, any other by a posted flush.   *)
Appended(p) ==
    LET q == [p EXCEPT !.made = @ + 1, !.staged = Append(@, p.made + 1)]
    IN  IF Len(q.staged) = MaxDelivery THEN Flushed(q) ELSE q

CanAppend(s) == prod[s].made < Supply[s] /\ prod[s].open

Produce(s) ==
    /\ CanAppend(s)
    /\ prod' = [prod EXCEPT ![s] = Appended(@)]
    /\ UNCHANGED <<src, ready, flight, run, wire, replies, accepted, snap>>

(* The posted flush.                                                       *)
Flush(s) ==
    /\ prod[s].staged # <<>>
    /\ prod' = [prod EXCEPT ![s] = Flushed(@)]
    /\ UNCHANGED <<src, ready, flight, run, wire, replies, accepted, snap>>

(* The loop of the producer stops: its last flush, then the channel closes. *)
StopProducer(s) ==
    /\ prod[s].open
    /\ prod' = [prod EXCEPT ![s] = [Flushed(@) EXCEPT !.open = FALSE]]
    /\ UNCHANGED <<src, ready, flight, run, wire, replies, accepted, snap>>

-----------------------------------------------------------------------------
(* receive_source: one loop per source on the control worker.              *)

Fits(b) == b.retained + Len(b.waiting) <= MaxRetained

Receive(s) ==
    /\ src[s].waiting = <<>> /\ prod[s].channel # <<>>
    /\ src' = [src EXCEPT ![s].waiting = Head(prod[s].channel),
                          ![s].received = @ + Len(Head(prod[s].channel))]
    /\ prod' = [prod EXCEPT ![s].channel = Tail(@)]
    /\ UNCHANGED <<ready, flight, run, wire, replies, accepted, snap>>

(* The batch becomes part of the queue and of the budget.                  *)
Retain(s) ==
    /\ src[s].waiting # <<>> /\ ~src[s].blocked /\ Fits(src[s])
    /\ src' = [src EXCEPT ![s].waiting = <<>>,
                          ![s].pending = @ \o src[s].waiting,
                          ![s].retained = @ + Len(src[s].waiting)]
    /\ ready' = TRUE
    /\ UNCHANGED <<prod, flight, run, wire, replies, accepted, snap>>

(* No capacity: the loop waits for a token of released space.              *)
Block(s) ==
    /\ src[s].waiting # <<>> /\ ~src[s].blocked /\ ~Fits(src[s])
    /\ src' = [src EXCEPT ![s].blocked = TRUE]
    /\ UNCHANGED <<prod, ready, flight, run, wire, replies, accepted, snap>>

Unblock(s) ==
    /\ src[s].blocked /\ src[s].space
    /\ src' = [src EXCEPT ![s].blocked = FALSE, ![s].space = FALSE]
    /\ UNCHANGED <<prod, ready, flight, run, wire, replies, accepted, snap>>

ReceiveClosed(s) ==
    /\ src[s].waiting = <<>> /\ ~src[s].closed
    /\ prod[s].channel = <<>> /\ ~prod[s].open
    /\ src' = [src EXCEPT ![s].closed = TRUE]
    /\ ready' = TRUE
    /\ UNCHANGED <<prod, flight, run, wire, replies, accepted, snap>>

-----------------------------------------------------------------------------
(* run: the sending loop, one per session.                                 *)

NothingPending == \A s \in Sources : src[s].pending = <<>>

(* Own events first, then the others.                                      *)
Chosen(s) == /\ src[s].pending # <<>>
             /\ s = Own \/ src[Own].pending = <<>>

Taken(b) == IF Len(b.pending) < MaxDelivery THEN Len(b.pending) ELSE MaxDelivery

(* prepare_delivery                                                        *)
Prepare(s) ==
    /\ run.phase = "check" /\ ~Flying /\ Chosen(s)
    /\ flight' = [source |-> s, events |-> SubSeq(src[s].pending, 1, Taken(src[s]))]
    /\ src' = [src EXCEPT ![s].pending = SubSeq(@, Taken(src[s]) + 1, Len(@))]
    /\ UNCHANGED <<prod, ready, run, wire, replies, accepted, snap>>

Await ==
    /\ run.phase = "check" /\ ~Flying /\ NothingPending
    /\ run' = [run EXCEPT !.phase = IF \A s \in Sources : src[s].closed THEN "done" ELSE "await"]
    /\ UNCHANGED <<prod, src, ready, flight, wire, replies, accepted, snap>>

Wake ==
    /\ run.phase = "await" /\ ready
    /\ ready' = FALSE
    /\ run' = [run EXCEPT !.phase = "check"]
    /\ UNCHANGED <<prod, src, flight, wire, replies, accepted, snap>>

Carried == {<<flight.source, flight.events[i]>> : i \in 1 .. Len(flight.events)}

(* control_stream::send: every request has an identifier of its own; one   *)
(* that no message carries any more is as good as a new one.               *)
FreeIds == {i \in 1 .. MaxRequests : \A m \in wire \cup replies : m.id # i}

NextId(i) == i \in FreeIds /\ \A j \in FreeIds : i <= j

Send(i) ==
    /\ run.phase = "check" /\ Flying
    /\ NextId(i)
    /\ run' = [run EXCEPT !.phase = "sent", !.id = i]
    /\ wire' = wire \cup {[id |-> i, logs |-> Carried]}
    /\ UNCHANGED <<prod, src, ready, flight, replies, accepted, snap>>

(* Broken on purpose: any reply answers the request that waits.            *)
MatchesAny(r) == run.phase = "sent"

(* read_replies: a reply goes to the request it names, or is discarded.    *)
Matches(r) == run.phase = "sent" /\ r.id = run.id

(* recovered: reported through the control worker's own producer.          *)
Reported == IF CanAppend(Own) THEN [prod EXCEPT ![Own] = Appended(@)] ELSE prod

Acknowledge(r) ==
    /\ r.ok /\ Matches(r)
    /\ src' = [src EXCEPT ![flight.source].retained = @ - Len(flight.events),
                          ![flight.source].acknowledged = @ + Len(flight.events),
                          ![flight.source].space = TRUE]
    /\ flight' = Nothing
    /\ prod' = IF run.failing THEN Reported ELSE prod
    /\ run' = [run EXCEPT !.phase = "check", !.failing = FALSE]
    /\ UNCHANGED <<ready, wire, accepted, snap>>

(* An error reply, a time-out, any other failure of the exchange.          *)
SendFailed ==
    /\ run' = [run EXCEPT !.phase = "sleep", !.failing = TRUE]
    /\ prod' = Reported
    /\ UNCHANGED <<src, ready, flight, wire, accepted, snap>>

Reply(r) ==
    /\ r \in replies /\ replies' = replies \ {r}
    /\ \/ Acknowledge(r)
       \/ ~r.ok /\ Matches(r) /\ SendFailed
       \/ ~Matches(r) /\ UNCHANGED <<prod, src, ready, flight, run, wire, accepted, snap>>

TimeOut == run.phase = "sent" /\ SendFailed /\ UNCHANGED replies

SleepEnds ==
    /\ run.phase = "sleep"
    /\ run' = [run EXCEPT !.phase = "check"]
    /\ UNCHANGED <<prod, src, ready, flight, wire, replies, accepted, snap>>

(* An authenticated session starts the loop; its end stops it wherever it  *)
(* is.  Replies of a session are lost with it, requests may still arrive.  *)
StartSession ==
    /\ run.phase = "down"
    /\ run' = [run EXCEPT !.phase = "check"]
    /\ UNCHANGED <<prod, src, ready, flight, wire, replies, accepted, snap>>

EndSession ==
    /\ run.phase # "down"
    /\ run' = [run EXCEPT !.phase = "down"]
    /\ replies' = {}
    /\ wire' = {}
    /\ UNCHANGED <<prod, src, ready, flight, accepted, snap>>

(* The request had arrived before the session ended.                       *)
EndSessionAccepted(m) ==
    /\ run.phase # "down" /\ m \in wire
    /\ run' = [run EXCEPT !.phase = "down"]
    /\ replies' = {} /\ wire' = {}
    /\ accepted' = accepted \cup m.logs
    /\ UNCHANGED <<prod, src, ready, flight, snap>>

-----------------------------------------------------------------------------
(* The service: queues the delivery and says so, or refuses it.            *)

Serve(m, ok) ==
    /\ m \in wire /\ wire' = wire \ {m}
    /\ replies' = replies \cup {[id |-> m.id, ok |-> ok]}
    /\ accepted' = IF ok THEN accepted \cup m.logs ELSE accepted
    /\ UNCHANGED <<prod, src, ready, flight, run, snap>>

(* heartbeat: the data plane's figures arrive as copies from its loops,    *)
(* those of the control worker's own producer are read in place.           *)
Figures(s) == IF s = Own THEN [published |-> prod[s].published, queued |-> Len(prod[s].staged)]
              ELSE snap[s]

queued_events(s) ==
    Max({Figures(s).published, src[s].received}) - src[s].acknowledged + Figures(s).queued

Report(s) ==
    /\ s # Own
    /\ snap' = [snap EXCEPT ![s] = [published |-> prod[s].published,
                                    queued |-> Len(prod[s].staged)]]
    /\ UNCHANGED <<prod, src, ready, flight, run, wire, replies, accepted>>

ReceiverStep(s) == Receive(s) \/ Retain(s) \/ Block(s) \/ Unblock(s) \/ ReceiveClosed(s)

SenderStep == \/ \E s \in Sources : Prepare(s)
              \/ \E i \in 1 .. MaxRequests : Send(i)
              \/ Await \/ Wake \/ SleepEnds

DeliveryNext ==
    \/ \E s \in Sources : Produce(s) \/ Flush(s) \/ StopProducer(s) \/ ReceiverStep(s) \/ Report(s)
    \/ SenderStep \/ TimeOut \/ StartSession \/ EndSession
    \/ \E r \in replies : Reply(r)
    \/ \E m \in wire : EndSessionAccepted(m) \/ \E ok \in BOOLEAN : Serve(m, ok)

DeliverySpec == DeliveryInit /\ [][DeliveryNext]_deliveryVars

(* Fairness: posted flushes and woken loops run, sessions come back, and   *)
(* neither refusals nor time-outs nor ends of sessions strike every try.   *)
(* Nothing is assumed of the producers.                                    *)
Delivers ==
    /\ \A s \in Sources : WF_deliveryVars(ReceiverStep(s))
    /\ SF_deliveryVars(SenderStep) /\ WF_deliveryVars(StartSession)
    /\ WF_deliveryVars(\E m \in wire, ok \in BOOLEAN : Serve(m, ok))
    /\ SF_deliveryVars(\E m \in wire : m.id = run.id /\ run.phase = "sent" /\ Serve(m, TRUE))
    /\ SF_deliveryVars(\E r \in replies : r.ok /\ Matches(r) /\ Reply(r))
    /\ WF_deliveryVars(\E r \in replies : Reply(r)) /\ WF_deliveryVars(TimeOut)

LiveSpec == DeliverySpec /\ Delivers

-----------------------------------------------------------------------------
(* Properties.                                                             *)

Elements(q) == {q[i] : i \in DOMAIN q}

(* What the sending loop has of a source, and all the control worker has,  *)
(* in the order of sending.                                                *)
Flown(s) == IF flight.source = s THEN flight.events ELSE <<>>
Held(s) == Flown(s) \o src[s].pending \o src[s].waiting

(* Events of a source the control worker took over: accepted by the        *)
(* service or still held.                                                  *)
Received(s) == {e \in 1 .. prod[s].made : <<s, e>> \in accepted \/ e \in Elements(Held(s))}

(* An event the control worker took over is in its hands or accepted by    *)
(* the service, over time-outs, refusals, late replies and ends of         *)
(* sessions: nothing is dropped after the channel.                         *)
HeldOrAccepted ==
    \A s \in Sources :
       /\ \A e \in Elements(Held(s)) : e <= prod[s].made
       /\ src[s].received = src[s].acknowledged + Len(Held(s))
       /\ Cardinality(Received(s)) = src[s].received

(* Events of a source are delivered in the order of their production: what *)
(* is held is increasing, and newer than everything accepted except for    *)
(* the delivery under way.                                                 *)
InOrder ==
    \A s \in Sources :
       /\ \A i, j \in DOMAIN Held(s) : i < j => Held(s)[i] < Held(s)[j]
       /\ \A e \in 1 .. prod[s].made : <<s, e>> \in accepted =>
             \A i \in DOMAIN Held(s) : e < Held(s)[i] \/ i <= Len(Flown(s))

(* The budget is what the queue and the delivery under way hold.           *)
RetainedMatches ==
    \A s \in Sources :
       src[s].retained = Len(src[s].pending) + Len(Flown(s))

(* No wake-up is lost: a sending loop that waits has work only with its    *)
(* token set, a receiving loop that waits has room only with its token set. *)
NoLostWakeUp ==
    /\ run.phase = "await" /\ ~NothingPending => ready
    /\ \A s \in Sources : src[s].blocked /\ Fits(src[s]) => src[s].space

(* queued_events: reports of the data plane are older than the receipts    *)
(* and acknowledgements of the control worker; the difference of the       *)
(* unsigned counters never wraps and covers what the control worker holds. *)
BacklogIsCovered == \A s \in Sources : queued_events(s) >= Len(Held(s))

(* An event the control worker of the node took over is in its hands or    *)
(* accepted by the service, in the order of production; the counters by    *)
(* which the loops wait for each other are right: the budget is what is    *)
(* held, no wake-up is lost, the reported backlog covers what is held.     *)
TakenIsKept ==
    /\ DeliveryTypeOK /\ HeldOrAccepted /\ InOrder
    /\ RetainedMatches /\ NoLostWakeUp /\ BacklogIsCovered

(* Liveness: an event in the channel is accepted by the service in the     *)
(* end, and its budget comes back: nothing waits for ever on anything.     *)
PublishedIsDelivered ==
    \A s \in Sources : \A e \in 1 .. Supply[s] :
       (\E i \in DOMAIN prod[s].channel : e \in Elements(prod[s].channel[i]))
          ~> (<<s, e>> \in accepted /\ e \notin Elements(Held(s)))
=============================================================================
