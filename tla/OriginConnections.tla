------------------------- MODULE OriginConnections -------------------------
(***************************************************************************)
(* The connections of one data worker to one origin: the transport and its *)
(* generations (src/node/data/origin_transport.h), the pool of idle ones   *)
(* and the task that follows the origin's DNS (origin_connection_pool.h),  *)
(* and the exchanges that use them (origin_exchange.h).  All of it runs on *)
(* one loop; cancelling an operation leaves its handler to run later with  *)
(* the generation it was started for.                                      *)
(*                                                                         *)
(* HTTP/2 and TLS differ from plain connections in the stages of a connect *)
(* only.  Addresses stand for what the host name resolves to.              *)
(***************************************************************************)
EXTENDS Naturals, Sequences, FiniteSets, SequencesExt

CONSTANTS
  Transports,   \* transports that may exist at once
  Exchanges,    \* exchanges that may be under way at once
  Addresses,    \* what the host name may resolve to
  MaxIdle,      \* max_idle_connections
  MaxChanges,   \* bound: changes of the DNS
  MaxFaults,    \* bound: failed operations and cancelled exchanges
  MaxSends,     \* bound: requests
  Faults,       \* the faults of this instance
  None

ConnectionsAssumption ==
  /\ MaxIdle \in Nat \ {0} /\ MaxChanges \in Nat /\ MaxFaults \in Nat /\ MaxSends \in Nat
  /\ None \notin Addresses \cup Transports

VARIABLES
  tr,       \* the transports
  idle,     \* idle_, oldest first
  ex,       \* the exchanges
  dns,      \* what the host name resolves to now
  lookup,   \* the answer watch_dns is waiting for
  changes, faults, sends

vars == <<tr, idle, ex, dns, lookup, changes, faults, sends>>

Stages == <<"resolve", "connect", "handshake">>

\* tracked: known to the pool, and whether it counts as idle there.
Gone == [tracked |-> FALSE, idle |-> FALSE, gen |-> 0, connectGen |-> 0, callback |-> FALSE, connected |-> FALSE,
         reusable |-> TRUE, tunnel |-> FALSE, broken |-> FALSE, addr |-> None, ops |-> {}]
NoExchange == [phase |-> "none", t |-> None, pooled |-> FALSE, closed |-> FALSE, calls |-> 0]

Init ==
  /\ tr = [t \in Transports |-> Gone] /\ idle = <<>> /\ ex = [x \in Exchanges |-> NoExchange]
  /\ dns \in Addresses /\ lookup = None /\ changes = 0 /\ faults = 0 /\ sends = 0

Spend(kind) == kind \in Faults /\ faults < MaxFaults /\ faults' = faults + 1

(* -- origin_transport --------------------------------------------------- *)

Connected(v) == v.connected /\ v.reusable

\* close: a handler already queued must not reopen the connection.
Closed(v) == [v EXCEPT !.gen = @ + 1, !.connected = FALSE]

\* connect: reset, then the first stage under a new generation.
Connecting(v) ==
  [v EXCEPT !.gen = @ + 1, !.connectGen = v.gen + 1, !.callback = TRUE, !.connected = FALSE, !.reusable = TRUE,
            !.tunnel = FALSE, !.broken = FALSE, !.addr = None, !.ops = @ \cup {[gen |-> v.gen + 1, stage |-> 1]}]

\* invalidate_dns
Invalidated(v) == IF v.tunnel THEN Closed([v EXCEPT !.reusable = FALSE]) ELSE [v EXCEPT !.reusable = FALSE]

\* enter_tunnel
Tunnelled(v) == IF v.reusable THEN [v EXCEPT !.tunnel = TRUE] ELSE Closed([v EXCEPT !.tunnel = TRUE])

\* handle_resolved, handle_connected, handle_handshake: the generation they were started for.
IsCurrent(v, op) == op.gen = v.gen

(* -- origin_exchange ---------------------------------------------------- *)

\* The exchange is over: its handlers let go of it, and the pool of its transport.
Dropped(x) == [ex EXCEPT ![x] = NoExchange]

\* expire_idle: the oldest go first.
Expired(n) == [t \in Transports |-> IF \E i \in 1..n : idle[i] = t THEN Gone ELSE tr[t]]

\* Mutant: the acquired connection stays in the pool's list.
TakenAndKept(rest) == rest

\* acquire: the youngest idle connection is taken out.
Taken(rest) == Front(rest)

\* send: acquire, then write on a live pooled connection or connect.
Send(x) ==
  /\ ex[x].phase = "none" /\ sends < MaxSends /\ sends' = sends + 1
  /\ \E n \in 0..Len(idle) :
       LET rest == SubSeq(idle, n + 1, Len(idle))  known == Expired(n) IN
       \/ /\ rest # <<>> /\ idle' = Taken(rest)
          /\ LET t == Last(rest)  v == [known[t] EXCEPT !.idle = FALSE] IN
             IF Connected(v)
             THEN /\ tr' = [known EXCEPT ![t] = v]
                  /\ ex' = [ex EXCEPT ![x] = [NoExchange EXCEPT !.phase = "writing", !.t = t, !.pooled = TRUE]]
             ELSE /\ tr' = [known EXCEPT ![t] = Connecting(v)]
                  /\ ex' = [ex EXCEPT ![x] = [NoExchange EXCEPT !.phase = "connecting", !.t = t]]
       \/ /\ rest = <<>> /\ idle' = <<>>
          /\ \E t \in Transports :
               /\ ~known[t].tracked
               /\ tr' = [known EXCEPT ![t] = Connecting([Gone EXCEPT !.tracked = TRUE])]
               /\ ex' = [ex EXCEPT ![x] = [NoExchange EXCEPT !.phase = "connecting", !.t = t]]
  /\ UNCHANGED <<dns, lookup, changes, faults>>

\* The exchange that waits for this transport's connect.
Waiting(t) == {x \in Exchanges : ex[x].t = t /\ ex[x].phase = "connecting"}

\* complete_connect: only for the connect the callback belongs to, and once.
Answers(op, v) == op.gen = v.connectGen /\ v.callback

\* complete_connect: what the exchange does with the answer.
Answer(t, op, v, ok) ==
  IF Answers(op, v)
  THEN /\ tr' = [tr EXCEPT ![t] = [v EXCEPT !.callback = FALSE]]
       /\ ex' = [x \in Exchanges |-> IF x \notin Waiting(t) THEN ex[x]
                 ELSE IF ok /\ ~ex[x].closed THEN [ex[x] EXCEPT !.phase = "writing"]
                 ELSE [ex[x] EXCEPT !.phase = "done", !.calls = @ + 1]]
  ELSE tr' = [tr EXCEPT ![t] = v] /\ UNCHANGED ex

\* One handler of a connect: on to the next stage, connected, failed or too late.
Handler(t, op) ==
  /\ op \in tr[t].ops
  /\ LET v == [tr[t] EXCEPT !.ops = @ \ {op}] IN
     \/ ~IsCurrent(tr[t], op) /\ Answer(t, op, v, FALSE) /\ UNCHANGED faults
     \/ IsCurrent(tr[t], op) /\ Spend("connect") /\ Answer(t, op, v, FALSE)
     \/ /\ IsCurrent(tr[t], op) /\ op.stage < Len(Stages)
        /\ tr' = [tr EXCEPT ![t] = [v EXCEPT !.addr = IF op.stage = 1 THEN dns ELSE @,
                                             !.ops = @ \cup {[op EXCEPT !.stage = @ + 1]}]]
        /\ UNCHANGED <<ex, faults>>
     \/ /\ IsCurrent(tr[t], op) /\ op.stage = Len(Stages)
        /\ Answer(t, op, [v EXCEPT !.connected = TRUE], TRUE) /\ UNCHANGED faults
  /\ UNCHANGED <<idle, dns, lookup, changes, sends>>

\* write_request: once more, on a fresh connection.
Retried(e) == [e EXCEPT !.phase = "connecting", !.pooled = FALSE]

\* write_request: a pooled connection that takes no byte is replaced once.
Written(x) ==
  /\ ex[x].phase = "writing"
  /\ LET t == ex[x].t IN
     \/ /\ tr[t].connected /\ ~ex[x].closed
        /\ ex' = [ex EXCEPT ![x].phase = "reading", ![x].calls = @ + 1] /\ UNCHANGED <<tr, faults>>
     \/ /\ tr[t].broken /\ ex[x].pooled /\ ~ex[x].closed
        /\ ex' = [ex EXCEPT ![x] = Retried(@)]
        /\ tr' = [tr EXCEPT ![t] = Connecting(@)] /\ UNCHANGED faults
     \/ /\ \/ Spend("write")
           \/ (ex[x].closed \/ ~tr[t].connected \/ (tr[t].broken /\ ~ex[x].pooled)) /\ UNCHANGED faults
        /\ ex' = [ex EXCEPT ![x].phase = "done", ![x].calls = @ + 1] /\ UNCHANGED tr
  /\ UNCHANGED <<idle, dns, lookup, changes, sends>>

\* An upgraded response: the exchange becomes a tunnel.
EnterTunnel(x) ==
  /\ ex[x].phase = "reading" /\ ~ex[x].closed
  /\ tr' = [tr EXCEPT ![ex[x].t] = Tunnelled(@)]
  /\ ex' = [ex EXCEPT ![x].phase = "tunnel"]
  /\ UNCHANGED <<idle, dns, lookup, changes, faults, sends>>

\* release: a full pool closes its oldest connection.
Evicted == IF Len(idle) = MaxIdle THEN Tail(idle) ELSE idle

\* release: a connection that may be reused goes to the pool, others end here.
Release(x) ==
  /\ ex[x].phase = "reading"
  /\ \E reusable \in BOOLEAN :
       LET t == ex[x].t IN
       IF reusable /\ ~tr[t].broken /\ Connected(tr[t]) /\ ~ex[x].closed
       THEN /\ idle' = Append(Evicted, t)
            /\ tr' = [u \in Transports |-> IF u = t THEN [tr[t] EXCEPT !.idle = TRUE]
                                           ELSE IF Contains(idle, u) /\ ~Contains(idle', u) THEN Gone ELSE tr[u]]
       ELSE tr' = [tr EXCEPT ![t] = Gone] /\ UNCHANGED idle
  /\ ex' = Dropped(x)
  /\ UNCHANGED <<dns, lookup, changes, faults, sends>>

\* close: the handlers still to come keep the exchange.
ClosedExchange(e) == [e EXCEPT !.closed = TRUE]

\* close: the session is done with the exchange, whatever it was doing.
Cancel(x) ==
  /\ ex[x].phase \in {"connecting", "writing", "reading", "tunnel"} /\ ~ex[x].closed /\ Spend("cancel")
  /\ tr' = [tr EXCEPT ![ex[x].t] = Closed(@)]
  /\ ex' = [ex EXCEPT ![x] = ClosedExchange(@)]
  /\ UNCHANGED <<idle, dns, lookup, changes, sends>>

\* The session lets go of a closed or failed exchange: its transport is destroyed.
Destroy(x) ==
  /\ \/ ex[x].phase = "done"
     \/ /\ ex[x].phase \in {"reading", "tunnel"}
        /\ ex[x].closed \/ ~tr[ex[x].t].connected \/ tr[ex[x].t].broken
  /\ tr' = [tr EXCEPT ![ex[x].t] = Gone] /\ ex' = Dropped(x)
  /\ UNCHANGED <<idle, dns, lookup, changes, faults, sends>>

\* The origin closes an idle connection; nobody notices until it is used.
PeerCloses(t) ==
  /\ tr[t].idle /\ ~tr[t].broken /\ Spend("peer")
  /\ tr' = [tr EXCEPT ![t].broken = TRUE]
  /\ UNCHANGED <<idle, ex, dns, lookup, changes, sends>>

(* -- watch_dns ---------------------------------------------------------- *)

DnsChanges ==
  /\ changes < MaxChanges /\ changes' = changes + 1
  /\ dns' \in Addresses \ {dns}
  /\ UNCHANGED <<tr, idle, ex, lookup, faults, sends>>

\* The interval has passed: idle ones expire, live keys are looked up.
LookUp ==
  /\ lookup = None
  /\ \E n \in 0..Len(idle) :
       /\ idle' = SubSeq(idle, n + 1, Len(idle)) /\ tr' = Expired(n)
       /\ lookup' = IF \E t \in Transports : Connected(tr'[t]) THEN dns ELSE None
  /\ UNCHANGED <<ex, dns, changes, faults, sends>>

\* The connections that the answer outdates, as they are after the lookup.
Differs(t) == Connected(tr[t]) /\ tr[t].addr # lookup

Answered ==
  /\ lookup # None
  /\ \/ tr' = [t \in Transports |-> IF ~Differs(t) THEN tr[t]
               ELSE IF tr[t].idle THEN Closed(Invalidated(tr[t])) ELSE Invalidated(tr[t])]
        /\ UNCHANGED faults
     \/ Spend("lookup") /\ UNCHANGED tr
  /\ lookup' = None
  /\ UNCHANGED <<idle, ex, dns, changes, sends>>

(* -- Specification ------------------------------------------------------ *)

Next ==
  \/ \E x \in Exchanges : Send(x) \/ Written(x) \/ EnterTunnel(x) \/ Release(x) \/ Cancel(x) \/ Destroy(x)
  \/ \E t \in Transports : PeerCloses(t) \/ \E op \in tr[t].ops : Handler(t, op)
  \/ DnsChanges \/ LookUp \/ Answered

Spec == Init /\ [][Next]_vars

\* The loop runs handlers, the DNS task its turns.  Nothing ends a tunnel or a response by itself.
Fairness ==
  /\ \A t \in Transports : WF_vars(\E op \in tr[t].ops : Handler(t, op))
  /\ \A x \in Exchanges : WF_vars(Written(x)) /\ WF_vars(Destroy(x))
  /\ WF_vars(LookUp) /\ WF_vars(Answered)
FairSpec == Spec /\ Fairness

(* -- Properties --------------------------------------------------------- *)

(* Transports exist exactly while the pool tracks them, and exchanges name *)
(* ones that exist.                                                        *)
TypeOK ==
  /\ \A t \in Transports : /\ (tr[t] = Gone) = ~tr[t].tracked /\ Cardinality(tr[t].ops) <= 3
                           /\ tr[t].addr \in Addresses \cup {None}
  /\ Len(idle) <= MaxIdle /\ lookup \in Addresses \cup {None}
  /\ \A x \in Exchanges : /\ ex[x].phase \in {"none", "connecting", "writing", "reading", "tunnel", "done"}
                          /\ ex[x].phase # "none" => tr[ex[x].t].tracked

(* A connection is in the pool or belongs to one exchange, never to two of *)
(* them, and the pool's own flag agrees.                                   *)
OneOwner ==
  /\ \A t \in Transports : tr[t].tracked =>
       Cardinality({x \in Exchanges : ex[x].t = t}) + Cardinality({i \in DOMAIN idle : idle[i] = t}) = 1
  /\ \A t \in Transports : tr[t].idle = Contains(idle, t)

(* "A DNS/connect completion already queued before cancellation must not   *)
(* reopen the socket": what is connected went through the latest connect,  *)
(* and nobody has closed it since.                                         *)
ClosedStaysClosed == \A t \in Transports : tr[t].connected => tr[t].gen = tr[t].connectGen /\ tr[t].addr # None

(* The send handler of an exchange runs once, through reconnects, closes   *)
(* and late handlers; a session would otherwise read or fail over twice.   *)
HandledOnce == \A x \in Exchanges : ex[x].calls <= 1 /\ (ex[x].phase \in {"reading", "tunnel", "done"} => ex[x].calls = 1)

(* "Every completion holds the exchange, so the transport outlives the     *)
(* operations started on it": no transport goes while one of its handlers, *)
(* which hold a bare pointer to it, is still to run.                       *)
KeepsHandled ==
  \A t \in Transports : tr[t].ops # {} => tr'[t].tracked

(* Every send is answered.                                                 *)
SendsAnswered == \A x \in Exchanges : ex[x].phase \in {"connecting", "writing"} ~> ex[x].phase \notin {"connecting", "writing"}

(* The DNS settles; then in the end nothing that can still be used for a   *)
(* request, and no tunnel, leads to an address the name no longer has.     *)
FollowsDns ==
  <>[](\A t \in Transports : (Connected(tr[t]) \/ (tr[t].tunnel /\ tr[t].connected)) => tr[t].addr = dns)
=============================================================================
