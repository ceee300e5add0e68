--------------------------- MODULE NodeProjection ---------------------------
(***************************************************************************)
(* The node channel's Redis projection                                     *)
(* (src/service/features/node_channel/projection.h and store.h): every     *)
(* node's credentials, desired state and objects, copied from PostgreSQL   *)
(* by whichever worker claims the outbox or repairs Redis, and read by the *)
(* connections, which never query the database.                            *)
(*                                                                         *)
(* A row's `version' stands for everything the projection carries; it      *)
(* grows with every committed change.  Refreshers hold the row lock from   *)
(* their read to the end of their transaction.  One tenant.                *)
(***************************************************************************)
EXTENDS Naturals, FiniteSets

CONSTANTS Nodes,        \* bound: nodes 1..Nodes, refreshed in this order
          Refresher,    \* workers
          MaxVersion,   \* bound: committed changes
          MaxPasses,    \* bound: refreshes started
          MaxFaults     \* bound: failed refreshes and lost keys

ASSUME ProjectionAssumption ==
    /\ Nodes \in Nat \ {0} /\ MaxVersion \in Nat /\ MaxPasses \in Nat
    /\ MaxFaults \in Nat /\ "none" \notin Refresher

Node == 1..Nodes
Agent == 1..MaxVersion

VARIABLES
    rows,        \* sys_node
    version,     \* committed changes so far
    locks,       \* row locks held by refreshers
    notices,     \* outbox rows that no claim holds
    agents,      \* agent hashes: [node, version, token], node 0 when absent
    index,       \* node hashes: [agent, token], agent 0 when absent
    identities,  \* agent -> node, 0 when absent
    members,     \* tenant's node set
    ready, repair, cooldown,
    starting,    \* workers that have not completed a full pass yet
    refreshers,
    tokens, passes, faults,
    losses, healed   \* ghost: keys lost, and lost before the last full pass

vars == <<rows, version, locks, notices, agents, index, identities, members, ready,
          repair, cooldown, starting, refreshers, tokens, passes, faults, losses, healed>>

Database == <<rows, version, notices>>
Redis == <<agents, index, identities, members>>
Repair == <<ready, repair, cooldown, starting>>

----------------------------------------------------------------------------

NoRow == [state |-> "missing", agent |-> 0, version |-> 0]
NoAgent == [node |-> 0, version |-> 0, token |-> 0]
NoIndex == [agent |-> 0, token |-> 0]
Free == [pc |-> "idle", mode |-> "none", todo |-> {}, node |-> 0, token |-> 0,
         row |-> NoRow, generation |-> 0, losses |-> 0]

Init ==
    /\ rows = [n \in Node |-> NoRow]
    /\ version = 0 /\ notices = FALSE
    /\ locks = [n \in Node |-> "none"]
    /\ agents = [a \in Agent |-> NoAgent]
    /\ index = [n \in Node |-> NoIndex]
    /\ identities = [a \in Agent |-> 0]
    /\ members = {}
    /\ ready = 0 /\ repair = 0 /\ cooldown = FALSE /\ starting = Refresher
    /\ refreshers = [r \in Refresher |-> Free]
    /\ tokens = 0 /\ passes = 0 /\ faults = 0 /\ losses = 0 /\ healed = 0

Live(row) == row.state \in {"pending", "registered"}

----------------------------------------------------------------------------
(* Source transactions: they wait for the row lock and leave a notice.     *)

Changed(row, v) ==
    {[row EXCEPT !.version = v, !.state = "registered"] : x \in IF Live(row) THEN {1} ELSE {}}
    \cup {[row EXCEPT !.version = v, !.agent = v, !.state = "pending"] :
            x \in IF Live(row) \/ row.state = "missing" THEN {1} ELSE {}}
    \cup {[row EXCEPT !.version = v, !.state = "deleted"] : x \in IF Live(row) THEN {1} ELSE {}}
    \cup {NoRow : x \in IF row.state = "deleted" THEN {1} ELSE {}}

\* A node is created, registered, given a new release, rotated or deleted.
Change(n) ==
    /\ version < MaxVersion /\ locks[n] = "none"
    /\ version' = version + 1
    /\ \E row \in Changed(rows[n], version + 1) : rows' = [rows EXCEPT ![n] = row]
    /\ notices' = TRUE
    /\ UNCHANGED <<locks, Redis, Repair, refreshers, tokens, passes, faults, losses, healed>>

----------------------------------------------------------------------------
(* refresh: the nodes of the tables and of the index, in order.            *)

Listed == {n \in Node : rows[n].state # "missing"} \cup members

Begin(r, mode, generation) ==
    /\ passes < MaxPasses
    /\ passes' = passes + 1
    /\ refreshers' = [refreshers EXCEPT ![r] =
         [Free EXCEPT !.pc = "next", !.mode = mode, !.todo = Listed,
                      !.generation = generation, !.losses = losses]]

\* projection_refresh::prepare, in the outbox's claim transaction.
Claim(r) ==
    /\ refreshers[r].pc = "idle" /\ notices
    /\ \A o \in Refresher : refreshers[o].mode # "event"
    /\ notices' = FALSE
    /\ Begin(r, "event", 0)
    /\ UNCHANGED <<rows, version, locks, Redis, Repair, tokens, faults, losses, healed>>

\* run_projection: a full pass when the worker starts, until one of its own
\* completes, and whenever the two keys differ.
RunProjection(r) ==
    /\ refreshers[r].pc = "idle"
    /\ r \in starting \/ ready = 0 \/ ready # repair
    /\ LET generation == IF repair = 0 THEN passes + 1 ELSE repair
       IN  /\ repair' = generation
           /\ Begin(r, "full", generation)
    /\ UNCHANGED <<Database, locks, Redis, ready, cooldown, starting, tokens, faults, losses, healed>>

----------------------------------------------------------------------------
(* refresh_node.                                                           *)

At(r, pc) == refreshers[r].pc = pc
Set(r, value) == refreshers' = [refreshers EXCEPT ![r] = value]

\* The Redis version first: a missing row cannot be locked.
ReadToken(r) ==
    /\ At(r, "next")
    /\ \E n \in refreshers[r].todo :
         /\ \A o \in refreshers[r].todo : n <= o
         /\ Set(r, [refreshers[r] EXCEPT !.pc = "lock", !.node = n, !.token = index[n].token])
    /\ UNCHANGED <<Database, locks, Redis, Repair, tokens, passes, faults, losses, healed>>

\* Mutant: the row is read without a lock.
LockRowUnlocked(r) ==
    /\ At(r, "lock")
    /\ Set(r, [refreshers[r] EXCEPT !.pc = "write", !.row = rows[refreshers[r].node]])
    /\ UNCHANGED <<Database, locks, Redis, Repair, tokens, passes, faults, losses, healed>>

\* SELECT ... FOR UPDATE.
LockRow(r) ==
    /\ At(r, "lock")
    /\ LET n == refreshers[r].node
       IN  /\ rows[n].state # "missing" => locks[n] \in {"none", r}
           /\ locks' = IF rows[n].state = "missing" THEN locks ELSE [locks EXCEPT ![n] = r]
           /\ Set(r, [refreshers[r] EXCEPT !.pc = "write", !.row = rows[n]])
    /\ UNCHANGED <<Database, Redis, Repair, tokens, passes, faults, losses, healed>>

\* The previous agent's record and binding go with it, if they are n's.
Without(n, agent, keep) ==
    /\ agents' = [a \in Agent |->
                    IF a = keep.agent THEN keep.record
                    ELSE IF a = agent /\ agents[a].node = n THEN NoAgent
                    ELSE agents[a]]
    /\ identities' = [a \in Agent |->
                        IF a = keep.agent THEN n
                        ELSE IF a = agent /\ identities[a] = n THEN 0
                        ELSE identities[a]]

\* write_script: cleanup of a missing row is conditional on the version read.
MayWrite(r) ==
    LET f == refreshers[r]
    IN  f.row.state = "missing" => index[f.node].token = f.token

\* Mutant: a rotated agent's record is left behind.
WriteKeepsOld(r) ==
    /\ At(r, "write")
    /\ LET f == refreshers[r]
           n == f.node
       IN  /\ IF Live(f.row)
              THEN /\ agents' = [agents EXCEPT ![f.row.agent] =
                         [node |-> n, version |-> f.row.version, token |-> tokens + 1]]
                   /\ identities' = [identities EXCEPT ![f.row.agent] = n]
                   /\ index' = [index EXCEPT ![n] = [agent |-> f.row.agent, token |-> tokens + 1]]
                   /\ members' = members \cup {n}
              ELSE /\ index' = [index EXCEPT ![n] = NoIndex]
                   /\ members' = members \ {n}
                   /\ UNCHANGED <<agents, identities>>
           /\ tokens' = tokens + 1
           /\ locks' = IF f.mode = "full" /\ locks[n] = r THEN [locks EXCEPT ![n] = "none"] ELSE locks
           /\ Set(r, [f EXCEPT !.pc = "next", !.todo = @ \ {n}, !.node = 0, !.token = 0, !.row = NoRow])
    /\ UNCHANGED <<Database, Repair, passes, faults, losses, healed>>

\* What the row is projected to: nothing for a node that is gone, else its
\* agent's credentials with, once registered, the release it should run.
Projected(f) ==
    IF Live(f.row)
    THEN [agent |-> f.row.agent,
          record |-> [node |-> f.node, version |-> f.row.version, token |-> tokens + 1]]
    ELSE [agent |-> 0, record |-> NoAgent]

\* write: one script, still under the row lock; a full pass commits after it.
Write(r) ==
    /\ At(r, "write")
    /\ LET f == refreshers[r]
           n == f.node
           keep == Projected(f)
       IN  /\ IF MayWrite(r)
              THEN /\ Without(n, index[n].agent, keep)
                   /\ index' = [index EXCEPT ![n] =
                         IF keep.agent = 0 THEN NoIndex
                         ELSE [agent |-> keep.agent, token |-> tokens + 1]]
                   /\ members' = IF keep.agent = 0 THEN members \ {n} ELSE members \cup {n}
                   /\ tokens' = tokens + 1
              ELSE UNCHANGED <<Redis, tokens>>
           /\ locks' = IF f.mode = "full" /\ locks[n] = r THEN [locks EXCEPT ![n] = "none"] ELSE locks
           /\ Set(r, [f EXCEPT !.pc = "next", !.todo = @ \ {n}, !.node = 0, !.token = 0, !.row = NoRow])
    /\ UNCHANGED <<Database, Repair, passes, faults, losses, healed>>

Released(r) == [n \in Node |-> IF locks[n] = r THEN "none" ELSE locks[n]]

\* The claim transaction commits and removes the rows it refreshed for.
Commit(r) ==
    /\ At(r, "next") /\ refreshers[r].todo = {} /\ refreshers[r].mode = "event"
    /\ locks' = Released(r)
    /\ Set(r, Free)
    /\ UNCHANGED <<Database, Redis, Repair, tokens, passes, faults, losses, healed>>

----------------------------------------------------------------------------
(* prune_orphan_agents and the end of a repair.                            *)

Prune(r) ==
    /\ At(r, "next") /\ refreshers[r].todo = {} /\ refreshers[r].mode = "full"
    /\ Set(r, [refreshers[r] EXCEPT !.pc = "identities",
                 !.todo = {a \in Agent : identities[a] # 0}])
    /\ UNCHANGED <<Database, locks, Redis, Repair, tokens, passes, faults, losses, healed>>

Owns(n, a) == Live(rows[n]) /\ rows[n].agent = a

\* A binding whose row names another agent goes, with the record it names.
PruneIdentity(r, a) ==
    /\ At(r, "identities") /\ a \in refreshers[r].todo
    /\ LET n == identities[a]
       IN  /\ n # 0 => locks[n] = "none"
           /\ IF n # 0 /\ ~Owns(n, a)
              THEN /\ identities' = [identities EXCEPT ![a] = 0]
                   /\ agents' = IF agents[a].node \in {0, n}
                                THEN [agents EXCEPT ![a] = NoAgent] ELSE agents
              ELSE UNCHANGED <<identities, agents>>
    /\ Set(r, [refreshers[r] EXCEPT !.todo = @ \ {a}])
    /\ UNCHANGED <<Database, locks, index, members, Repair, tokens, passes, faults, losses, healed>>

ScanAgents(r) ==
    /\ At(r, "identities") /\ refreshers[r].todo = {}
    /\ Set(r, [refreshers[r] EXCEPT !.pc = "agents", !.todo = {a \in Agent : agents[a].node # 0}])
    /\ UNCHANGED <<Database, locks, Redis, Repair, tokens, passes, faults, losses, healed>>

\* The record is inspected first, its row is locked afterwards.
InspectAgent(r, a) ==
    /\ At(r, "agents") /\ refreshers[r].node = 0 /\ a \in refreshers[r].todo
    /\ Set(r, IF agents[a].node = 0 THEN [refreshers[r] EXCEPT !.todo = @ \ {a}]
              ELSE [refreshers[r] EXCEPT !.node = agents[a].node, !.token = agents[a].token,
                                         !.todo = @ \ {a}, !.row = [NoRow EXCEPT !.agent = a]])
    /\ UNCHANGED <<Database, locks, Redis, Repair, tokens, passes, faults, losses, healed>>

\* Removed only as it was inspected (projection_token).
PruneAgent(r) ==
    /\ At(r, "agents") /\ refreshers[r].node # 0
    /\ LET n == refreshers[r].node
           a == refreshers[r].row.agent
       IN  /\ rows[n].state # "missing" => locks[n] = "none"
           /\ agents' = IF ~Owns(n, a) /\ agents[a].token = refreshers[r].token
                        THEN [agents EXCEPT ![a] = NoAgent] ELSE agents
    /\ Set(r, [refreshers[r] EXCEPT !.node = 0, !.token = 0, !.row = NoRow])
    /\ UNCHANGED <<Database, locks, index, identities, members, Repair, tokens, passes, faults, losses, healed>>

\* complete_repair: only the generation this pass began with.
CompleteRepair(r) ==
    /\ At(r, "agents") /\ refreshers[r].todo = {} /\ refreshers[r].node = 0
    /\ ready' = IF repair = refreshers[r].generation THEN repair ELSE ready
    /\ starting' = starting \ {r}
    /\ healed' = IF refreshers[r].losses > healed THEN refreshers[r].losses ELSE healed
    /\ Set(r, Free)
    /\ UNCHANGED <<Database, locks, Redis, repair, cooldown, tokens, passes, faults, losses>>

----------------------------------------------------------------------------
(* store.h: a connection that cannot read its record asks for a repair.    *)

Readable(a) == agents[a].node # 0

\* request_repair: a bound agent, not while a repair runs, and not again
\* within the cooldown.
RequestRepair(a) ==
    /\ ~Readable(a) /\ identities[a] # 0
    /\ ~(ready = 0 /\ repair # 0)
    /\ ~cooldown /\ passes < MaxPasses
    /\ repair' = MaxPasses + 1 + passes
    /\ ready' = 0 /\ cooldown' = TRUE
    /\ UNCHANGED <<Database, locks, Redis, starting, refreshers, tokens, passes, faults, losses, healed>>

CooldownEnds ==
    /\ cooldown
    /\ cooldown' = FALSE
    /\ UNCHANGED <<Database, locks, Redis, ready, repair, starting, refreshers, tokens, passes, faults, losses, healed>>

----------------------------------------------------------------------------
(* Faults.                                                                 *)

\* A refresh fails: its transaction rolls back, its outbox rows stay.
Fail(r) ==
    /\ faults < MaxFaults /\ ~At(r, "idle")
    /\ faults' = faults + 1
    /\ locks' = Released(r)
    /\ notices' = (notices \/ refreshers[r].mode = "event")
    /\ Set(r, Free)
    /\ UNCHANGED <<rows, version, Redis, Repair, tokens, passes, losses, healed>>

\* Redis loses keys one by one, or everything.
Lose ==
    /\ faults < MaxFaults
    /\ faults' = faults + 1 /\ losses' = losses + 1
    /\ \/ \E a \in Agent : agents[a] # NoAgent
            /\ agents' = [agents EXCEPT ![a] = NoAgent]
            /\ UNCHANGED <<index, identities, members, Repair>>
       \/ \E n \in Node : index[n] # NoIndex
            /\ index' = [index EXCEPT ![n] = NoIndex]
            /\ UNCHANGED <<agents, identities, members, Repair>>
       \/ \E a \in Agent : identities[a] # 0
            /\ identities' = [identities EXCEPT ![a] = 0]
            /\ UNCHANGED <<agents, index, members, Repair>>
       \/ /\ agents' = [a \in Agent |-> NoAgent]
          /\ index' = [n \in Node |-> NoIndex]
          /\ identities' = [a \in Agent |-> 0]
          /\ members' = {}
          /\ ready' = 0 /\ repair' = 0 /\ cooldown' = FALSE /\ UNCHANGED starting
    /\ UNCHANGED <<Database, locks, refreshers, tokens, passes, healed>>

Refresh(r) ==
    \/ Claim(r) \/ RunProjection(r) \/ ReadToken(r) \/ LockRow(r) \/ Write(r) \/ Commit(r)
    \/ Prune(r) \/ ScanAgents(r) \/ PruneAgent(r) \/ CompleteRepair(r)
    \/ \E a \in Agent : PruneIdentity(r, a) \/ InspectAgent(r, a)

Next ==
    \/ \E n \in Node : Change(n)
    \/ \E r \in Refresher : Refresh(r) \/ Fail(r)
    \/ \E a \in Agent : RequestRepair(a)
    \/ CooldownEnds \/ Lose

Spec == Init /\ [][Next]_vars

(* Workers run their loops every few seconds and connections come back.    *)
Fairness ==
    /\ \A r \in Refresher : WF_vars(Refresh(r))
    /\ \A a \in Agent : WF_vars(RequestRepair(a))
    /\ WF_vars(CooldownEnds)
LiveSpec == Spec /\ Fairness

----------------------------------------------------------------------------
(* Properties.                                                             *)

Row == [state : {"missing", "pending", "registered", "deleted"}, agent : 0..MaxVersion, version : 0..MaxVersion]

Record == [node : 0..Nodes, version : 0..MaxVersion, token : Nat]

Entry == [agent : 0..MaxVersion, token : Nat]

Pass == [pc : {"idle", "next", "lock", "write", "identities", "agents"}, mode : {"none", "event", "full"},
         todo : SUBSET Nat, node : 0..Nodes, token : Nat, row : Row, generation : Nat, losses : Nat]

TypeOK ==
    /\ rows \in [Node -> Row] /\ version \in 0..MaxVersion
    /\ locks \in [Node -> Refresher \cup {"none"}]
    /\ agents \in [Agent -> Record]
    /\ index \in [Node -> Entry]
    /\ identities \in [Agent -> 0..Nodes] /\ members \subseteq Node
    /\ refreshers \in [Refresher -> Pass] /\ starting \subseteq Refresher
    /\ tokens \in Nat /\ passes \in Nat /\ repair \in Nat /\ losses \in Nat

Quiet ==
    /\ ~notices /\ healed = losses
    /\ \A r \in Refresher : At(r, "idle")

(* Once every change is claimed and every loss followed by a full pass,    *)
(* the projection is exactly the database: each live node readable under   *)
(* its agent, with its index and binding, and no revoked agent readable.   *)
SettledAgrees ==
    Quiet =>
        /\ \A n \in Node : Live(rows[n]) =>
             /\ agents[rows[n].agent].node = n
             /\ agents[rows[n].agent].version = rows[n].version
             /\ index[n].agent = rows[n].agent
             /\ identities[rows[n].agent] = n /\ n \in members
        /\ \A a \in Agent : agents[a].node # 0 \/ identities[a] # 0 =>
             \E n \in Node : Owns(n, a)

(* A newer projection is never overwritten by an older reader: the row     *)
(* lock is held across the Redis write (refresh_node).                     *)
NeverOlder ==
    [][\A a \in Agent :
         agents[a].node # 0 /\ agents'[a].node # 0 => agents'[a].version >= agents[a].version]_vars

(* A node that is not being refreshed is not removed by a refresh: what    *)
(* disappears was deleted, rotated or lost (conditional cleanup).          *)
OnlyObsoleteRemoved ==
    [][\A n \in Node :
         /\ Live(rows[n]) /\ losses' = losses
         /\ agents[rows[n].agent].node = n
         => agents'[rows[n].agent].node = n]_vars

(* A current agent whose record was lost becomes readable again: its       *)
(* connections' requests lead to a full pass, or another change does.      *)
LostIsRepaired ==
    \A n \in Node : \A a \in Agent :
        (Owns(n, a) /\ ~Readable(a) /\ identities[a] # 0 /\ passes + 3 < MaxPasses)
            ~> (~Owns(n, a) \/ Readable(a) \/ passes + 3 >= MaxPasses)
=============================================================================
