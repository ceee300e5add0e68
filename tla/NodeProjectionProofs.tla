------------------------ MODULE NodeProjectionProofs ------------------------
(***************************************************************************)
(* Proofs about the node projection, for any number of nodes, refreshers   *)
(* and changes: a record is never replaced by an older one, no refresh     *)
(* removes the record of an agent that a row still names, and once every   *)
(* change is claimed and every loss repaired the projection is the tables. *)
(* And about presence, which follows the heartbeats the same channel       *)
(* brings.                                                                 *)
(***************************************************************************)
EXTENDS NodeProjection, NodePresence, TLAPS

(* Proof of NeverOlder.  The row lock that LockRow takes is still held     *)
(* when Write runs, so what is written is the row as it is; and a record   *)
(* of an agent is never newer than the row that names the agent.           *)

Current(r) ==
    LET f == refreshers[r]
    IN  /\ f.pc \in {"next", "lock", "write"} => f.todo \subseteq Node
        /\ f.pc \in {"lock", "write"} => f.node \in Node
        /\ f.pc = "write" /\ f.row.state # "missing" =>
              f.row = rows[f.node] /\ locks[f.node] = r

(* What a refresher is about to write is the row it has locked.            *)
WriteIsCurrent ==
    \A r \in Refresher : Current(r)

(* Agents are numbered by the change that created them, so no two nodes    *)
(* have one agent and a new agent has no record.                           *)
AgentsAreNew ==
    /\ \A n \in Node : rows[n].agent <= version /\ rows[n].version <= version
    /\ \A n \in Node : Live(rows[n]) => rows[n].agent # 0
    /\ \A m, n \in Node : rows[m].agent = rows[n].agent /\ rows[m].agent # 0 => m = n
    /\ \A a \in Agent : agents[a].node # 0 => a <= version

RecordsAreOld ==
    \A a \in Agent, n \in Node :
        agents[a].node # 0 /\ rows[n].agent = a => agents[a].version <= rows[n].version

ProjectionInv == TypeOK /\ WriteIsCurrent /\ AgentsAreNew /\ RecordsAreOld

(* Empty tables and an empty Redis satisfy the invariant.                  *)
LEMMA ProjectionInit == Init => ProjectionInv
BY ProjectionAssumption DEF Init, ProjectionInv, TypeOK, WriteIsCurrent, Current, AgentsAreNew, RecordsAreOld, Row,
   Record, Entry, Pass, NoRow, NoAgent, NoIndex, Free, Live

(* The idle refresher and the missing row are typed.                       *)
LEMMA FreeTyped == Free \in Pass /\ NoRow \in Row
BY ProjectionAssumption DEF Free, Pass, Row, NoRow

\* The steps of a refresh.
PassPcs == {"idle", "next", "lock", "write", "identities", "agents"}

(* ReadToken: the node and the token read for it.                          *)
LEMMA EditRead ==
  ASSUME NEW f \in Pass, NEW n \in 0..Nodes, NEW v \in Nat
  PROVE  [f EXCEPT !.pc = "lock", !.node = n, !.token = v] \in Pass
BY DEF Pass

(* LockRow: the row read under its lock.                                   *)
LEMMA EditLock ==
  ASSUME NEW f \in Pass, NEW row \in Row
  PROVE  [f EXCEPT !.pc = "write", !.row = row] \in Pass
BY DEF Pass

(* Write: the node is done and its row is let go.                          *)
LEMMA EditWritten ==
  ASSUME NEW f \in Pass, NEW x
  PROVE  [f EXCEPT !.pc = "next", !.todo = @ \ {x}, !.node = 0, !.token = 0, !.row = NoRow] \in Pass
<1>1. NoRow \in Row /\ 0 \in 0..Nodes BY ProjectionAssumption, FreeTyped
<1> HIDE DEF NoRow
<1> QED BY <1>1 DEF Pass

(* Prune and ScanAgents: the agents to inspect.                            *)
LEMMA EditScan ==
  ASSUME NEW f \in Pass, NEW k \in PassPcs, NEW t, t \subseteq Agent
  PROVE  [f EXCEPT !.pc = k, !.todo = t] \in Pass
<1>1. t \in SUBSET Nat BY ProjectionAssumption DEF Agent
<1> QED BY <1>1 DEF Pass, PassPcs

(* InspectAgent: the agent whose row is to be locked.                      *)
LEMMA EditAgent ==
  ASSUME NEW a \in Agent
  PROVE  [NoRow EXCEPT !.agent = a] \in Row
<1>1. NoRow \in Row /\ a \in 0..MaxVersion BY ProjectionAssumption, FreeTyped DEF Agent
<1> QED BY <1>1 DEF Row

(* One agent of a scan is done.                                            *)
LEMMA EditDone ==
  ASSUME NEW f \in Pass, NEW x
  PROVE  [f EXCEPT !.todo = @ \ {x}] \in Pass
BY DEF Pass

(* InspectAgent: the node and the token of the record.                     *)
LEMMA EditInspect ==
  ASSUME NEW f \in Pass, NEW n \in 0..Nodes, NEW v \in Nat, NEW x, NEW row \in Row
  PROVE  [f EXCEPT !.node = n, !.token = v, !.todo = @ \ {x}, !.row = row] \in Pass
BY DEF Pass

(* PruneAgent: the inspected record is let go.                             *)
LEMMA EditPruned ==
  ASSUME NEW f \in Pass
  PROVE  [f EXCEPT !.node = 0, !.token = 0, !.row = NoRow] \in Pass
<1>1. NoRow \in Row /\ 0 \in 0..Nodes BY ProjectionAssumption, FreeTyped
<1> QED BY <1>1 DEF Pass

(* The fields of a refresher's record.                                     *)
LEMMA PassFields ==
  ASSUME NEW f \in Pass
  PROVE  f.todo \in SUBSET Nat /\ f.node \in 0..Nodes /\ f.row \in Row /\ f.token \in Nat /\ f.losses \in Nat
BY DEF Pass

(* The numbers in a row.                                                   *)
LEMMA RowFields ==
  ASSUME NEW row \in Row
  PROVE  row.agent \in 0..MaxVersion /\ row.version \in 0..MaxVersion
BY DEF Row

(* Begin: a new pass over the listed nodes.                                *)
LEMMA BegunTyped ==
  ASSUME NEW mode \in {"event", "full"}, NEW todo, todo \subseteq Node, NEW g \in Nat, NEW l \in Nat
  PROVE  [Free EXCEPT !.pc = "next", !.mode = mode, !.todo = todo, !.generation = g, !.losses = l] \in Pass
<1>1. Free \in Pass BY FreeTyped
<1>2. todo \in SUBSET Nat BY ProjectionAssumption DEF Node
<1> QED BY <1>1, <1>2 DEF Pass

(* A change gives a row the new version, and a new agent only its number.  *)
LEMMA ChangedTyped ==
  ASSUME NEW row \in Row, NEW v \in 0..MaxVersion, NEW new \in Changed(row, v)
  PROVE  /\ new \in Row
         /\ new.agent = 0 \/ new.version = v
         /\ new.version \in {0, v}
         /\ new.agent \in {0, v, row.agent}
         /\ new.state = "missing" => new.agent = 0
         /\ Live(new) => \/ new.agent = v
                         \/ Live(row) /\ new.agent = row.agent
<1>1. CASE new = [row EXCEPT !.version = v, !.state = "registered"] /\ Live(row)
  BY <1>1 DEF Row, Live
<1>2. CASE new = [row EXCEPT !.version = v, !.agent = v, !.state = "pending"]
  BY <1>2 DEF Row, Live
<1>3. CASE new = [row EXCEPT !.version = v, !.state = "deleted"] /\ Live(row)
  BY <1>3 DEF Row, Live
<1>4. CASE new = NoRow BY <1>4, FreeTyped DEF NoRow, Live
<1> QED BY <1>1, <1>2, <1>3, <1>4 DEF Changed

(* Every action keeps the types; a refresh stays inside the nodes it listed. *)
LEMMA TypeStep ==
  ASSUME TypeOK, WriteIsCurrent, [Next]_vars
  PROVE  TypeOK'
<1> USE ProjectionAssumption DEF TypeOK, Database, Redis, Repair
<1>1. CASE \E n \in Node : Change(n)
  <2>1. PICK n \in Node : Change(n) BY <1>1
  <2>2. version + 1 \in 0..MaxVersion BY <2>1 DEF Change
  <2>3. PICK row \in Changed(rows[n], version + 1) : rows' = [rows EXCEPT ![n] = row]
    BY <2>1 DEF Change
  <2>4. row \in Row BY <2>2, <2>3, ChangedTyped
  <2> QED BY <2>1, <2>2, <2>3, <2>4 DEF Change
<1>2. ASSUME NEW r \in Refresher, Refresh(r) \/ Fail(r)
      PROVE  TypeOK'
  <2> DEFINE f == refreshers[r]
  <2>0. f \in Pass OBVIOUS
  <2>f. f.todo \in SUBSET Nat /\ f.node \in 0..Nodes /\ f.row \in Row /\ f.token \in Nat /\ f.losses \in Nat
    BY <2>0, PassFields
  <2>n. /\ f.pc \in {"next", "lock", "write"} => f.todo \subseteq Node
        /\ f.pc \in {"lock", "write"} => f.node \in Node
    BY DEF WriteIsCurrent, Current
  <2>l. Listed \subseteq Node BY DEF Listed
  <2>a. NoAgent \in Record BY DEF NoAgent, Record
  <2> HIDE DEF f
  <2>1. CASE Claim(r)
    <3>1. refreshers' \in [Refresher -> Pass] BY <2>1, <2>l, BegunTyped DEF Claim, Begin
    <3> QED BY <2>1, <3>1 DEF Claim, Begin
  <2>2. CASE RunProjection(r)
    <3>0. PICK g \in Nat : repair' = g /\ Begin(r, "full", g) BY <2>2 DEF RunProjection
    <3>1. refreshers' \in [Refresher -> Pass] BY <2>l, <3>0, BegunTyped DEF Begin
    <3> QED BY <2>2, <3>0, <3>1 DEF RunProjection, Begin
  <2>3. CASE ReadToken(r)
    <3>1. PICK n \in f.todo : refreshers' = [refreshers EXCEPT ![r] =
              [f EXCEPT !.pc = "lock", !.node = n, !.token = index[n].token]]
      BY <2>3 DEF ReadToken, Set, f
    <3>2. n \in Node BY <2>3, <2>n DEF ReadToken, At, f
    <3>3. index[n].token \in Nat /\ n \in 0..Nodes BY <3>2 DEF Node, Entry
    <3>4. refreshers' \in [Refresher -> Pass] BY <2>0, <3>1, <3>3, EditRead
    <3> QED BY <2>3, <3>4 DEF ReadToken
  <2>4. CASE LockRow(r)
    <3>1. f.node \in Node BY <2>4, <2>n DEF LockRow, At, f
    <3>2. rows[f.node] \in Row BY <3>1
    <3>3. [f EXCEPT !.pc = "write", !.row = rows[f.node]] \in Pass BY <2>0, <3>2, EditLock
    <3> QED BY <2>4, <3>1, <3>3 DEF LockRow, Set, f
  <2>5. CASE Write(r)
    <3>1. f.node \in Node BY <2>5, <2>n DEF Write, At, f
    <3>2. refreshers' \in [Refresher -> Pass]
      <4>1. [f EXCEPT !.pc = "next", !.todo = @ \ {f.node}, !.node = 0, !.token = 0, !.row = NoRow] \in Pass
        BY <2>0, EditWritten
      <4> QED BY <2>5, <4>1 DEF Write, Set, f
    <3>3. /\ f.row.agent \in 0..MaxVersion /\ f.row.version \in 0..MaxVersion
      BY <2>f, RowFields
    <3>4. /\ locks' \in [Node -> Refresher \cup {"none"}]
          /\ index' \in [Node -> Entry]
          /\ members' \subseteq Node
      <4>1. locks' \in [Node -> Refresher \cup {"none"}] /\ members' \subseteq Node
        BY <2>5, <3>1 DEF Write, f
      <4>2. Projected(f).agent \in 0..MaxVersion BY <3>3 DEF Projected
      <4>3. index' = index \/ (\E e \in Entry : index' = [index EXCEPT ![f.node] = e])
        BY <2>5, <4>2 DEF Write, NoIndex, Entry, f
      <4> QED BY <3>1, <4>1, <4>3
    <3>5. /\ agents' \in [Agent -> Record]
          /\ identities' \in [Agent -> 0..Nodes]
      <4>1. CASE MayWrite(r)
        <5> DEFINE keep == Projected(f)
        <5>1. keep.record \in Record BY <3>1, <3>3, <2>a DEF Projected, Record, Node
        <5>2. f.node \in 0..Nodes BY <3>1 DEF Node
        <5>3. Without(f.node, index[f.node].agent, keep) BY <2>5, <4>1 DEF Write, f
        <5> HIDE DEF keep
        <5> QED BY <2>a, <5>1, <5>2, <5>3 DEF Without
      <4>2. CASE ~MayWrite(r) BY <2>5, <4>2 DEF Write
      <4> QED BY <4>1, <4>2
    <3> QED BY <2>5, <3>2, <3>4, <3>5 DEF Write
  <2>6. CASE Commit(r)
    BY <2>6, FreeTyped DEF Commit, Set, Released
  <2>7. CASE Prune(r)
    <3>1. [f EXCEPT !.pc = "identities", !.todo = {a \in Agent : identities[a] # 0}] \in Pass
      BY <2>0, EditScan DEF PassPcs
    <3> QED BY <2>7, <3>1 DEF Prune, Set, f
  <2>8. CASE ScanAgents(r)
    <3>1. [f EXCEPT !.pc = "agents", !.todo = {a \in Agent : agents[a].node # 0}] \in Pass
      BY <2>0, EditScan DEF PassPcs
    <3> QED BY <2>8, <3>1 DEF ScanAgents, Set, f
  <2>9. CASE PruneAgent(r)
    <3>1. [f EXCEPT !.node = 0, !.token = 0, !.row = NoRow] \in Pass
      BY <2>0, EditPruned
    <3>2. agents' \in [Agent -> Record] BY <2>9, <2>a DEF PruneAgent
    <3> QED BY <2>9, <3>1, <3>2 DEF PruneAgent, Set, f
  <2>10. CASE CompleteRepair(r)
    BY <2>10, FreeTyped DEF CompleteRepair, Set
  <2>11. ASSUME NEW a \in Agent, PruneIdentity(r, a) PROVE TypeOK'
    <3>1. [f EXCEPT !.todo = @ \ {a}] \in Pass BY <2>0, EditDone
    <3>2. agents' \in [Agent -> Record] BY <2>11, <2>a DEF PruneIdentity
    <3> QED BY <2>11, <3>1, <3>2 DEF PruneIdentity, Set, f
  <2>12. ASSUME NEW a \in Agent, InspectAgent(r, a) PROVE TypeOK'
    <3>1. agents[a].node \in 0..Nodes /\ agents[a].token \in Nat BY DEF Record
    <3>2. [NoRow EXCEPT !.agent = a] \in Row BY EditAgent
    <3>3. /\ [f EXCEPT !.todo = @ \ {a}] \in Pass
          /\ [f EXCEPT !.node = agents[a].node, !.token = agents[a].token,
                       !.todo = @ \ {a}, !.row = [NoRow EXCEPT !.agent = a]] \in Pass
      BY <2>0, <3>1, <3>2, EditDone, EditInspect
    <3> QED BY <2>12, <3>3 DEF InspectAgent, Set, f
  <2>13. CASE Fail(r)
    BY <2>13, FreeTyped DEF Fail, Set, Released
  <2> QED BY <1>2, <2>1, <2>2, <2>3, <2>4, <2>5, <2>6, <2>7, <2>8, <2>9, <2>10, <2>11, <2>12, <2>13 DEF Refresh
<1>3. ASSUME NEW a \in Agent, RequestRepair(a) PROVE TypeOK'
  BY <1>3 DEF RequestRepair
<1>4. CASE CooldownEnds BY <1>4 DEF CooldownEnds
<1>5. CASE Lose
  <2>1. NoAgent \in Record BY DEF NoAgent, Record
  <2>2. NoIndex \in Entry BY DEF NoIndex, Entry
  <2> QED BY <1>5, <2>1, <2>2 DEF Lose
<1>6. CASE UNCHANGED vars BY <1>6 DEF vars
<1> QED BY <1>1, <1>2, <1>3, <1>4, <1>5, <1>6 DEF Next

(* Row locks keep what a refresher read current until it has written it.   *)
LEMMA CurrentStep ==
  ASSUME TypeOK, WriteIsCurrent, [Next]_vars
  PROVE  WriteIsCurrent'
<1> USE ProjectionAssumption DEF TypeOK, Database, Redis, Repair
<1>1. ASSUME NEW n \in Node, Change(n) PROVE WriteIsCurrent'
  BY <1>1 DEF Change, WriteIsCurrent, Current
<1>2. ASSUME NEW r \in Refresher, Refresh(r) \/ Fail(r), NEW o \in Refresher
      PROVE  Current(o)'
  <2>1. Current(o) /\ Current(r) BY DEF WriteIsCurrent
  <2>2. rows' = rows
    BY <1>2 DEF Refresh, Claim, RunProjection, ReadToken, LockRow, Write, Commit, Prune, ScanAgents, PruneAgent,
       CompleteRepair, PruneIdentity, InspectAgent, Fail
  <2>3. /\ refreshers' = [refreshers EXCEPT ![r] = refreshers'[r]]
        /\ \A n \in Node : locks'[n] = locks[n] \/ (locks[n] \in {"none", r} /\ locks'[n] \in {"none", r})
    <3>1. CASE Claim(r) \/ RunProjection(r) BY <3>1 DEF Claim, RunProjection, Begin
    <3>2. CASE ReadToken(r) BY <3>2 DEF ReadToken, Set
    <3>3. CASE LockRow(r) BY <3>3 DEF LockRow, Set
    <3>4. CASE Write(r) BY <3>4 DEF Write, Set
    <3>5. CASE Commit(r) BY <3>5 DEF Commit, Set, Released
    <3>6. CASE Prune(r) BY <3>6 DEF Prune, Set
    <3>7. CASE ScanAgents(r) \/ CompleteRepair(r) BY <3>7 DEF ScanAgents, CompleteRepair, Set
    <3>8. CASE PruneAgent(r) BY <3>8 DEF PruneAgent, Set
    <3>9. CASE \E a \in Agent : PruneIdentity(r, a) BY <3>9 DEF PruneIdentity, Set
    <3>10. CASE \E a \in Agent : InspectAgent(r, a) BY <3>10 DEF InspectAgent, Set
    <3>11. CASE Fail(r) BY <3>11 DEF Fail, Set, Released
    <3> QED BY <1>2, <3>1, <3>2, <3>3, <3>4, <3>5, <3>6, <3>7, <3>8, <3>9, <3>10, <3>11 DEF Refresh
  <2>4. CASE o # r BY <2>1, <2>2, <2>3, <2>4 DEF Current
  <2>5. CASE o = r
    <3>0. refreshers[r] \in Pass /\ Free.pc = "idle" BY DEF Free
    <3>1. CASE Claim(r) \/ RunProjection(r)
      <4>0. PICK mode \in {"event", "full"}, g \in Nat : Begin(r, mode, g)
        BY <3>1 DEF Claim, RunProjection
      <4>1. refreshers'[r].pc = "next" /\ refreshers'[r].todo = Listed
        <5> DEFINE g0 == [Free EXCEPT !.pc = "next", !.mode = mode, !.todo = Listed, !.generation = g, !.losses = losses]
        <5>1. g0.pc = "next" /\ g0.todo = Listed BY DEF Free
        <5>2. refreshers' = [refreshers EXCEPT ![r] = g0] BY <4>0 DEF Begin
        <5> QED BY <5>1, <5>2
      <4> QED BY <2>5, <4>1 DEF Current, Listed
    <3>2. CASE ReadToken(r)
      <4>1. /\ refreshers'[r].pc = "lock" /\ refreshers'[r].todo = refreshers[r].todo
            /\ refreshers'[r].node \in refreshers[r].todo /\ refreshers[r].todo \subseteq Node
        BY <2>1, <3>0, <3>2 DEF ReadToken, At, Set, Current, Pass
      <4> QED BY <2>5, <4>1 DEF Current
    <3>3. CASE LockRow(r)
      <4>1. /\ refreshers'[r].pc = "write" /\ refreshers'[r].todo = refreshers[r].todo
            /\ refreshers'[r].node = refreshers[r].node /\ refreshers[r].node \in Node
            /\ refreshers[r].todo \subseteq Node
            /\ refreshers'[r].row = rows[refreshers[r].node]
        BY <2>1, <3>0, <3>3 DEF LockRow, At, Set, Current, Pass
      <4>2. rows[refreshers[r].node].state # "missing" => locks'[refreshers[r].node] = r
        BY <3>3, <4>1 DEF LockRow
      <4> QED BY <2>2, <2>5, <4>1, <4>2 DEF Current
    <3>4. CASE Write(r)
      <4>1. /\ refreshers'[r].pc = "next" /\ refreshers[r].todo \subseteq Node
            /\ refreshers'[r].todo \subseteq refreshers[r].todo
        BY <2>1, <3>0, <3>4 DEF Write, At, Set, Current, Pass
      <4> QED BY <2>5, <4>1 DEF Current
    <3>5. CASE Commit(r) \/ CompleteRepair(r) \/ Fail(r)
      BY <2>5, <3>0, <3>5 DEF Commit, CompleteRepair, Fail, Set, Current
    <3>6. CASE Prune(r) BY <2>5, <3>0, <3>6 DEF Prune, Set, Current, Pass
    <3>7. CASE ScanAgents(r) BY <2>5, <3>0, <3>7 DEF ScanAgents, Set, Current, Pass
    <3>8. CASE PruneAgent(r) BY <2>5, <3>0, <3>8 DEF PruneAgent, At, Set, Current, Pass
    <3>9. CASE \E a \in Agent : PruneIdentity(r, a) BY <2>5, <3>0, <3>9 DEF PruneIdentity, At, Set, Current, Pass
    <3>10. CASE \E a \in Agent : InspectAgent(r, a) BY <2>5, <3>0, <3>10 DEF InspectAgent, At, Set, Current, Pass
    <3> QED BY <1>2, <3>1, <3>2, <3>3, <3>4, <3>5, <3>6, <3>7, <3>8, <3>9, <3>10 DEF Refresh
  <2> QED BY <2>4, <2>5
<1>3. CASE (\E a \in Agent : RequestRepair(a)) \/ CooldownEnds \/ Lose \/ UNCHANGED vars
  <2>1. UNCHANGED <<rows, locks, refreshers>> BY <1>3 DEF RequestRepair, CooldownEnds, Lose, vars
  <2> QED BY <2>1 DEF WriteIsCurrent, Current
<1>4. CASE \E r \in Refresher : Refresh(r) \/ Fail(r) BY <1>2, <1>4 DEF WriteIsCurrent
<1> QED BY <1>1, <1>3, <1>4 DEF Next

(* An agent's record changes only by going, or to its node's row.          *)
LEMMA RecordStep ==
  ASSUME TypeOK, WriteIsCurrent, AgentsAreNew, [Next]_vars, NEW a \in Agent
  PROVE  \/ agents'[a] = agents[a]
         \/ agents'[a].node = 0
         \/ \E n \in Node : /\ rows[n].agent = a /\ agents'[a].version = rows[n].version
                            /\ rows' = rows /\ version' = version
<1> USE ProjectionAssumption DEF TypeOK, Database, Redis, Repair
<1>1. ASSUME NEW r \in Refresher, Write(r)
      PROVE  \/ agents'[a] = agents[a]
             \/ agents'[a].node = 0
             \/ \E n \in Node : /\ rows[n].agent = a /\ agents'[a].version = rows[n].version
                                /\ rows' = rows /\ version' = version
  <2> DEFINE f == refreshers[r]
  <2>1. f.pc = "write" /\ f.node \in Node BY <1>1 DEF Write, At, WriteIsCurrent, Current
  <2>2. CASE Live(f.row)
    <3>1. f.row = rows[f.node] BY <2>1, <2>2 DEF Live, WriteIsCurrent, Current
    <3>2. agents'[a] = agents[a] \/ agents'[a] = NoAgent
          \/ (a = f.row.agent /\ agents'[a].version = f.row.version)
      BY <1>1, <2>2 DEF Write, Without, Projected
    <3> QED BY <1>1, <2>1, <3>1, <3>2 DEF Write, NoAgent
  <2>3. CASE ~Live(f.row)
    BY <1>1, <2>3 DEF Write, Without, Projected, NoAgent, Agent
  <2> QED BY <2>2, <2>3
<1>2. CASE \E n \in Node : Change(n) BY <1>2 DEF Change
<1>3. ASSUME NEW r \in Refresher, Refresh(r) \/ Fail(r), ~Write(r)
      PROVE  agents'[a] = agents[a] \/ agents'[a] = NoAgent
  <2>1. CASE PruneAgent(r) BY <2>1 DEF PruneAgent
  <2>2. CASE \E b \in Agent : PruneIdentity(r, b) BY <2>2 DEF PruneIdentity
  <2>3. CASE Claim(r) \/ RunProjection(r) \/ ReadToken(r) \/ LockRow(r) \/ Commit(r) \/ Prune(r) \/ ScanAgents(r)
             \/ CompleteRepair(r) \/ (\E b \in Agent : InspectAgent(r, b)) \/ Fail(r)
    BY <2>3 DEF Claim, RunProjection, ReadToken, LockRow, Commit, Prune, ScanAgents, CompleteRepair, InspectAgent, Fail
  <2> QED BY <1>3, <2>1, <2>2, <2>3 DEF Refresh
<1>4. CASE (\E b \in Agent : RequestRepair(b)) \/ CooldownEnds \/ UNCHANGED vars
  BY <1>4 DEF RequestRepair, CooldownEnds, vars
<1>5. CASE Lose BY <1>5 DEF Lose, NoAgent
<1> QED BY <1>1, <1>2, <1>3, <1>4, <1>5 DEF Next, NoAgent

(* No record is newer than its row, and no two rows share an agent.        *)
LEMMA AgentStep ==
  ASSUME TypeOK, WriteIsCurrent, AgentsAreNew, RecordsAreOld, [Next]_vars
  PROVE  AgentsAreNew' /\ RecordsAreOld'
<1> USE ProjectionAssumption DEF TypeOK
<1>1. CASE \E n \in Node : Change(n)
  <2>1. PICK n \in Node : Change(n) BY <1>1
  <2>2. version + 1 \in 0..MaxVersion BY <2>1 DEF Change
  <2>3. PICK row \in Changed(rows[n], version + 1) : rows' = [rows EXCEPT ![n] = row]
    BY <2>1 DEF Change
  <2>4. /\ row \in Row
        /\ row.agent = 0 \/ row.version = version + 1
        /\ row.version \in {0, version + 1}
        /\ row.agent \in {0, version + 1, rows[n].agent}
        /\ Live(row) => \/ row.agent = version + 1
                        \/ Live(rows[n]) /\ row.agent = rows[n].agent
    BY <2>2, <2>3, ChangedTyped
  <2>5. agents' = agents /\ version' = version + 1 BY <2>1 DEF Change, Redis
  <2>6. \A m \in Node : rows[m] \in Row /\ rows[m].agent \in 0..MaxVersion /\ rows[m].version \in 0..MaxVersion
    BY RowFields
  <2>7. rows'[n] = row /\ \A m \in Node \ {n} : rows'[m] = rows[m] BY <2>3
  <2>8. row.agent \in 0..MaxVersion /\ row.version \in 0..MaxVersion BY <2>4, RowFields
  <2>9. \A a \in Agent : agents[a].version \in 0..MaxVersion BY DEF Record
  <2>10. AgentsAreNew'
    <3>1. \A m \in Node : rows'[m].agent <= version' /\ rows'[m].version <= version'
      BY <2>2, <2>4, <2>5, <2>6, <2>7, <2>8 DEF AgentsAreNew
    <3>2. \A m \in Node : Live(rows'[m]) => rows'[m].agent # 0
      BY <2>2, <2>4, <2>6, <2>7, <2>8 DEF AgentsAreNew
    <3>3. \A m, o \in Node : rows'[m].agent = rows'[o].agent /\ rows'[m].agent # 0 => m = o
      BY <2>2, <2>4, <2>6, <2>7, <2>8 DEF AgentsAreNew
    <3>4. \A a \in Agent : agents'[a].node # 0 => a <= version'
      BY <2>2, <2>5 DEF AgentsAreNew, Agent
    <3> QED BY <3>1, <3>2, <3>3, <3>4 DEF AgentsAreNew, Live
  <2>11. RecordsAreOld'
    <3>1. ASSUME NEW a \in Agent, NEW m \in Node, agents[a].node # 0, rows'[m].agent = a
          PROVE  agents[a].version <= rows'[m].version
      <4>1. CASE m # n BY <2>7, <3>1, <4>1 DEF RecordsAreOld
      <4>2. CASE m = n
        <5>1. a = rows[n].agent /\ row.version = version + 1
          BY <2>2, <2>4, <2>7, <3>1, <4>2 DEF AgentsAreNew, Agent
        <5>2. agents[a].version <= rows[n].version /\ rows[n].version <= version
          BY <3>1, <5>1 DEF RecordsAreOld, AgentsAreNew
        <5> QED BY <2>6, <2>7, <2>9, <4>2, <5>1, <5>2
      <4> QED BY <4>1, <4>2
    <3> QED BY <2>5, <3>1 DEF RecordsAreOld
  <2> QED BY <2>10, <2>11
<1>2. CASE rows' = rows /\ version' = version
  <2>1. \A m \in Node : rows[m].agent \in 0..MaxVersion /\ rows[m].version \in 0..MaxVersion BY RowFields
  <2>2. AgentsAreNew' BY <1>2, <2>1, RecordStep DEF AgentsAreNew, Live
  <2>3. ASSUME NEW a \in Agent, NEW n \in Node, agents'[a].node # 0, rows[n].agent = a
        PROVE  agents'[a].version <= rows[n].version
    <3>1. CASE agents'[a] = agents[a] BY <2>3, <3>1 DEF RecordsAreOld
    <3>2. CASE agents'[a] # agents[a]
      <4>1. PICK m \in Node : rows[m].agent = a /\ agents'[a].version = rows[m].version
        BY <2>3, <3>2, RecordStep
      <4>2. m = n BY <2>3, <4>1 DEF AgentsAreNew, Agent
      <4> QED BY <2>1, <4>1, <4>2
    <3> QED BY <3>1, <3>2
  <2> QED BY <1>2, <2>2, <2>3 DEF RecordsAreOld
<1>3. (\E n \in Node : Change(n)) \/ (rows' = rows /\ version' = version)
  <2>1. ASSUME NEW r \in Refresher, Refresh(r) \/ Fail(r) PROVE rows' = rows /\ version' = version
    BY <2>1 DEF Refresh, Claim, RunProjection, ReadToken, LockRow, Write, Commit, Prune, ScanAgents, PruneAgent,
       CompleteRepair, PruneIdentity, InspectAgent, Fail, Database
  <2>2. CASE (\E a \in Agent : RequestRepair(a)) \/ CooldownEnds \/ Lose \/ UNCHANGED vars
    BY <2>2 DEF RequestRepair, CooldownEnds, Lose, vars, Database
  <2> QED BY <2>1, <2>2 DEF Next
<1> QED BY <1>1, <1>2, <1>3

(* The invariant is inductive.                                             *)
LEMMA ProjectionStep == ProjectionInv /\ [Next]_vars => ProjectionInv'
BY TypeStep, CurrentStep, AgentStep DEF ProjectionInv

(* The invariant holds in every reachable state, for any number of nodes,  *)
(* of refreshers and of changes.                                           *)
THEOREM ProjectionHolds == Spec => []ProjectionInv
BY ProjectionInit, ProjectionStep, PTL DEF Spec

(* NeverOlder for every instance: whichever refreshers overlap, fail or    *)
(* repair, a record in Redis is never replaced by an older one.            *)
THEOREM ProjectionNeverOlder == Spec => NeverOlder
<1>1. ProjectionInv /\ [Next]_vars =>
        [\A a \in Agent :
           agents[a].node # 0 /\ agents'[a].node # 0 => agents'[a].version >= agents[a].version]_vars
  <2> SUFFICES ASSUME ProjectionInv, [Next]_vars, NEW a \in Agent, agents[a].node # 0, agents'[a].node # 0
               PROVE  agents'[a].version >= agents[a].version
    OBVIOUS
  <2>1. agents[a].version \in Nat /\ \A n \in Node : rows[n].version \in Nat
    BY ProjectionAssumption, RowFields DEF ProjectionInv, TypeOK, Record
  <2> QED BY <2>1, RecordStep DEF ProjectionInv, RecordsAreOld
<1> QED BY <1>1, ProjectionHolds, PTL DEF Spec, NeverOlder

-----------------------------------------------------------------------------
(* Proof of SettledAgrees.  What a claim or an up-to-date full pass has    *)
(* passed agrees with its row, or a notice or a claim still owes it; what  *)
(* Redis holds beyond that is found through the index or by the scans for  *)
(* orphans.  The hard part is a node that is missing when it is read: no   *)
(* lock protects it, only the token of its index entry.                    *)

(* The projection of a node is its row.                                    *)
Agrees(n) ==
    IF Live(rows[n])
    THEN /\ agents[rows[n].agent].node = n
         /\ agents[rows[n].agent].version = rows[n].version
         /\ index[n].agent = rows[n].agent
         /\ identities[rows[n].agent] = n /\ n \in members
    ELSE index[n].agent = 0

(* The node is still to be refreshed by this pass.                         *)
Walking(r, n) == refreshers[r].pc \in {"next", "lock", "write"} /\ n \in refreshers[r].todo

(* A change of the node is announced, or being refreshed.                  *)
Owed(n) == notices \/ \E r \in Refresher : refreshers[r].mode = "event" /\ Walking(r, n)

(* A full pass that began after the last loss.                             *)
UpToDate(r) == refreshers[r].mode = "full" /\ refreshers[r].losses = losses

(* The node was refreshed after the last loss.                             *)
Passed(n) == healed = losses \/ \E r \in Refresher : UpToDate(r) /\ ~Walking(r, n)

(* Missing when its row was read; it may exist by now.                     *)
ReadMissing(r, n) ==
    At(r, "write") /\ refreshers[r].node = n /\ refreshers[r].row.state = "missing"

Known(n) == Passed(n) \/ \E r \in Refresher : UpToDate(r) /\ ReadMissing(r, n)

Inspects(r, a) == At(r, "agents") /\ refreshers[r].node # 0 /\ refreshers[r].row.agent = a

PassedBinding(a) ==
    \/ healed = losses
    \/ \E r \in Refresher :
          UpToDate(r) /\ (At(r, "agents") \/ (At(r, "identities") /\ a \notin refreshers[r].todo))

PassedRecord(a) ==
    \/ healed = losses
    \/ \E r \in Refresher :
          UpToDate(r) /\ At(r, "agents") /\ a \notin refreshers[r].todo /\ ~Inspects(r, a)

(* The parts of a pass fit together.                                       *)
PassShaped(r) ==
    LET f == refreshers[r]
    IN  /\ f.losses <= losses /\ f.token <= tokens
        /\ f.pc = "idle" <=> f.mode = "none"
        /\ f.mode = "event" => f.pc \in {"next", "lock", "write"}
        /\ f.pc \in {"lock", "write"} => f.node \in f.todo
        /\ f.pc \in {"next", "identities"} => f.node = 0
        /\ f.pc \in {"identities", "agents"} => f.todo \subseteq Agent
        /\ f.pc = "agents" /\ f.node # 0 => f.row.agent \in Agent

(* The inspected record is the one with the token read.                    *)
InspectedIsRead(r) ==
    \A a \in Agent : Inspects(r, a) =>
       /\ refreshers[r].token # 0
       /\ agents[a].token = refreshers[r].token => agents[a].node = refreshers[r].node

(* The cleanup of a node that exists again would not remove its agent.     *)
TokenIsOld(r) ==
    \A n \in Node :
       ReadMissing(r, n) /\ Live(rows[n]) /\ index[n].token = refreshers[r].token
          => index[n].agent # rows[n].agent

(* The node has no row, as this pass has read or is about to.              *)
FacesMissing(r, n) ==
    ReadMissing(r, n) \/ (At(r, "lock") /\ refreshers[r].node = n /\ rows[n].state = "missing")

(* While a claim refreshes, a change of a missing node is announced.       *)
EventSees(r) ==
    \A n \in Node :
       refreshers[r].mode = "event" /\ FacesMissing(r, n) =>
          \/ notices
          \/ /\ rows[n].state = "missing"
             /\ index[n].agent = 0 \/ index[n].token = refreshers[r].token

(* A full pass that will not clean a node up leaves it to others.          *)
FullSees(r) ==
    \A n \in Node :
       UpToDate(r) /\ FacesMissing(r, n) =>
          \/ Agrees(n) \/ Owed(n)
          \/ rows[n].state = "missing" /\ index[n].token = refreshers[r].token

(* A record written over an inspected one is its node's.                   *)
InspectedIsTracked(r) ==
    \A a \in Agent :
       UpToDate(r) /\ Inspects(r, a) /\ agents[a].node # 0 /\ agents[a].token # refreshers[r].token
          => index[agents[a].node].agent = a

PassInv(r) == /\ PassShaped(r) /\ InspectedIsRead(r) /\ TokenIsOld(r) /\ EventSees(r)
              /\ FullSees(r) /\ InspectedIsTracked(r)

(* Tokens are given out in order, and an agent belongs to one node.        *)
RedisShaped ==
    /\ healed \in Nat /\ healed <= losses
    /\ \A n \in Node : /\ index[n].agent # 0 => n \in members
                       /\ index[n].agent <= version /\ index[n].token <= tokens
                       /\ rows[n].state = "missing" => rows[n].agent = 0
    /\ \A a \in Agent : /\ identities[a] # 0 => a <= version
                        /\ agents[a].token <= tokens
                        /\ agents[a].node # 0 => agents[a].token # 0
                        /\ agents[a].node = 0 => agents[a].token = 0
    /\ \A a \in Agent, n \in Node :
          rows[n].agent = a => identities[a] \in {0, n} /\ agents[a].node \in {0, n}

PassedAgrees == \A n \in Node : Passed(n) => Agrees(n) \/ Owed(n)

KnownIsTracked ==
    \A n \in Node : Known(n) /\ Live(rows[n])
                    /\ (identities[rows[n].agent] = n \/ agents[rows[n].agent].node = n)
       => index[n].agent = rows[n].agent

BindingsTracked ==
    \A a \in Agent : PassedBinding(a) /\ identities[a] # 0 => index[identities[a]].agent = a

RecordsTracked ==
    \A a \in Agent : PassedRecord(a) /\ agents[a].node # 0 => index[agents[a].node].agent = a

SettledInv == /\ \A r \in Refresher : PassInv(r)
              /\ RedisShaped /\ PassedAgrees /\ KnownIsTracked /\ BindingsTracked /\ RecordsTracked

-----------------------------------------------------------------------------

(* The numbers of a record, an index entry and a pass.                     *)
LEMMA StoreFields ==
  ASSUME TypeOK
  PROVE  /\ \A a \in Agent : agents[a].node \in 0..Nodes /\ agents[a].version \in 0..MaxVersion /\ agents[a].token \in Nat
         /\ \A n \in Node : index[n].agent \in 0..MaxVersion /\ index[n].token \in Nat
         /\ \A n \in Node : rows[n].agent \in 0..MaxVersion
         /\ \A a \in Agent : identities[a] \in 0..Nodes
         /\ \A r \in Refresher : /\ refreshers[r].token \in Nat /\ refreshers[r].losses \in Nat
                                 /\ refreshers[r].node \in 0..Nodes
         /\ tokens \in Nat /\ losses \in Nat /\ version \in Nat
<1>1. \A a \in Agent : agents[a] \in Record BY DEF TypeOK
<1>2. \A n \in Node : index[n] \in Entry /\ rows[n] \in Row BY DEF TypeOK
<1>3. \A r \in Refresher : refreshers[r] \in Pass BY DEF TypeOK
<1>4. \A a \in Agent : agents[a].node \in 0..Nodes /\ agents[a].version \in 0..MaxVersion /\ agents[a].token \in Nat
  BY <1>1 DEF Record
<1>5. \A n \in Node : index[n].agent \in 0..MaxVersion /\ index[n].token \in Nat BY <1>2 DEF Entry
<1>6. \A n \in Node : rows[n].agent \in 0..MaxVersion BY <1>2, RowFields
<1>7. \A r \in Refresher : /\ refreshers[r].token \in Nat /\ refreshers[r].losses \in Nat
                           /\ refreshers[r].node \in 0..Nodes
  BY <1>3, PassFields
<1> QED BY <1>4, <1>5, <1>6, <1>7, ProjectionAssumption DEF TypeOK

(* A live row's agent is one, and no other row has it.                     *)
LEMMA AgentOfRow ==
  ASSUME ProjectionInv, NEW n \in Node, Live(rows[n])
  PROVE  rows[n].agent \in Agent /\ \A m \in Node : rows[m].agent = rows[n].agent => m = n
<1>1. rows[n].agent # 0 BY DEF ProjectionInv, AgentsAreNew
<1>2. rows[n].agent \in 0..MaxVersion BY StoreFields DEF ProjectionInv
<1> QED BY <1>1, <1>2, ProjectionAssumption DEF Agent, ProjectionInv, AgentsAreNew

(* Before anything happened there is nothing to agree about.               *)
LEMMA SettledInit == Init => SettledInv
<1> SUFFICES ASSUME Init PROVE SettledInv OBVIOUS
<1>0. \A r \in Refresher : refreshers[r] = Free BY DEF Init
<1>1. \A r \in Refresher : /\ refreshers[r].pc = "idle" /\ refreshers[r].mode = "none"
                           /\ refreshers[r].losses = 0 /\ refreshers[r].token = 0
  BY <1>0 DEF Free
<1>2. \A r \in Refresher : PassShaped(r) BY <1>1 DEF PassShaped, Init
<1>3. \A r \in Refresher : PassInv(r)
  BY <1>1, <1>2 DEF PassInv, InspectedIsRead, TokenIsOld, EventSees, FullSees, InspectedIsTracked,
     Inspects, ReadMissing, FacesMissing, UpToDate, At
<1>4. RedisShaped BY ProjectionAssumption DEF Init, RedisShaped, NoIndex, NoRow, NoAgent
<1>5. \A n \in Node : ~Live(rows[n]) /\ index[n].agent = 0 BY DEF Init, NoRow, NoIndex, Live
<1>6. PassedAgrees /\ KnownIsTracked BY <1>5 DEF PassedAgrees, KnownIsTracked, Agrees
<1>7. BindingsTracked /\ RecordsTracked BY DEF Init, BindingsTracked, RecordsTracked, NoAgent
<1> QED BY <1>3, <1>4, <1>6, <1>7 DEF SettledInv

(* What the invariant is for.                                              *)
LEMMA SettledEnough == ProjectionInv /\ SettledInv => SettledAgrees
<1> SUFFICES ASSUME ProjectionInv, SettledInv, Quiet PROVE SettledAgrees BY DEF SettledAgrees
<1>1. \A n \in Node : Passed(n) /\ ~Owed(n)
  BY DEF Quiet, Passed, Owed, Walking, At
<1>2. \A n \in Node : Agrees(n) BY <1>1 DEF SettledInv, PassedAgrees
<1>3. ASSUME NEW a \in Agent, agents[a].node # 0 \/ identities[a] # 0 PROVE \E n \in Node : Owns(n, a)
  <2>1. PICK n \in Node : index[n].agent = a
    <3>1. agents[a].node \in 0..Nodes /\ identities[a] \in 0..Nodes BY StoreFields DEF ProjectionInv
    <3>2. CASE agents[a].node # 0
      BY <3>1, <3>2, ProjectionAssumption DEF SettledInv, RecordsTracked, PassedRecord, Quiet, Node
    <3>3. CASE identities[a] # 0
      BY <3>1, <3>3, ProjectionAssumption DEF SettledInv, BindingsTracked, PassedBinding, Quiet, Node
    <3> QED BY <1>3, <3>2, <3>3
  <2>2. a # 0 BY DEF Agent
  <2> QED BY <1>2, <2>1, <2>2 DEF Agrees, Owns
<1> QED BY <1>2, <1>3 DEF SettledAgrees, Agrees

-----------------------------------------------------------------------------
(* A step of one pass that at most removes what nobody owns.               *)

Others(r) == \A o \in Refresher \ {r} : refreshers'[o] = refreshers[o]

PrunedOnly ==
    /\ UNCHANGED <<rows, version, index, members, tokens, losses>>
    /\ \A a \in Agent :
         /\ agents'[a] = agents[a] \/ (agents'[a] = NoAgent /\ \A n \in Node : ~Owns(n, a))
         /\ identities'[a] = identities[a] \/ (identities'[a] = 0 /\ \A n \in Node : ~Owns(n, a))

LEMMA PruneKeepsAgreement ==
  ASSUME ProjectionInv, PrunedOnly, NEW n \in Node, Agrees(n)
  PROVE  Agrees(n)'
<1>1. CASE Live(rows[n])
  <2> DEFINE a == rows[n].agent
  <2>1. a \in Agent /\ Owns(n, a) BY <1>1, AgentOfRow DEF Owns
  <2>2. agents'[a] = agents[a] /\ identities'[a] = identities[a] BY <2>1 DEF PrunedOnly
  <2> QED BY <1>1, <2>2 DEF Agrees, PrunedOnly, Live
<1>2. CASE ~Live(rows[n]) BY <1>2 DEF Agrees, PrunedOnly, Live
<1> QED BY <1>1, <1>2

(* The tables keep their shape, and what the other passes know holds.      *)
LEMMA PruneKeepsPasses ==
  ASSUME ProjectionInv, SettledInv, PrunedOnly, NEW r \in Refresher, Others(r),
         healed' \in Nat, healed' <= losses,
         NEW o \in Refresher, o # r,
         refreshers[o].mode = "event" /\ notices => notices',
         \A n \in Node : Owed(n) => Owed(n)' \/ Agrees(n)
  PROVE  PassInv(o)'
<1>0. refreshers'[o] = refreshers[o] BY DEF Others
<1>1. PassInv(o) BY DEF SettledInv
<1>2. PassShaped(o)' BY <1>0, <1>1 DEF PassInv, PassShaped, PrunedOnly
<1>3. InspectedIsRead(o)'
  BY <1>0, <1>1 DEF PassInv, InspectedIsRead, Inspects, At, PrunedOnly, NoAgent
<1>4. TokenIsOld(o)' BY <1>0, <1>1 DEF PassInv, TokenIsOld, ReadMissing, At, PrunedOnly, Live
<1>5. \A n \in Node : FacesMissing(o, n)' => FacesMissing(o, n)
  BY <1>0 DEF FacesMissing, ReadMissing, At, PrunedOnly
<1>6. EventSees(o)' BY <1>0, <1>1, <1>5 DEF PassInv, EventSees, PrunedOnly
<1>7. FullSees(o)'
  <2> SUFFICES ASSUME NEW n \in Node, UpToDate(o)', FacesMissing(o, n)'
               PROVE  \/ Agrees(n)' \/ Owed(n)'
                      \/ rows'[n].state = "missing" /\ index'[n].token = refreshers'[o].token
    BY DEF FullSees
  <2>1. UpToDate(o) BY <1>0 DEF UpToDate, PrunedOnly
  <2>2. \/ Agrees(n) \/ Owed(n)
        \/ rows[n].state = "missing" /\ index[n].token = refreshers[o].token
    BY <1>1, <1>5, <2>1 DEF PassInv, FullSees
  <2> QED BY <1>0, <2>2, PruneKeepsAgreement DEF PrunedOnly
<1>8. InspectedIsTracked(o)'
  BY <1>0, <1>1 DEF PassInv, InspectedIsTracked, UpToDate, Inspects, At, PrunedOnly, NoAgent
<1> QED BY <1>2, <1>3, <1>4, <1>6, <1>7, <1>8 DEF PassInv

LEMMA PruneKeepsRedis ==
  ASSUME ProjectionInv, SettledInv, PrunedOnly, healed' \in Nat, healed' <= losses
  PROVE  RedisShaped'
<1>1. RedisShaped BY DEF SettledInv
<1>2. 0 <= tokens BY StoreFields DEF ProjectionInv
<1>3. healed' \in Nat /\ healed' <= losses' BY DEF PrunedOnly
<1>4. \A n \in Node : /\ index'[n].agent # 0 => n \in members'
                      /\ index'[n].agent <= version' /\ index'[n].token <= tokens'
                      /\ rows'[n].state = "missing" => rows'[n].agent = 0
  BY <1>1 DEF RedisShaped, PrunedOnly
<1>5. \A a \in Agent : /\ identities'[a] # 0 => a <= version'
                       /\ agents'[a].token <= tokens'
                       /\ agents'[a].node # 0 => agents'[a].token # 0
                       /\ agents'[a].node = 0 => agents'[a].token = 0
  BY <1>1, <1>2 DEF RedisShaped, PrunedOnly, NoAgent
<1>6. \A a \in Agent, n \in Node :
         rows'[n].agent = a => identities'[a] \in {0, n} /\ agents'[a].node \in {0, n}
  BY <1>1 DEF RedisShaped, PrunedOnly, NoAgent
<1> QED BY <1>3, <1>4, <1>5, <1>6 DEF RedisShaped

(* Such a step preserves the invariant if its own pass is in order and     *)
(* what it gets past is.                                                   *)
LEMMA PruneFrame ==
  ASSUME ProjectionInv, SettledInv, PrunedOnly, NEW r \in Refresher, Others(r), PassInv(r)',
         healed' \in Nat, healed' <= losses,
         \A o \in Refresher \ {r} : refreshers[o].mode = "event" /\ notices => notices',
         \A n \in Node : Owed(n) => Owed(n)' \/ Agrees(n),
         \A n \in Node : Passed(n)' => Passed(n) \/ Agrees(n) \/ Owed(n)',
         \A n \in Node : Known(n)' => Known(n) \/ ~Live(rows[n]),
         \A a \in Agent : PassedBinding(a)' => \/ PassedBinding(a) \/ identities'[a] = 0
                                               \/ index[identities[a]].agent = a,
         \A a \in Agent : PassedRecord(a)' => \/ PassedRecord(a) \/ agents'[a].node = 0
                                              \/ index[agents[a].node].agent = a
  PROVE  SettledInv'
<1>1. \A o \in Refresher : PassInv(o)' BY PruneKeepsPasses
<1>2. RedisShaped' BY PruneKeepsRedis
<1>3. PassedAgrees'
  <2> SUFFICES ASSUME NEW n \in Node, Passed(n)' PROVE Agrees(n)' \/ Owed(n)' BY DEF PassedAgrees
  <2> QED BY PruneKeepsAgreement DEF SettledInv, PassedAgrees
<1>4. KnownIsTracked'
  <2> SUFFICES ASSUME NEW n \in Node, Known(n)', Live(rows'[n]),
                      identities'[rows'[n].agent] = n \/ agents'[rows'[n].agent].node = n
               PROVE  index'[n].agent = rows'[n].agent
    BY DEF KnownIsTracked, Live
  <2>1. rows' = rows /\ index' = index BY DEF PrunedOnly
  <2>2. Known(n) /\ Live(rows[n]) BY <2>1
  <2>3. rows[n].agent \in Agent /\ n # 0 BY <2>2, AgentOfRow DEF Node
  <2>4. identities[rows[n].agent] = n \/ agents[rows[n].agent].node = n
    BY <2>1, <2>3 DEF PrunedOnly, NoAgent
  <2> QED BY <2>1, <2>2, <2>4 DEF SettledInv, KnownIsTracked
<1>5. BindingsTracked'
  <2> SUFFICES ASSUME NEW a \in Agent, PassedBinding(a)', identities'[a] # 0
               PROVE  index'[identities'[a]].agent = a
    BY DEF BindingsTracked
  <2>1. identities'[a] = identities[a] /\ index' = index BY DEF PrunedOnly
  <2> QED BY <2>1 DEF SettledInv, BindingsTracked
<1>6. RecordsTracked'
  <2> SUFFICES ASSUME NEW a \in Agent, PassedRecord(a)', agents'[a].node # 0
               PROVE  index'[agents'[a].node].agent = a
    BY DEF RecordsTracked
  <2>1. agents'[a] = agents[a] /\ index' = index BY DEF PrunedOnly, NoAgent
  <2> QED BY <2>1 DEF SettledInv, RecordsTracked
<1> QED BY <1>1, <1>2, <1>3, <1>4, <1>5, <1>6 DEF SettledInv

-----------------------------------------------------------------------------
(* The steps of a pass that leave Redis alone, field by field.             *)

Resting(r) == refreshers'[r].pc = "idle" /\ refreshers'[r].mode = "none"
              /\ refreshers'[r].losses = 0 /\ refreshers'[r].token = 0

LEMMA BeginFacts ==
  ASSUME TypeOK, NEW r \in Refresher, NEW mode, NEW g, Begin(r, mode, g)
  PROVE  /\ Others(r)
         /\ refreshers'[r].pc = "next" /\ refreshers'[r].mode = mode /\ refreshers'[r].todo = Listed
         /\ refreshers'[r].node = 0 /\ refreshers'[r].token = 0 /\ refreshers'[r].losses = losses
<1> DEFINE f == [Free EXCEPT !.pc = "next", !.mode = mode, !.todo = Listed, !.generation = g, !.losses = losses]
<1>1. /\ f.pc = "next" /\ f.mode = mode /\ f.todo = Listed /\ f.node = 0 /\ f.token = 0 /\ f.losses = losses
  BY DEF Free
<1>2. refreshers' = [refreshers EXCEPT ![r] = f] BY DEF Begin
<1> HIDE DEF f
<1>3. refreshers'[r] = f /\ Others(r) BY <1>2 DEF TypeOK, Others
<1> QED BY <1>1, <1>3

LEMMA ReadTokenFacts ==
  ASSUME TypeOK, NEW r \in Refresher, ReadToken(r)
  PROVE  /\ Others(r) /\ refreshers[r].pc = "next" /\ refreshers'[r].pc = "lock"
         /\ \E n \in refreshers[r].todo : refreshers'[r].node = n /\ refreshers'[r].token = index[n].token
         /\ refreshers'[r].mode = refreshers[r].mode /\ refreshers'[r].todo = refreshers[r].todo
         /\ refreshers'[r].losses = refreshers[r].losses
<1>0. refreshers[r] \in Pass BY DEF TypeOK
<1>1. PICK n \in refreshers[r].todo : refreshers' = [refreshers EXCEPT ![r] =
         [refreshers[r] EXCEPT !.pc = "lock", !.node = n, !.token = index[n].token]]
  BY DEF ReadToken, Set
<1>2. refreshers'[r] = [refreshers[r] EXCEPT !.pc = "lock", !.node = n, !.token = index[n].token]
      /\ Others(r)
  BY <1>1 DEF TypeOK, Others
<1>3. refreshers[r].pc = "next" BY DEF ReadToken, At
<1> QED BY <1>0, <1>2, <1>3 DEF Pass

LEMMA LockRowFacts ==
  ASSUME TypeOK, NEW r \in Refresher, LockRow(r)
  PROVE  /\ Others(r) /\ refreshers[r].pc = "lock" /\ refreshers'[r].pc = "write"
         /\ refreshers'[r].row = rows[refreshers[r].node]
         /\ refreshers'[r].node = refreshers[r].node /\ refreshers'[r].token = refreshers[r].token
         /\ refreshers'[r].mode = refreshers[r].mode /\ refreshers'[r].todo = refreshers[r].todo
         /\ refreshers'[r].losses = refreshers[r].losses
<1>0. refreshers[r] \in Pass BY DEF TypeOK
<1>1. refreshers'[r] = [refreshers[r] EXCEPT !.pc = "write", !.row = rows[refreshers[r].node]] /\ Others(r)
  BY DEF LockRow, Set, TypeOK, Others
<1>2. refreshers[r].pc = "lock" BY DEF LockRow, At
<1> QED BY <1>0, <1>1, <1>2 DEF Pass

LEMMA WrittenFacts ==
  ASSUME TypeOK, NEW r \in Refresher, Write(r)
  PROVE  /\ Others(r) /\ refreshers[r].pc = "write" /\ refreshers'[r].pc = "next"
         /\ refreshers'[r].node = 0 /\ refreshers'[r].token = 0
         /\ refreshers'[r].mode = refreshers[r].mode
         /\ refreshers'[r].todo = refreshers[r].todo \ {refreshers[r].node}
         /\ refreshers'[r].losses = refreshers[r].losses
<1>0. refreshers[r] \in Pass BY DEF TypeOK
<1>1. refreshers'[r] = [refreshers[r] EXCEPT !.pc = "next", !.todo = @ \ {refreshers[r].node},
                          !.node = 0, !.token = 0, !.row = NoRow] /\ Others(r)
  BY DEF Write, Set, TypeOK, Others
<1>2. refreshers[r].pc = "write" BY DEF Write, At
<1> HIDE DEF NoRow
<1> QED BY <1>0, <1>1, <1>2 DEF Pass

LEMMA RestFacts ==
  ASSUME TypeOK, NEW r \in Refresher, Set(r, Free)
  PROVE  Others(r) /\ Resting(r)
<1>1. refreshers'[r] = Free /\ Others(r) BY DEF Set, TypeOK, Others
<1> QED BY <1>1 DEF Free, Resting

LEMMA PruneFacts ==
  ASSUME TypeOK, NEW r \in Refresher, Prune(r)
  PROVE  /\ Others(r) /\ refreshers[r].pc = "next" /\ refreshers'[r].pc = "identities"
         /\ refreshers[r].todo = {} /\ refreshers[r].mode = "full"
         /\ refreshers'[r].node = refreshers[r].node /\ refreshers'[r].token = refreshers[r].token
         /\ refreshers'[r].mode = refreshers[r].mode
         /\ refreshers'[r].todo = {a \in Agent : identities[a] # 0}
         /\ refreshers'[r].losses = refreshers[r].losses
<1>0. refreshers[r] \in Pass BY DEF TypeOK
<1> DEFINE T == {a \in Agent : identities[a] # 0}
<1>1. refreshers'[r] = [refreshers[r] EXCEPT !.pc = "identities", !.todo = T] /\ Others(r)
  BY DEF Prune, Set, TypeOK, Others
<1>2. refreshers[r].pc = "next" /\ refreshers[r].todo = {} /\ refreshers[r].mode = "full" BY DEF Prune, At
<1> HIDE DEF T
<1>3. refreshers'[r].todo = T BY <1>0, <1>1 DEF Pass
<1> QED BY <1>0, <1>1, <1>2, <1>3 DEF Pass, T

LEMMA ScanFacts ==
  ASSUME TypeOK, NEW r \in Refresher, ScanAgents(r)
  PROVE  /\ Others(r) /\ refreshers[r].pc = "identities" /\ refreshers'[r].pc = "agents"
         /\ refreshers[r].todo = {}
         /\ refreshers'[r].node = refreshers[r].node /\ refreshers'[r].token = refreshers[r].token
         /\ refreshers'[r].mode = refreshers[r].mode
         /\ refreshers'[r].todo = {a \in Agent : agents[a].node # 0}
         /\ refreshers'[r].losses = refreshers[r].losses
<1>0. refreshers[r] \in Pass BY DEF TypeOK
<1> DEFINE T == {a \in Agent : agents[a].node # 0}
<1>1. refreshers'[r] = [refreshers[r] EXCEPT !.pc = "agents", !.todo = T] /\ Others(r)
  BY DEF ScanAgents, Set, TypeOK, Others
<1>2. refreshers[r].pc = "identities" /\ refreshers[r].todo = {} BY DEF ScanAgents, At
<1> HIDE DEF T
<1>3. refreshers'[r].todo = T BY <1>0, <1>1 DEF Pass
<1> QED BY <1>0, <1>1, <1>2, <1>3 DEF Pass, T

LEMMA InspectFacts ==
  ASSUME TypeOK, NEW r \in Refresher, NEW a \in Agent, InspectAgent(r, a)
  PROVE  /\ Others(r) /\ refreshers[r].pc = "agents" /\ refreshers'[r].pc = "agents"
         /\ refreshers[r].node = 0
         /\ refreshers'[r].node = agents[a].node
         /\ agents[a].node # 0 => refreshers'[r].token = agents[a].token /\ refreshers'[r].row.agent = a
         /\ agents[a].node = 0 => refreshers'[r].token = refreshers[r].token
         /\ refreshers'[r].mode = refreshers[r].mode
         /\ refreshers'[r].todo = refreshers[r].todo \ {a}
         /\ refreshers'[r].losses = refreshers[r].losses
<1>0. refreshers[r] \in Pass BY DEF TypeOK
<1> DEFINE row == [NoRow EXCEPT !.agent = a]
<1>1. row.agent = a BY DEF NoRow
<1>2. refreshers[r].pc = "agents" /\ refreshers[r].node = 0 BY DEF InspectAgent, At
<1>3. CASE agents[a].node = 0
  <2>1. refreshers'[r] = [refreshers[r] EXCEPT !.todo = @ \ {a}] /\ Others(r)
    BY <1>3 DEF InspectAgent, Set, TypeOK, Others
  <2> QED BY <1>0, <1>2, <1>3, <2>1 DEF Pass
<1>4. CASE agents[a].node # 0
  <2>1. refreshers'[r] = [refreshers[r] EXCEPT !.node = agents[a].node, !.token = agents[a].token,
                                              !.todo = @ \ {a}, !.row = row] /\ Others(r)
    BY <1>4 DEF InspectAgent, Set, TypeOK, Others
  <2> HIDE DEF row
  <2> QED BY <1>0, <1>1, <1>2, <1>4, <2>1 DEF Pass
<1> QED BY <1>3, <1>4

LEMMA PrunedFacts ==
  ASSUME TypeOK, NEW r \in Refresher, PruneAgent(r)
  PROVE  /\ Others(r) /\ refreshers[r].pc = "agents" /\ refreshers'[r].pc = "agents"
         /\ refreshers[r].node # 0
         /\ refreshers'[r].node = 0 /\ refreshers'[r].token = 0
         /\ refreshers'[r].mode = refreshers[r].mode /\ refreshers'[r].todo = refreshers[r].todo
         /\ refreshers'[r].losses = refreshers[r].losses
<1>0. refreshers[r] \in Pass BY DEF TypeOK
<1>1. refreshers'[r] = [refreshers[r] EXCEPT !.node = 0, !.token = 0, !.row = NoRow] /\ Others(r)
  BY DEF PruneAgent, Set, TypeOK, Others
<1>2. refreshers[r].pc = "agents" /\ refreshers[r].node # 0 BY DEF PruneAgent, At
<1> HIDE DEF NoRow
<1> QED BY <1>0, <1>1, <1>2 DEF Pass

LEMMA UnboundFacts ==
  ASSUME TypeOK, NEW r \in Refresher, NEW a \in Agent, PruneIdentity(r, a)
  PROVE  /\ Others(r) /\ refreshers[r].pc = "identities" /\ refreshers'[r].pc = "identities"
         /\ refreshers'[r].node = refreshers[r].node /\ refreshers'[r].token = refreshers[r].token
         /\ refreshers'[r].mode = refreshers[r].mode
         /\ refreshers'[r].todo = refreshers[r].todo \ {a}
         /\ refreshers'[r].losses = refreshers[r].losses
<1>0. refreshers[r] \in Pass BY DEF TypeOK
<1>1. refreshers'[r] = [refreshers[r] EXCEPT !.todo = @ \ {a}] /\ Others(r)
  BY DEF PruneIdentity, Set, TypeOK, Others
<1>2. refreshers[r].pc = "identities" BY DEF PruneIdentity, At
<1> QED BY <1>0, <1>1, <1>2 DEF Pass

-----------------------------------------------------------------------------
(* The steps, one by one.                                                  *)

(* A pass that neither faces a node nor inspects an agent.                 *)
LEMMA PlainPass ==
  ASSUME NEW r \in Refresher, PassShaped(r)', refreshers'[r].pc \notin {"lock", "write"},
         refreshers'[r].pc = "agents" => refreshers'[r].node = 0
  PROVE  PassInv(r)'
BY DEF PassInv, InspectedIsRead, TokenIsOld, EventSees, FullSees, InspectedIsTracked, Inspects, ReadMissing,
   FacesMissing, At

(* Steps that touch neither the tables nor Redis.                          *)
LEMMA NothingPruned ==
  ASSUME UNCHANGED <<rows, version, Redis, tokens, losses>>
  PROVE  PrunedOnly
BY DEF PrunedOnly, Redis

(* What a new pass does not list has nothing to refresh.                   *)
LEMMA UnlistedAgrees ==
  ASSUME SettledInv, NEW n \in Node, n \notin Listed
  PROVE  Agrees(n) /\ ~Live(rows[n])
<1>1. rows[n].state = "missing" /\ n \notin members BY DEF Listed
<1>2. index[n].agent = 0 BY <1>1 DEF SettledInv, RedisShaped
<1> QED BY <1>1, <1>2 DEF Agrees, Live

LEMMA SettledBegin ==
  ASSUME ProjectionInv, SettledInv, NEW r \in Refresher, Claim(r) \/ RunProjection(r)
  PROVE  SettledInv'
<1>1. PICK mode, g : mode \in {"event", "full"} /\ Begin(r, mode, g) /\ (mode = "event" <=> Claim(r))
  <2>1. CASE Claim(r) BY <2>1 DEF Claim
  <2>2. CASE RunProjection(r) /\ ~Claim(r) BY <2>2 DEF RunProjection
  <2> QED BY <2>1, <2>2
<1>2. /\ Others(r)
      /\ refreshers'[r].pc = "next" /\ refreshers'[r].mode = mode /\ refreshers'[r].todo = Listed
      /\ refreshers'[r].node = 0 /\ refreshers'[r].token = 0 /\ refreshers'[r].losses = losses
  BY <1>1, BeginFacts DEF ProjectionInv
<1>3. UNCHANGED <<rows, version, Redis, tokens, losses, healed>>
  BY DEF Claim, RunProjection, Database
<1>4. PrunedOnly BY <1>3, NothingPruned
<1>5. refreshers[r].pc = "idle" /\ refreshers[r].mode = "none"
  <2>1. refreshers[r].pc = "idle" BY DEF Claim, RunProjection
  <2> QED BY <2>1 DEF SettledInv, PassInv, PassShaped
<1>6. /\ mode = "event" => \A o \in Refresher : refreshers[o].mode # "event"
      /\ mode = "full" => notices' = notices
  <2>1. CASE mode = "event" BY <1>1, <2>1 DEF Claim
  <2>2. CASE mode = "full"
    <3>1. RunProjection(r) BY <1>1, <2>2
    <3> QED BY <2>2, <3>1 DEF RunProjection, Database
  <2> QED BY <2>1, <2>2
<1>7. PassInv(r)'
  <2>1. 0 <= tokens /\ losses <= losses BY StoreFields DEF ProjectionInv
  <2>2. PassShaped(r)' BY <1>1, <1>2, <1>3, <2>1 DEF PassShaped
  <2> QED BY <1>2, <2>2, PlainPass
<1>8. healed' \in Nat /\ healed' <= losses BY <1>3 DEF SettledInv, RedisShaped
<1>9. \A o \in Refresher \ {r} : refreshers[o].mode = "event" /\ notices => notices' BY <1>1, <1>6
<1>10. \A n \in Node : Owed(n) => Owed(n)' \/ Agrees(n)
  <2> SUFFICES ASSUME NEW n \in Node, Owed(n), n \in Listed PROVE Owed(n)' BY UnlistedAgrees
  <2>1. CASE mode = "event" BY <1>2, <2>1 DEF Owed, Walking
  <2>2. CASE mode = "full"
    <3>1. CASE notices BY <1>6, <2>2, <3>1 DEF Owed
    <3>2. CASE \E o \in Refresher : refreshers[o].mode = "event" /\ Walking(o, n)
      <4>1. PICK o \in Refresher : refreshers[o].mode = "event" /\ Walking(o, n) BY <3>2
      <4>2. refreshers'[o] = refreshers[o] BY <1>2, <1>5, <4>1 DEF Others
      <4> QED BY <4>1, <4>2 DEF Owed, Walking
    <3> QED BY <3>1, <3>2 DEF Owed
  <2> QED BY <1>1, <2>1, <2>2
<1>11. \A n \in Node : Passed(n)' => Passed(n) \/ Agrees(n) \/ Owed(n)'
  <2> SUFFICES ASSUME NEW n \in Node, Passed(n)', n \in Listed PROVE Passed(n) BY UnlistedAgrees
  <2> QED BY <1>2, <1>3 DEF Passed, UpToDate, Walking, Others
<1>12. \A n \in Node : Known(n)' => Known(n) \/ ~Live(rows[n])
  <2> SUFFICES ASSUME NEW n \in Node, Known(n)', n \in Listed PROVE Known(n) BY UnlistedAgrees
  <2> QED BY <1>2, <1>3 DEF Known, Passed, UpToDate, Walking, ReadMissing, At, Others
<1>13. \A a \in Agent : PassedBinding(a)' => PassedBinding(a)
  BY <1>2, <1>3 DEF PassedBinding, UpToDate, At, Others
<1>14. \A a \in Agent : PassedRecord(a)' => PassedRecord(a)
  BY <1>2, <1>3 DEF PassedRecord, UpToDate, Inspects, At, Others
<1> QED BY <1>2, <1>4, <1>7, <1>8, <1>9, <1>10, <1>11, <1>12, <1>13, <1>14, PruneFrame

(* A pass that only moves on inside its walk.                              *)
LEMMA SettledWalk ==
  ASSUME ProjectionInv, SettledInv, NEW r \in Refresher, Others(r), PrunedOnly, PassInv(r)',
         notices' = notices, healed' = healed,
         refreshers[r].pc \in {"next", "lock"}, refreshers'[r].pc \in {"lock", "write"},
         refreshers'[r].mode = refreshers[r].mode, refreshers'[r].todo = refreshers[r].todo,
         refreshers'[r].losses = refreshers[r].losses,
         \A n \in Node : UpToDate(r)' /\ ReadMissing(r, n)' => ~Live(rows[n])
  PROVE  SettledInv'
<1>1. losses' = losses BY DEF PrunedOnly
<1>2. \A n, o : o \in Refresher => (Walking(o, n)' <=> Walking(o, n)) /\ (UpToDate(o)' <=> UpToDate(o))
                                   /\ refreshers'[o].mode = refreshers[o].mode
  BY <1>1 DEF Walking, UpToDate, Others
<1>3. healed' \in Nat /\ healed' <= losses BY DEF SettledInv, RedisShaped
<1>4. \A n \in Node : Owed(n) => Owed(n)' BY <1>2 DEF Owed
<1>5. \A n \in Node : Passed(n)' => Passed(n) BY <1>1, <1>2 DEF Passed
<1>6. \A n \in Node : Known(n)' => Known(n) \/ ~Live(rows[n])
  <2> SUFFICES ASSUME NEW n \in Node, NEW o \in Refresher, UpToDate(o)', ReadMissing(o, n)'
               PROVE  Known(n) \/ ~Live(rows[n])
    BY <1>5 DEF Known
  <2>1. CASE o = r BY <2>1
  <2>2. CASE o # r BY <1>2, <2>2 DEF Known, ReadMissing, At, Others
  <2> QED BY <2>1, <2>2
<1>7. \A a \in Agent : PassedBinding(a)' => PassedBinding(a)
  BY <1>1, <1>2 DEF PassedBinding, At, Others
<1>8. \A a \in Agent : PassedRecord(a)' => PassedRecord(a)
  BY <1>1, <1>2 DEF PassedRecord, Inspects, At, Others
<1> QED BY <1>3, <1>4, <1>5, <1>6, <1>7, <1>8, PruneFrame

LEMMA SettledReadToken ==
  ASSUME ProjectionInv, SettledInv, NEW r \in Refresher, ReadToken(r)
  PROVE  SettledInv'
<1>1. /\ Others(r) /\ refreshers[r].pc = "next" /\ refreshers'[r].pc = "lock"
      /\ \E n \in refreshers[r].todo : refreshers'[r].node = n /\ refreshers'[r].token = index[n].token
      /\ refreshers'[r].mode = refreshers[r].mode /\ refreshers'[r].todo = refreshers[r].todo
      /\ refreshers'[r].losses = refreshers[r].losses
  BY ReadTokenFacts DEF ProjectionInv
<1>2. UNCHANGED <<rows, version, Redis, tokens, losses, healed, notices>> BY DEF ReadToken, Database
<1>3. PrunedOnly BY <1>2, NothingPruned
<1>4. PICK n \in refreshers[r].todo : refreshers'[r].node = n /\ refreshers'[r].token = index[n].token BY <1>1
<1>5. n \in Node BY <1>1 DEF ProjectionInv, WriteIsCurrent, Current
<1>6. PassShaped(r) BY DEF SettledInv, PassInv
<1>7. PassShaped(r)'
  <2>1. index[n].token <= tokens BY <1>5 DEF SettledInv, RedisShaped
  <2> QED BY <1>1, <1>2, <1>4, <1>6, <2>1 DEF PassShaped
<1>8. \A m : ~ReadMissing(r, m)' /\ (FacesMissing(r, m)' => m = n) BY <1>1, <1>4 DEF ReadMissing, FacesMissing, At
<1>9. /\ InspectedIsRead(r)' /\ InspectedIsTracked(r)'
  BY <1>1 DEF InspectedIsRead, InspectedIsTracked, Inspects, At
<1>10. TokenIsOld(r)' BY <1>8 DEF TokenIsOld
<1>11. FacesMissing(r, n)' => rows'[n].state = "missing" BY <1>8 DEF FacesMissing
<1>12. index'[n].token = refreshers'[r].token BY <1>2, <1>4 DEF Redis
<1>13. EventSees(r)' /\ FullSees(r)' BY <1>8, <1>11, <1>12 DEF EventSees, FullSees
<1>14. PassInv(r)' BY <1>7, <1>9, <1>10, <1>13 DEF PassInv
<1> QED BY <1>1, <1>2, <1>3, <1>8, <1>14, SettledWalk

LEMMA SettledLockRow ==
  ASSUME ProjectionInv, SettledInv, NEW r \in Refresher, LockRow(r)
  PROVE  SettledInv'
<1> DEFINE n == refreshers[r].node
<1>1. /\ Others(r) /\ refreshers[r].pc = "lock" /\ refreshers'[r].pc = "write"
      /\ refreshers'[r].row = rows[n]
      /\ refreshers'[r].node = n /\ refreshers'[r].token = refreshers[r].token
      /\ refreshers'[r].mode = refreshers[r].mode /\ refreshers'[r].todo = refreshers[r].todo
      /\ refreshers'[r].losses = refreshers[r].losses
  BY LockRowFacts DEF ProjectionInv
<1>2. UNCHANGED <<rows, version, Redis, tokens, losses, healed, notices>> BY DEF LockRow, Database
<1>3. PrunedOnly BY <1>2, NothingPruned
<1>4. PassInv(r) BY DEF SettledInv
<1>5. PassShaped(r)' BY <1>1, <1>2, <1>4 DEF PassInv, PassShaped
<1>6. InspectedIsRead(r)' /\ InspectedIsTracked(r)'
  BY <1>1 DEF InspectedIsRead, InspectedIsTracked, Inspects, At
<1>7. \A m : /\ ReadMissing(r, m)' => m = n /\ rows[m].state = "missing"
             /\ FacesMissing(r, m)' => FacesMissing(r, m)
  BY <1>1, <1>2 DEF ReadMissing, FacesMissing, At
<1>8. TokenIsOld(r)' BY <1>2, <1>7 DEF TokenIsOld, Live
<1>9. EventSees(r)' BY <1>1, <1>2, <1>4, <1>7 DEF PassInv, EventSees, Redis
<1>10. FullSees(r)'
  <2> SUFFICES ASSUME NEW m \in Node, UpToDate(r)', FacesMissing(r, m)'
               PROVE  \/ Agrees(m)' \/ Owed(m)'
                      \/ rows'[m].state = "missing" /\ index'[m].token = refreshers'[r].token
    BY DEF FullSees
  <2>1. UpToDate(r) /\ FacesMissing(r, m) BY <1>1, <1>2, <1>7 DEF UpToDate
  <2>2. \/ Agrees(m) \/ Owed(m)
        \/ rows[m].state = "missing" /\ index[m].token = refreshers[r].token
    BY <1>4, <2>1 DEF PassInv, FullSees
  <2>3. Agrees(m) => Agrees(m)' BY <1>3, PruneKeepsAgreement
  <2>4. Owed(m) => Owed(m)' BY <1>1, <1>2 DEF Owed, Walking, Others
  <2> QED BY <1>1, <1>2, <2>2, <2>3, <2>4 DEF Redis
<1>11. PassInv(r)' BY <1>5, <1>6, <1>8, <1>9, <1>10 DEF PassInv
<1>12. \A m \in Node : ReadMissing(r, m)' => ~Live(rows[m]) BY <1>7 DEF Live
<1> QED BY <1>1, <1>2, <1>3, <1>11, <1>12, SettledWalk

(* The end of a pass.                                                      *)
LEMMA SettledRest ==
  ASSUME ProjectionInv, SettledInv, NEW r \in Refresher, Others(r), Resting(r), PrunedOnly,
         healed' \in Nat, healed' <= losses, notices => notices',
         \A n \in Node : refreshers[r].mode = "event" /\ Walking(r, n) => notices',
         healed' = losses => \/ healed = losses
                             \/ /\ UpToDate(r) /\ At(r, "agents")
                                /\ refreshers[r].todo = {} /\ refreshers[r].node = 0
  PROVE  SettledInv'
<1>1. losses' = losses /\ tokens' = tokens BY DEF PrunedOnly
<1>2. PassInv(r)'
  <2>1. 0 <= tokens /\ 0 <= losses BY StoreFields DEF ProjectionInv
  <2>2. PassShaped(r)' BY <1>1, <2>1 DEF PassShaped, Resting
  <2> QED BY <2>2, PlainPass DEF Resting
<1>3. \A o \in Refresher : /\ UpToDate(o)' => o # r /\ UpToDate(o)
                           /\ o # r => refreshers'[o] = refreshers[o]
  BY <1>1 DEF UpToDate, Others, Resting
<1>4. \A n \in Node : Owed(n) => Owed(n)'
  <2> SUFFICES ASSUME NEW n \in Node, Owed(n), ~notices' PROVE Owed(n)' BY DEF Owed
  <2>1. PICK o \in Refresher : refreshers[o].mode = "event" /\ Walking(o, n) BY DEF Owed
  <2>2. o # r BY <2>1
  <2> QED BY <1>3, <2>1, <2>2 DEF Owed, Walking
<1>5. \A n \in Node : Passed(n)' => Passed(n)
  BY <1>1, <1>3 DEF Passed, Walking, At
<1>6. \A n \in Node : Known(n)' => Known(n)
  BY <1>3, <1>5 DEF Known, ReadMissing, At
<1>7. \A a \in Agent : PassedBinding(a)' => PassedBinding(a)
  BY <1>1, <1>3 DEF PassedBinding, At
<1>8. \A a \in Agent : PassedRecord(a)' => PassedRecord(a)
  BY <1>1, <1>3 DEF PassedRecord, Inspects, At
<1> QED BY <1>2, <1>4, <1>5, <1>6, <1>7, <1>8, PruneFrame

LEMMA SettledEnd ==
  ASSUME ProjectionInv, SettledInv, NEW r \in Refresher, Commit(r) \/ CompleteRepair(r) \/ Fail(r)
  PROVE  SettledInv'
<1>1. UNCHANGED <<rows, version, Redis, tokens, losses>> BY DEF Commit, CompleteRepair, Fail, Database
<1>2. PrunedOnly BY <1>1, NothingPruned
<1>3. Set(r, Free) BY DEF Commit, CompleteRepair, Fail
<1>4. Others(r) /\ Resting(r) BY <1>3, RestFacts DEF ProjectionInv
<1>5. healed \in Nat /\ healed <= losses BY DEF SettledInv, RedisShaped
<1>6. PassShaped(r) BY DEF SettledInv, PassInv
<1>7. CASE Commit(r)
  <2>1. healed' = healed /\ notices' = notices BY <1>7 DEF Commit, Database
  <2>2. refreshers[r].todo = {} BY <1>7 DEF Commit
  <2> QED BY <1>2, <1>4, <1>5, <2>1, <2>2, SettledRest DEF Walking
<1>8. CASE Fail(r)
  <2>1. healed' = healed /\ notices' = (notices \/ refreshers[r].mode = "event") BY <1>8 DEF Fail
  <2> QED BY <1>2, <1>4, <1>5, <2>1, SettledRest
<1>9. CASE CompleteRepair(r)
  <2>1. /\ notices' = notices
        /\ healed' = IF refreshers[r].losses > healed THEN refreshers[r].losses ELSE healed
        /\ At(r, "agents") /\ refreshers[r].todo = {} /\ refreshers[r].node = 0
    BY <1>9 DEF CompleteRepair, Database
  <2>2. refreshers[r].losses \in Nat /\ refreshers[r].losses <= losses
    BY <1>6, StoreFields DEF PassShaped, ProjectionInv
  <2>3. refreshers[r].mode = "full"
    <3>1. refreshers[r].mode \in {"none", "event", "full"} BY DEF ProjectionInv, TypeOK, Pass
    <3> QED BY <1>6, <2>1, <3>1 DEF PassShaped, At
  <2>4. healed' = losses => \/ healed = losses
                            \/ /\ UpToDate(r) /\ At(r, "agents")
                               /\ refreshers[r].todo = {} /\ refreshers[r].node = 0
    BY <2>1, <2>3 DEF UpToDate
  <2>5. \A n \in Node : ~Walking(r, n) BY <2>1 DEF Walking
  <2> QED BY <1>2, <1>4, <1>5, <2>1, <2>2, <2>4, <2>5, SettledRest
<1> QED BY <1>7, <1>8, <1>9

(* The scans for orphans, after the walk.                                  *)
LEMMA SettledScan ==
  ASSUME ProjectionInv, SettledInv, NEW r \in Refresher, Others(r), PrunedOnly, PassInv(r)',
         notices' = notices, healed' = healed,
         \A n \in Node : ~Walking(r, n) /\ ~Walking(r, n)',
         refreshers'[r].pc \in {"identities", "agents"},
         refreshers'[r].mode = refreshers[r].mode, refreshers'[r].losses = refreshers[r].losses,
         \A a \in Agent : UpToDate(r) /\ (At(r, "agents")' \/ a \notin refreshers'[r].todo) =>
            \/ PassedBinding(a) \/ identities'[a] = 0 \/ index[identities[a]].agent = a,
         \A a \in Agent : UpToDate(r) /\ At(r, "agents")' /\ a \notin refreshers'[r].todo /\ ~Inspects(r, a)' =>
            \/ PassedRecord(a) \/ agents'[a].node = 0 \/ index[agents[a].node].agent = a
  PROVE  SettledInv'
<1>1. losses' = losses BY DEF PrunedOnly
<1>2. \A o \in Refresher : (UpToDate(o)' <=> UpToDate(o)) /\ (o # r => refreshers'[o] = refreshers[o])
  BY <1>1 DEF UpToDate, Others
<1>3. \A n \in Node, o \in Refresher : Walking(o, n)' <=> Walking(o, n) BY <1>2 DEF Walking
<1>4. \A n \in Node : Owed(n) => Owed(n)' BY <1>2, <1>3 DEF Owed
<1>5. \A n \in Node : Passed(n)' => Passed(n) BY <1>1, <1>2, <1>3 DEF Passed
<1>6. \A n \in Node : Known(n)' => Known(n)
  <2>1. \A n \in Node : ~ReadMissing(r, n)' BY DEF ReadMissing, At
  <2> QED BY <1>2, <1>5, <2>1 DEF Known, ReadMissing, At
<1>7. healed' \in Nat /\ healed' <= losses BY DEF SettledInv, RedisShaped
<1>8. \A a \in Agent : PassedBinding(a)' => \/ PassedBinding(a) \/ identities'[a] = 0
                                            \/ index[identities[a]].agent = a
  <2> SUFFICES ASSUME NEW a \in Agent, PassedBinding(a)', ~PassedBinding(a)
               PROVE  identities'[a] = 0 \/ index[identities[a]].agent = a
    OBVIOUS
  <2>1. PICK o \in Refresher :
           UpToDate(o)' /\ (At(o, "agents")' \/ (At(o, "identities")' /\ a \notin refreshers'[o].todo))
    BY <1>1 DEF PassedBinding
  <2>2. o = r BY <1>2, <2>1 DEF PassedBinding, At
  <2> QED BY <1>2, <2>1, <2>2
<1>9. \A a \in Agent : PassedRecord(a)' => \/ PassedRecord(a) \/ agents'[a].node = 0
                                           \/ index[agents[a].node].agent = a
  <2> SUFFICES ASSUME NEW a \in Agent, PassedRecord(a)', ~PassedRecord(a)
               PROVE  agents'[a].node = 0 \/ index[agents[a].node].agent = a
    OBVIOUS
  <2>1. PICK o \in Refresher :
           UpToDate(o)' /\ At(o, "agents")' /\ a \notin refreshers'[o].todo /\ ~Inspects(o, a)'
    BY <1>1 DEF PassedRecord
  <2>2. o = r BY <1>2, <2>1 DEF PassedRecord, Inspects, At
  <2> QED BY <1>2, <2>1, <2>2
<1> QED BY <1>4, <1>5, <1>6, <1>7, <1>8, <1>9, PruneFrame

LEMMA SettledPrune ==
  ASSUME ProjectionInv, SettledInv, NEW r \in Refresher, Prune(r) \/ ScanAgents(r)
  PROVE  SettledInv'
<1>1. UNCHANGED <<rows, version, Redis, tokens, losses, healed, notices>> BY DEF Prune, ScanAgents, Database
<1>2. PrunedOnly BY <1>1, NothingPruned
<1>3. PassShaped(r) BY DEF SettledInv, PassInv
<1>4. CASE Prune(r)
  <2>1. /\ Others(r) /\ refreshers[r].pc = "next" /\ refreshers'[r].pc = "identities"
        /\ refreshers[r].todo = {} /\ refreshers[r].mode = "full"
        /\ refreshers'[r].node = refreshers[r].node /\ refreshers'[r].token = refreshers[r].token
        /\ refreshers'[r].mode = refreshers[r].mode
        /\ refreshers'[r].todo = {a \in Agent : identities[a] # 0}
        /\ refreshers'[r].losses = refreshers[r].losses
    BY <1>4, PruneFacts DEF ProjectionInv
  <2>2. PassShaped(r)' BY <1>1, <1>3, <2>1 DEF PassShaped
  <2>3. PassInv(r)' BY <2>1, <2>2, PlainPass
  <2>4. \A n \in Node : ~Walking(r, n) /\ ~Walking(r, n)' BY <2>1 DEF Walking
  <2>5. \A a \in Agent : a \notin refreshers'[r].todo => identities'[a] = 0 BY <1>1, <2>1 DEF Redis
  <2>6. ~At(r, "agents")' BY <2>1 DEF At
  <2> QED BY <1>1, <1>2, <2>1, <2>3, <2>4, <2>5, <2>6, SettledScan
<1>5. CASE ScanAgents(r)
  <2>1. /\ Others(r) /\ refreshers[r].pc = "identities" /\ refreshers'[r].pc = "agents"
        /\ refreshers[r].todo = {}
        /\ refreshers'[r].node = refreshers[r].node /\ refreshers'[r].token = refreshers[r].token
        /\ refreshers'[r].mode = refreshers[r].mode
        /\ refreshers'[r].todo = {a \in Agent : agents[a].node # 0}
        /\ refreshers'[r].losses = refreshers[r].losses
    BY <1>5, ScanFacts DEF ProjectionInv
  <2>2. PassShaped(r)' BY <1>1, <1>3, <2>1 DEF PassShaped
  <2>3. PassInv(r)' BY <1>3, <2>1, <2>2, PlainPass DEF PassShaped
  <2>4. \A n \in Node : ~Walking(r, n) /\ ~Walking(r, n)' BY <2>1 DEF Walking
  <2>5. \A a \in Agent : UpToDate(r) => PassedBinding(a) BY <2>1 DEF PassedBinding, At
  <2>6. \A a \in Agent : a \notin refreshers'[r].todo => agents'[a].node = 0 BY <1>1, <2>1 DEF Redis
  <2> QED BY <1>1, <1>2, <2>1, <2>3, <2>4, <2>5, <2>6, SettledScan
<1> QED BY <1>4, <1>5

LEMMA SettledInspect ==
  ASSUME ProjectionInv, SettledInv, NEW r \in Refresher, NEW a \in Agent, InspectAgent(r, a)
  PROVE  SettledInv'
<1>1. UNCHANGED <<rows, version, Redis, tokens, losses, healed, notices>> BY DEF InspectAgent, Database
<1>2. PrunedOnly BY <1>1, NothingPruned
<1>3. PassShaped(r) BY DEF SettledInv, PassInv
<1>4. /\ Others(r) /\ refreshers[r].pc = "agents" /\ refreshers'[r].pc = "agents"
      /\ refreshers[r].node = 0
      /\ refreshers'[r].node = agents[a].node
      /\ agents[a].node # 0 => refreshers'[r].token = agents[a].token /\ refreshers'[r].row.agent = a
      /\ agents[a].node = 0 => refreshers'[r].token = refreshers[r].token
      /\ refreshers'[r].mode = refreshers[r].mode
      /\ refreshers'[r].todo = refreshers[r].todo \ {a}
      /\ refreshers'[r].losses = refreshers[r].losses
  BY InspectFacts DEF ProjectionInv
<1>5. agents' = agents /\ agents[a].token <= tokens /\ (agents[a].node # 0 => agents[a].token # 0)
  BY <1>1 DEF Redis, SettledInv, RedisShaped
<1>6. PassShaped(r)' BY <1>1, <1>3, <1>4, <1>5 DEF PassShaped
<1>7. \A b \in Agent : Inspects(r, b)' <=> agents[a].node # 0 /\ b = a BY <1>4 DEF Inspects, At
<1>8. InspectedIsRead(r)' BY <1>4, <1>5, <1>7 DEF InspectedIsRead
<1>9. InspectedIsTracked(r)' BY <1>4, <1>5, <1>7 DEF InspectedIsTracked
<1>10. TokenIsOld(r)' /\ EventSees(r)' /\ FullSees(r)'
  BY <1>4 DEF TokenIsOld, EventSees, FullSees, FacesMissing, ReadMissing, At
<1>11. PassInv(r)' BY <1>6, <1>8, <1>9, <1>10 DEF PassInv
<1>12. \A n \in Node : ~Walking(r, n) /\ ~Walking(r, n)' BY <1>4 DEF Walking
<1>13. \A b \in Agent : UpToDate(r) => PassedBinding(b) BY <1>4 DEF PassedBinding, At
<1>14. \A b \in Agent : UpToDate(r) /\ b \notin refreshers'[r].todo /\ ~Inspects(r, b)'
          => PassedRecord(b) \/ agents'[b].node = 0
  BY <1>4, <1>5, <1>7 DEF PassedRecord, Inspects, At
<1> QED BY <1>1, <1>2, <1>4, <1>11, <1>12, <1>13, <1>14, SettledScan

(* Only a binding whose agent no row names is removed.                     *)
LEMMA IdentityPruned ==
  ASSUME ProjectionInv, SettledInv, NEW r \in Refresher, NEW a \in Agent, PruneIdentity(r, a)
  PROVE  PrunedOnly /\ (identities'[a] = 0 \/ (Owns(identities[a], a) /\ identities[a] # 0))
<1> DEFINE n == identities[a]
<1>1. UNCHANGED <<rows, version, index, members, tokens, losses>> BY DEF PruneIdentity, Database
<1>2. \A b \in Agent : b # a => agents'[b] = agents[b] /\ identities'[b] = identities[b]
  BY DEF PruneIdentity, ProjectionInv, TypeOK
<1>3. CASE n # 0 /\ ~Owns(n, a)
  <2>1. identities'[a] = 0 /\ agents'[a] \in {agents[a], NoAgent}
    BY <1>3 DEF PruneIdentity, ProjectionInv, TypeOK
  <2>2. ASSUME NEW m \in Node, Owns(m, a) PROVE FALSE
    <3>1. n \in {0, m} BY <2>2 DEF SettledInv, RedisShaped, Owns
    <3> QED BY <1>3, <2>2, <3>1
  <2>3. PrunedOnly BY <1>1, <1>2, <2>1, <2>2 DEF PrunedOnly
  <2> QED BY <2>1, <2>3
<1>4. CASE n = 0 \/ Owns(n, a)
  <2>1. agents' = agents /\ identities' = identities BY <1>4 DEF PruneIdentity
  <2> QED BY <1>1, <1>4, <2>1 DEF PrunedOnly
<1> QED BY <1>3, <1>4

(* A binding nobody owns goes; one that is owned is in the index.          *)
LEMMA SettledPruneIdentity ==
  ASSUME ProjectionInv, SettledInv, NEW r \in Refresher, NEW a \in Agent, PruneIdentity(r, a)
  PROVE  SettledInv'
<1> DEFINE n == identities[a]
<1>1. UNCHANGED <<rows, version, index, members, tokens, losses, healed, notices>>
  BY DEF PruneIdentity, Database
<1>2. /\ Others(r) /\ refreshers[r].pc = "identities" /\ refreshers'[r].pc = "identities"
      /\ refreshers'[r].node = refreshers[r].node /\ refreshers'[r].token = refreshers[r].token
      /\ refreshers'[r].mode = refreshers[r].mode
      /\ refreshers'[r].todo = refreshers[r].todo \ {a}
      /\ refreshers'[r].losses = refreshers[r].losses
  BY UnboundFacts DEF ProjectionInv
<1>3. n \in 0..Nodes BY StoreFields DEF ProjectionInv
<1>5. PassShaped(r) BY DEF SettledInv, PassInv
<1>6. PassShaped(r)' BY <1>1, <1>2, <1>5 DEF PassShaped
<1>7. PassInv(r)' BY <1>2, <1>6, PlainPass
<1>8. \A m \in Node : ~Walking(r, m) /\ ~Walking(r, m)' BY <1>2 DEF Walking
<1>9. PrunedOnly /\ (identities'[a] = 0 \/ (Owns(n, a) /\ n # 0)) BY IdentityPruned
<1>10. UpToDate(r) => identities'[a] = 0 \/ index[identities[a]].agent = a
  <2> SUFFICES ASSUME UpToDate(r), Owns(n, a), n # 0 PROVE index[n].agent = a BY <1>9
  <2>1. n \in Node BY <1>3, ProjectionAssumption DEF Node
  <2>2. Known(n) BY <1>8, <2>1 DEF Known, Passed
  <2> QED BY <2>1, <2>2 DEF SettledInv, KnownIsTracked, Owns
<1>11. \A b \in Agent : UpToDate(r) /\ b # a /\ b \notin refreshers'[r].todo => PassedBinding(b)
  BY <1>2 DEF PassedBinding, At
<1>12. ~At(r, "agents")' BY <1>2 DEF At
<1>13. \A b \in Agent : UpToDate(r) /\ b \notin refreshers'[r].todo =>
          \/ PassedBinding(b) \/ identities'[b] = 0 \/ index[identities[b]].agent = b
  BY <1>10, <1>11
<1> QED BY <1>1, <1>2, <1>7, <1>8, <1>9, <1>12, <1>13, SettledScan

(* Only a record whose agent no row names is removed.                      *)
LEMMA AgentPruned ==
  ASSUME ProjectionInv, SettledInv, NEW r \in Refresher, PruneAgent(r)
  PROVE  PrunedOnly
<1> DEFINE n == refreshers[r].node  a == refreshers[r].row.agent
<1>1. UNCHANGED <<rows, version, index, identities, members, tokens, losses>> BY DEF PruneAgent, Database
<1>2. PassInv(r) /\ n # 0 /\ At(r, "agents") BY DEF SettledInv, PruneAgent
<1>3. a \in Agent BY <1>2 DEF PassInv, PassShaped, At
<1>4. agents[a].token = refreshers[r].token => agents[a].node = n
  BY <1>2, <1>3 DEF PassInv, InspectedIsRead, Inspects
<1>5. agents' = IF ~Owns(n, a) /\ agents[a].token = refreshers[r].token
                THEN [agents EXCEPT ![a] = NoAgent] ELSE agents
  BY DEF PruneAgent
<1> HIDE DEF n, a
<1>6. CASE ~Owns(n, a) /\ agents[a].token = refreshers[r].token
  <2>1. ASSUME NEW m \in Node, Owns(m, a) PROVE FALSE
    <3>1. agents[a].node \in {0, m} BY <1>3, <2>1 DEF SettledInv, RedisShaped, Owns
    <3> QED BY <1>2, <1>4, <1>6, <2>1, <3>1
  <2>2. \A b \in Agent : agents'[b] = IF b = a THEN NoAgent ELSE agents[b]
    BY <1>5, <1>6 DEF ProjectionInv, TypeOK
  <2> QED BY <1>1, <2>1, <2>2 DEF PrunedOnly
<1>7. CASE ~(~Owns(n, a) /\ agents[a].token = refreshers[r].token)
  <2>1. agents' = agents BY <1>5, <1>7
  <2> QED BY <1>1, <2>1 DEF PrunedOnly
<1> QED BY <1>6, <1>7

(* A record goes as it was inspected; one that is owned, or was written    *)
(* since, is in the index.                                                 *)
LEMMA SettledPruneAgent ==
  ASSUME ProjectionInv, SettledInv, NEW r \in Refresher, PruneAgent(r)
  PROVE  SettledInv'
<1> DEFINE n == refreshers[r].node  a == refreshers[r].row.agent
<1>1. UNCHANGED <<rows, version, index, identities, members, tokens, losses, healed, notices>>
  BY DEF PruneAgent, Database
<1>2. /\ Others(r) /\ refreshers[r].pc = "agents" /\ refreshers'[r].pc = "agents"
      /\ n # 0
      /\ refreshers'[r].node = 0 /\ refreshers'[r].token = 0
      /\ refreshers'[r].mode = refreshers[r].mode /\ refreshers'[r].todo = refreshers[r].todo
      /\ refreshers'[r].losses = refreshers[r].losses
  BY PrunedFacts DEF ProjectionInv
<1>3. PassInv(r) BY DEF SettledInv
<1>4. n \in Node /\ a \in Agent
  <2>1. n \in 0..Nodes BY StoreFields DEF ProjectionInv
  <2> QED BY <1>2, <1>3, <2>1, ProjectionAssumption DEF Node, PassInv, PassShaped
<1>5. PassShaped(r)'
  <2>1. 0 <= tokens BY StoreFields DEF ProjectionInv
  <2> QED BY <1>1, <1>2, <1>3, <2>1 DEF PassInv, PassShaped
<1>6. PassInv(r)' BY <1>2, <1>5, PlainPass
<1>7. \A m \in Node : ~Walking(r, m) /\ ~Walking(r, m)' BY <1>2 DEF Walking
<1>8. Inspects(r, a) BY <1>2 DEF Inspects, At
<1>9. agents[a].token = refreshers[r].token => agents[a].node = n BY <1>3, <1>4, <1>8 DEF PassInv, InspectedIsRead
<1>10. agents' = IF ~Owns(n, a) /\ agents[a].token = refreshers[r].token
                 THEN [agents EXCEPT ![a] = NoAgent] ELSE agents
  BY DEF PruneAgent
<1> HIDE DEF n, a
<1>11. PrunedOnly BY AgentPruned
<1>12. UpToDate(r) => agents'[a].node = 0 \/ index[agents[a].node].agent = a
  <2> SUFFICES ASSUME UpToDate(r) PROVE agents'[a].node = 0 \/ index[agents[a].node].agent = a OBVIOUS
  <2>1. CASE agents[a].token # refreshers[r].token
    <3>1. agents' = agents BY <1>10, <2>1
    <3> QED BY <1>3, <1>4, <1>8, <2>1, <3>1 DEF PassInv, InspectedIsTracked
  <2>2. CASE agents[a].token = refreshers[r].token /\ Owns(n, a)
    <3>1. Known(n) BY <1>4, <1>7 DEF Known, Passed
    <3>2. index[n].agent = a BY <1>4, <1>9, <2>2, <3>1 DEF SettledInv, KnownIsTracked, Owns
    <3> QED BY <1>9, <2>2, <3>2
  <2>3. CASE agents[a].token = refreshers[r].token /\ ~Owns(n, a)
    <3>1. agents'[a] = NoAgent BY <1>4, <1>10, <2>3 DEF ProjectionInv, TypeOK
    <3> QED BY <3>1 DEF NoAgent
  <2> QED BY <2>1, <2>2, <2>3
<1>13. \A b \in Agent : UpToDate(r) => PassedBinding(b) BY <1>2 DEF PassedBinding, At
<1>14. \A b \in Agent : UpToDate(r) /\ b # a /\ b \notin refreshers'[r].todo => PassedRecord(b)
  BY <1>2 DEF PassedRecord, Inspects, At, a
<1>15. \A b \in Agent : UpToDate(r) /\ b \notin refreshers'[r].todo =>
          \/ PassedRecord(b) \/ agents'[b].node = 0 \/ index[agents[b].node].agent = b
  BY <1>12, <1>14
<1> QED BY <1>1, <1>2, <1>6, <1>7, <1>11, <1>13, <1>15, SettledScan

-----------------------------------------------------------------------------
(* Changes of the tables and losses.                                       *)

(* A change is announced, and a new agent has no records.                  *)
LEMMA SettledChange ==
  ASSUME ProjectionInv, ProjectionInv', SettledInv, NEW n \in Node, Change(n)
  PROVE  SettledInv'
<1>1. /\ UNCHANGED <<agents, index, identities, members, refreshers, tokens, losses, healed>>
      /\ notices' = TRUE /\ version' = version + 1 /\ version + 1 \in 0..MaxVersion
  BY ProjectionAssumption DEF Change, Redis, ProjectionInv, TypeOK
<1>2. PICK row \in Changed(rows[n], version + 1) : rows' = [rows EXCEPT ![n] = row] BY DEF Change
<1>3. rows'[n] = row /\ \A m \in Node \ {n} : rows'[m] = rows[m] BY <1>2 DEF ProjectionInv, TypeOK
<1>4. /\ row.agent \in {0, version + 1, rows[n].agent}
      /\ Live(row) => \/ row.agent = version + 1
                      \/ Live(rows[n]) /\ row.agent = rows[n].agent
  BY <1>1, <1>2, ChangedTyped DEF ProjectionInv, TypeOK
<1>5. row.state = "missing" => row.agent = 0
  BY <1>1, <1>2, ChangedTyped DEF ProjectionInv, TypeOK
<1>6. version \in Nat BY StoreFields DEF ProjectionInv
<1>7. RedisShaped BY DEF SettledInv
<1>8. \A a \in Agent : a = version + 1 => identities[a] = 0 /\ agents[a].node = 0
  <2>1. \A a \in Agent : agents[a].node # 0 => a <= version BY DEF ProjectionInv, AgentsAreNew
  <2> QED BY <1>6, <1>7, <2>1 DEF RedisShaped
<1>9. RedisShaped'
  <2>1. \A m \in Node : /\ index'[m].agent # 0 => m \in members'
                        /\ index'[m].agent <= version' /\ index'[m].token <= tokens'
                        /\ rows'[m].state = "missing" => rows'[m].agent = 0
    <3>1. \A m \in Node : index[m].agent \in Nat BY StoreFields, ProjectionAssumption DEF ProjectionInv
    <3> QED BY <1>1, <1>3, <1>5, <1>6, <1>7, <3>1 DEF RedisShaped
  <2>2. \A a \in Agent : /\ identities'[a] # 0 => a <= version'
                         /\ agents'[a].token <= tokens'
                         /\ agents'[a].node # 0 => agents'[a].token # 0
                         /\ agents'[a].node = 0 => agents'[a].token = 0
    BY <1>1, <1>6, <1>7 DEF RedisShaped, Agent
  <2>3. \A a \in Agent, m \in Node :
           rows'[m].agent = a => identities'[a] \in {0, m} /\ agents'[a].node \in {0, m}
    <3>1. \A a \in Agent : a # 0 BY DEF Agent
    <3> QED BY <1>1, <1>3, <1>4, <1>7, <1>8, <3>1 DEF RedisShaped
  <2> QED BY <1>1, <1>7, <2>1, <2>2, <2>3 DEF RedisShaped
<1>10. \A m \in Node : Owed(m)' BY <1>1 DEF Owed
<1>11. ASSUME NEW r \in Refresher PROVE PassInv(r)'
  <2>1. PassInv(r) BY DEF SettledInv
  <2>2. PassShaped(r)' BY <1>1, <2>1 DEF PassInv, PassShaped
  <2>3. InspectedIsRead(r)' BY <1>1, <2>1 DEF PassInv, InspectedIsRead, Inspects, At
  <2>4. TokenIsOld(r)'
    <3> SUFFICES ASSUME NEW m \in Node, ReadMissing(r, m)', Live(rows'[m]),
                        index'[m].token = refreshers'[r].token
                 PROVE  index'[m].agent # rows'[m].agent
      BY DEF TokenIsOld, Live
    <3>1. ReadMissing(r, m) BY <1>1 DEF ReadMissing, At
    <3>2. index[m].agent <= version /\ index[m].agent \in Nat
      BY <1>7, StoreFields, ProjectionAssumption DEF RedisShaped, ProjectionInv
    <3>3. Live(rows[m]) => index[m].agent # rows[m].agent
      BY <1>1, <2>1, <3>1 DEF PassInv, TokenIsOld
    <3> QED BY <1>1, <1>3, <1>4, <1>6, <3>2, <3>3
  <2>5. EventSees(r)' BY <1>1 DEF EventSees
  <2>6. FullSees(r)' BY <1>10 DEF FullSees
  <2>7. InspectedIsTracked(r)' BY <1>1, <2>1 DEF PassInv, InspectedIsTracked, UpToDate, Inspects, At
  <2> QED BY <2>2, <2>3, <2>4, <2>5, <2>6, <2>7 DEF PassInv
<1>12. PassedAgrees' BY <1>10 DEF PassedAgrees
<1>13. KnownIsTracked'
  <2> SUFFICES ASSUME NEW m \in Node, Known(m)', Live(rows'[m]),
                      identities'[rows'[m].agent] = m \/ agents'[rows'[m].agent].node = m
               PROVE  index'[m].agent = rows'[m].agent
    BY DEF KnownIsTracked, Live
  <2>1. Known(m)
    BY <1>1 DEF Known, Passed, UpToDate, Walking, ReadMissing, At
  <2>2. m # 0 /\ (Live(rows[m]) => rows[m].agent \in Agent) BY AgentOfRow DEF Node
  <2>3. version + 1 \in Agent BY <1>1, <1>6 DEF Agent
  <2>4. Live(rows[m]) /\ rows'[m].agent = rows[m].agent BY <1>1, <1>3, <1>4, <1>8, <2>2, <2>3
  <2> QED BY <1>1, <2>1, <2>4 DEF SettledInv, KnownIsTracked
<1>14. BindingsTracked'
  <2>1. \A a \in Agent : PassedBinding(a)' => PassedBinding(a) BY <1>1 DEF PassedBinding, UpToDate, At
  <2> QED BY <1>1, <2>1 DEF SettledInv, BindingsTracked
<1>15. RecordsTracked'
  <2>1. \A a \in Agent : PassedRecord(a)' => PassedRecord(a) BY <1>1 DEF PassedRecord, UpToDate, Inspects, At
  <2> QED BY <1>1, <2>1 DEF SettledInv, RecordsTracked
<1> QED BY <1>9, <1>11, <1>12, <1>13, <1>14, <1>15 DEF SettledInv

(* After a loss nothing is known until a full pass has begun.              *)
LEMMA SettledLose ==
  ASSUME ProjectionInv, SettledInv, Lose
  PROVE  SettledInv'
<1>1. /\ UNCHANGED <<rows, version, notices, refreshers, tokens, healed>>
      /\ losses' = losses + 1 /\ losses \in Nat /\ tokens \in Nat /\ version \in Nat
  BY StoreFields DEF Lose, Database, ProjectionInv
<1>2. /\ \A a \in Agent : agents'[a] \in {agents[a], NoAgent} /\ identities'[a] \in {identities[a], 0}
      /\ \A n \in Node : index'[n] \in {index[n], NoIndex}
      /\ \A n \in Node : n \in members /\ n \notin members' => index'[n] = NoIndex
  BY DEF Lose, ProjectionInv, TypeOK
<1>3. RedisShaped BY DEF SettledInv
<1>4. \A r \in Refresher : ~UpToDate(r)'
  <2>1. \A r \in Refresher : refreshers[r].losses \in Nat /\ refreshers[r].losses <= losses
    BY StoreFields DEF SettledInv, PassInv, PassShaped, ProjectionInv
  <2> QED BY <1>1, <2>1 DEF UpToDate
<1>5. healed' # losses' /\ healed' \in Nat /\ healed' <= losses' BY <1>1, <1>3 DEF RedisShaped
<1>6. RedisShaped'
  <2>1. \A n \in Node : /\ index'[n].agent # 0 => n \in members'
                        /\ index'[n].agent <= version' /\ index'[n].token <= tokens'
                        /\ rows'[n].state = "missing" => rows'[n].agent = 0
    BY <1>1, <1>2, <1>3 DEF RedisShaped, NoIndex
  <2>2. \A a \in Agent : /\ identities'[a] # 0 => a <= version'
                         /\ agents'[a].token <= tokens'
                         /\ agents'[a].node # 0 => agents'[a].token # 0
                         /\ agents'[a].node = 0 => agents'[a].token = 0
    BY <1>1, <1>2, <1>3 DEF RedisShaped, NoAgent
  <2>3. \A a \in Agent, n \in Node :
           rows'[n].agent = a => identities'[a] \in {0, n} /\ agents'[a].node \in {0, n}
    BY <1>1, <1>2, <1>3 DEF RedisShaped, NoAgent
  <2> QED BY <1>5, <2>1, <2>2, <2>3 DEF RedisShaped
<1>7. ASSUME NEW r \in Refresher PROVE PassInv(r)'
  <2>1. PassInv(r) BY DEF SettledInv
  <2>2. PassShaped(r)'
    <3>1. refreshers[r].losses \in Nat BY StoreFields DEF ProjectionInv
    <3> QED BY <1>1, <2>1, <3>1 DEF PassInv, PassShaped
  <2>3. InspectedIsRead(r)' BY <1>1, <1>2, <2>1 DEF PassInv, InspectedIsRead, Inspects, At, NoAgent
  <2>4. TokenIsOld(r)'
    <3> SUFFICES ASSUME NEW n \in Node, ReadMissing(r, n)', Live(rows'[n]),
                        index'[n].token = refreshers'[r].token
                 PROVE  index'[n].agent # rows'[n].agent
      BY DEF TokenIsOld, Live
    <3>1. Live(rows[n]) /\ rows[n].agent # 0 BY <1>1 DEF ProjectionInv, AgentsAreNew
    <3>2. ReadMissing(r, n) BY <1>1 DEF ReadMissing, At
    <3> QED BY <1>1, <1>2, <2>1, <3>1, <3>2 DEF PassInv, TokenIsOld, NoIndex
  <2>5. EventSees(r)'
    <3>1. \A n \in Node : FacesMissing(r, n)' => FacesMissing(r, n) BY <1>1 DEF FacesMissing, ReadMissing, At
    <3> QED BY <1>1, <1>2, <2>1, <3>1 DEF PassInv, EventSees, NoIndex
  <2>6. FullSees(r)' /\ InspectedIsTracked(r)' BY <1>4 DEF FullSees, InspectedIsTracked
  <2> QED BY <2>2, <2>3, <2>4, <2>5, <2>6 DEF PassInv
<1>8. \A n : ~Passed(n)' /\ ~Known(n)' /\ ~PassedBinding(n)' /\ ~PassedRecord(n)'
  BY <1>4, <1>5 DEF Passed, Known, PassedBinding, PassedRecord
<1>9. PassedAgrees' /\ KnownIsTracked' /\ BindingsTracked' /\ RecordsTracked'
  BY <1>8 DEF PassedAgrees, KnownIsTracked, BindingsTracked, RecordsTracked
<1> QED BY <1>6, <1>7, <1>9 DEF SettledInv

-----------------------------------------------------------------------------
(* The write of a node.                                                    *)

(* A node gone when read, whose projection was written since: nothing is   *)
(* written, and whoever wrote it, or the notice of the change, sees to it. *)
LEMMA SettledSkip ==
  ASSUME ProjectionInv, SettledInv, NEW r \in Refresher, Write(r), ~MayWrite(r)
  PROVE  SettledInv'
<1> DEFINE n == refreshers[r].node
<1>1. /\ Others(r) /\ refreshers[r].pc = "write" /\ refreshers'[r].pc = "next"
      /\ refreshers'[r].node = 0 /\ refreshers'[r].token = 0
      /\ refreshers'[r].mode = refreshers[r].mode
      /\ refreshers'[r].todo = refreshers[r].todo \ {n}
      /\ refreshers'[r].losses = refreshers[r].losses
  BY WrittenFacts DEF ProjectionInv
<1>2. UNCHANGED <<rows, version, Redis, tokens, losses, healed, notices>> BY DEF Write, Database
<1>3. PrunedOnly BY <1>2, NothingPruned
<1>4. PassInv(r) BY DEF SettledInv
<1>5. n \in Node BY <1>1 DEF ProjectionInv, WriteIsCurrent, Current
<1>6. ReadMissing(r, n) /\ index[n].token # refreshers[r].token BY <1>1 DEF MayWrite, ReadMissing, At
<1>7. PassInv(r)'
  <2>1. 0 <= tokens BY StoreFields DEF ProjectionInv
  <2>2. PassShaped(r)' BY <1>1, <1>2, <1>4, <2>1 DEF PassInv, PassShaped
  <2> QED BY <1>1, <2>2, PlainPass
<1> HIDE DEF n
<1>8. \A o \in Refresher : /\ UpToDate(o)' <=> UpToDate(o)
                           /\ refreshers'[o].mode = refreshers[o].mode
                           /\ o # r => refreshers'[o] = refreshers[o]
  BY <1>1, <1>2 DEF UpToDate, Others
<1>9. \A m \in Node, o \in Refresher : o # r \/ m # n => (Walking(o, m)' <=> Walking(o, m))
  BY <1>1, <1>8 DEF Walking
<1>10. ASSUME NEW m \in Node, Owed(m) PROVE Owed(m)' \/ Agrees(m)
  <2>1. CASE notices BY <1>2, <2>1 DEF Owed
  <2>2. CASE ~notices
    <3>1. PICK o \in Refresher : refreshers[o].mode = "event" /\ Walking(o, m) BY <1>10, <2>2 DEF Owed
    <3>2. CASE o # r \/ m # n BY <1>8, <1>9, <3>1, <3>2 DEF Owed
    <3>3. CASE o = r /\ m = n
      <4>1. rows[n].state = "missing" /\ index[n].agent = 0
        BY <1>4, <1>5, <1>6, <2>2, <3>1, <3>3 DEF PassInv, EventSees, FacesMissing
      <4> QED BY <3>3, <4>1 DEF Agrees, Live
    <3> QED BY <3>2, <3>3
  <2> QED BY <2>1, <2>2
<1>11. \A m \in Node : Passed(m)' => Passed(m) \/ Agrees(m) \/ Owed(m)'
  <2> SUFFICES ASSUME NEW m \in Node, Passed(m)', ~Passed(m) PROVE Agrees(m) \/ Owed(m)' OBVIOUS
  <2>1. PICK o \in Refresher : UpToDate(o)' /\ ~Walking(o, m)' BY <1>2 DEF Passed
  <2>2. o = r /\ m = n BY <1>8, <1>9, <2>1 DEF Passed
  <2>3. Agrees(n) \/ Owed(n) BY <1>4, <1>5, <1>6, <1>8, <2>1, <2>2 DEF PassInv, FullSees, FacesMissing
  <2> QED BY <1>5, <1>10, <2>2, <2>3
<1>12. \A m \in Node : Known(m)' => Known(m)
  <2> SUFFICES ASSUME NEW m \in Node, NEW o \in Refresher, UpToDate(o)', ~Walking(o, m)' \/ ReadMissing(o, m)',
                      healed # losses
               PROVE  Known(m)
    BY <1>2 DEF Known, Passed
  <2>1. CASE o = r /\ m = n BY <1>6, <1>8, <2>1 DEF Known
  <2>2. CASE o # r \/ m # n
    <3>1. ~ReadMissing(r, m)' BY <1>1 DEF ReadMissing, At
    <3> QED BY <1>8, <1>9, <2>2, <3>1 DEF Known, Passed, ReadMissing, At
  <2> QED BY <2>1, <2>2
<1>13. \A a \in Agent : PassedBinding(a)' => PassedBinding(a)
  BY <1>1, <1>2, <1>8 DEF PassedBinding, At
<1>14. \A a \in Agent : PassedRecord(a)' => PassedRecord(a)
  BY <1>1, <1>2, <1>8 DEF PassedRecord, Inspects, At
<1>15. healed' \in Nat /\ healed' <= losses BY <1>2 DEF SettledInv, RedisShaped
<1> QED BY <1>1, <1>2, <1>3, <1>7, <1>10, <1>11, <1>12, <1>13, <1>14, <1>15, PruneFrame

(* What the script stores for a node: its row's agent c, or nothing (0).   *)
Stores(n, c) ==
    /\ UNCHANGED <<rows, version, notices, losses, healed>>
    /\ tokens' = tokens + 1
    /\ index'[n].agent = c /\ index'[n].token = (IF c = 0 THEN 0 ELSE tokens + 1)
    /\ \A m \in Node : m # n => index'[m] = index[m] /\ (m \in members <=> m \in members')
    /\ n \in members' <=> c # 0
    /\ c # 0 => Live(rows[n]) /\ c = rows[n].agent
    /\ \A a \in Agent : a = c =>
          /\ agents'[a].node = n /\ agents'[a].version = rows[n].version /\ agents'[a].token = tokens + 1
          /\ identities'[a] = n
    /\ \A a \in Agent : a # c =>
          /\ agents'[a] = IF a = index[n].agent /\ agents[a].node = n THEN NoAgent ELSE agents[a]
          /\ identities'[a] = IF a = index[n].agent /\ identities[a] = n THEN 0 ELSE identities[a]

LEMMA WriteFacts ==
  ASSUME ProjectionInv, NEW r \in Refresher, Write(r), MayWrite(r)
  PROVE  \E c : /\ Stores(refreshers[r].node, c)
                /\ c = 0 <=> ~Live(refreshers[r].row)
<1> DEFINE f == refreshers[r]  n == f.node  keep == Projected(f)
<1>1. At(r, "write") /\ n \in Node BY DEF Write, At, ProjectionInv, WriteIsCurrent, Current
<1>2. /\ Without(n, index[n].agent, keep)
      /\ index' = [index EXCEPT ![n] = IF keep.agent = 0 THEN NoIndex
                                       ELSE [agent |-> keep.agent, token |-> tokens + 1]]
      /\ members' = IF keep.agent = 0 THEN members \ {n} ELSE members \cup {n}
      /\ tokens' = tokens + 1
      /\ UNCHANGED <<rows, version, notices, losses, healed>>
  BY DEF Write, Database
<1>3. Live(f.row) => f.row = rows[n] /\ rows[n].agent # 0
  BY <1>1 DEF ProjectionInv, WriteIsCurrent, Current, AgentsAreNew, At, Live
<1>4. /\ Live(f.row) => /\ keep.agent = f.row.agent /\ keep.record.node = n
                        /\ keep.record.version = f.row.version /\ keep.record.token = tokens + 1
      /\ ~Live(f.row) => keep.agent = 0
  BY DEF Projected
<1>5. keep.agent = 0 <=> ~Live(f.row) BY <1>3, <1>4
<1> HIDE DEF keep
<1>6. \A a \in Agent :
        /\ a = keep.agent => agents'[a] = keep.record /\ identities'[a] = n
        /\ a # keep.agent =>
            /\ agents'[a] = IF a = index[n].agent /\ agents[a].node = n THEN NoAgent ELSE agents[a]
            /\ identities'[a] = IF a = index[n].agent /\ identities[a] = n THEN 0 ELSE identities[a]
  BY <1>2 DEF Without
<1>7. \A a \in Agent : a # 0 BY DEF Agent
<1>8. /\ index'[n].agent = keep.agent /\ index'[n].token = (IF keep.agent = 0 THEN 0 ELSE tokens + 1)
      /\ \A m \in Node : m # n => index'[m] = index[m]
  <2>1. index'[n] = (IF keep.agent = 0 THEN NoIndex ELSE [agent |-> keep.agent, token |-> tokens + 1])
        /\ \A m \in Node : m # n => index'[m] = index[m]
    BY <1>1, <1>2 DEF ProjectionInv, TypeOK
  <2> QED BY <2>1 DEF NoIndex
<1>9. n \in members' <=> keep.agent # 0 BY <1>2
<1>10. \A m \in Node : m # n => (m \in members <=> m \in members') BY <1>2
<1>11. keep.agent # 0 => Live(rows[n]) /\ keep.agent = rows[n].agent BY <1>3, <1>4, <1>5
<1>12. \A a \in Agent : a = keep.agent =>
          /\ agents'[a].node = n /\ agents'[a].version = rows[n].version /\ agents'[a].token = tokens + 1
          /\ identities'[a] = n
  BY <1>3, <1>4, <1>5, <1>6, <1>7
<1> HIDE DEF n
<1>13. Stores(n, keep.agent) BY <1>2, <1>6, <1>8, <1>9, <1>10, <1>11, <1>12 DEF Stores
<1> QED BY <1>5, <1>13 DEF n

(* The other nodes' projections are left alone.                            *)
LEMMA StoreKeepsOthers ==
  ASSUME ProjectionInv, NEW n \in Node, NEW c, Stores(n, c), NEW m \in Node, m # n, Agrees(m)
  PROVE  Agrees(m)'
<1>1. rows' = rows /\ index'[m] = index[m] /\ (m \in members <=> m \in members') BY DEF Stores
<1>2. CASE Live(rows[m])
  <2> DEFINE a == rows[m].agent
  <2>1. a \in Agent /\ a # 0 /\ \A o \in Node : rows[o].agent = a => o = m BY <1>2, AgentOfRow DEF Agent
  <2>2. a # c BY <2>1 DEF Stores
  <2>3. agents[a].node = m /\ identities[a] = m BY <1>2 DEF Agrees
  <2>4. agents'[a] = agents[a] /\ identities'[a] = identities[a] BY <2>1, <2>2, <2>3 DEF Stores
  <2> QED BY <1>1, <1>2, <2>4 DEF Agrees
<1>3. CASE ~Live(rows[m]) BY <1>1, <1>3 DEF Agrees
<1> QED BY <1>2, <1>3

(* The node agrees, unless it was missing when read and is not any more.   *)
LEMMA StoreAgrees ==
  ASSUME ProjectionInv, NEW n \in Node, NEW c, Stores(n, c), c # 0 \/ ~Live(rows[n])
  PROVE  Agrees(n)'
<1>1. rows' = rows /\ index'[n].agent = c BY DEF Stores
<1>2. CASE c # 0
  <2>1. Live(rows[n]) /\ c = rows[n].agent BY <1>2 DEF Stores
  <2>2. c \in Agent BY <2>1, AgentOfRow
  <2>3. /\ agents'[c].node = n /\ agents'[c].version = rows[n].version
        /\ identities'[c] = n /\ n \in members'
    BY <1>2, <2>2 DEF Stores
  <2> QED BY <1>1, <2>1, <2>3 DEF Agrees
<1>3. CASE c = 0 /\ ~Live(rows[n]) BY <1>1, <1>3 DEF Agrees
<1> QED BY <1>2, <1>3

LEMMA StoreKeepsRedis ==
  ASSUME ProjectionInv, SettledInv, NEW n \in Node, NEW c, Stores(n, c)
  PROVE  RedisShaped'
<1>1. RedisShaped BY DEF SettledInv
<1>2. tokens \in Nat /\ version \in Nat BY StoreFields DEF ProjectionInv
<1>3. c # 0 => Live(rows[n]) /\ c = rows[n].agent /\ c <= version
  BY DEF Stores, ProjectionInv, AgentsAreNew
<1>4. \A m \in Node : /\ index'[m].agent # 0 => m \in members'
                      /\ index'[m].agent <= version' /\ index'[m].token <= tokens'
                      /\ rows'[m].state = "missing" => rows'[m].agent = 0
  <2>1. ASSUME NEW m \in Node PROVE /\ index'[m].agent # 0 => m \in members'
                                    /\ index'[m].agent <= version' /\ index'[m].token <= tokens'
    <3>1. index[m].token \in Nat BY StoreFields DEF ProjectionInv
    <3>2. CASE m = n BY <1>2, <1>3, <3>2 DEF Stores
    <3>3. CASE m # n BY <1>1, <1>2, <3>1, <3>3 DEF Stores, RedisShaped
    <3> QED BY <3>2, <3>3
  <2>2. rows' = rows BY DEF Stores
  <2> QED BY <1>1, <2>1, <2>2 DEF RedisShaped
<1>5. ASSUME NEW a \in Agent PROVE /\ identities'[a] # 0 => a <= version'
                                   /\ agents'[a].token <= tokens'
                                   /\ agents'[a].node # 0 => agents'[a].token # 0
                                   /\ agents'[a].node = 0 => agents'[a].token = 0
  <2>0. a # 0 /\ n # 0 /\ agents[a].token \in Nat BY StoreFields DEF Agent, Node, ProjectionInv
  <2>1. CASE a = c BY <1>2, <1>3, <2>0, <2>1 DEF Stores
  <2>2. CASE a # c
    <3>1. agents'[a] \in {agents[a], NoAgent} /\ identities'[a] \in {identities[a], 0} BY <2>2 DEF Stores
    <3>2. tokens' = tokens + 1 /\ version' = version BY DEF Stores
    <3> QED BY <1>1, <1>2, <2>0, <3>1, <3>2 DEF RedisShaped, NoAgent
  <2> QED BY <2>1, <2>2
<1>6. ASSUME NEW a \in Agent, NEW m \in Node, rows'[m].agent = a
      PROVE  identities'[a] \in {0, m} /\ agents'[a].node \in {0, m}
  <2>0. a # 0 /\ rows[m].agent = a BY <1>6 DEF Agent, Stores
  <2>1. CASE a = c
    <3>1. m = n BY <1>3, <2>0, <2>1 DEF ProjectionInv, AgentsAreNew
    <3> QED BY <2>1, <3>1 DEF Stores
  <2>2. CASE a # c
    <3>1. agents'[a] \in {agents[a], NoAgent} /\ identities'[a] \in {identities[a], 0} BY <2>2 DEF Stores
    <3> QED BY <1>1, <2>0, <3>1 DEF RedisShaped, NoAgent
  <2> QED BY <2>1, <2>2
<1>7. healed' \in Nat /\ healed' <= losses' BY <1>1 DEF Stores, RedisShaped
<1> QED BY <1>4, <1>5, <1>6, <1>7 DEF RedisShaped

(* What the other passes know stays true.                                  *)
LEMMA StoreKeepsPasses ==
  ASSUME ProjectionInv, SettledInv, NEW n \in Node, NEW c, Stores(n, c),
         c = 0 /\ Live(rows[n]) => index[n].agent # rows[n].agent,
         \A m \in Node : Owed(m) => Owed(m)' \/ Agrees(m)',
         NEW o \in Refresher, refreshers'[o] = refreshers[o]
  PROVE  PassInv(o)'
<1>1. PassInv(o) BY DEF SettledInv
<1>2. /\ tokens \in Nat /\ refreshers[o].token \in Nat /\ refreshers[o].token <= tokens
  BY <1>1, StoreFields DEF ProjectionInv, PassInv, PassShaped
<1>3. PassShaped(o)' BY <1>1, <1>2 DEF PassInv, PassShaped, Stores
<1>4. InspectedIsRead(o)'
  <2> SUFFICES ASSUME NEW a \in Agent, Inspects(o, a)'
               PROVE  /\ refreshers'[o].token # 0
                      /\ agents'[a].token = refreshers'[o].token => agents'[a].node = refreshers'[o].node
    BY DEF InspectedIsRead
  <2>1. Inspects(o, a) BY DEF Inspects, At
  <2>2. /\ refreshers[o].token # 0
        /\ agents[a].token = refreshers[o].token => agents[a].node = refreshers[o].node
    BY <1>1, <2>1 DEF PassInv, InspectedIsRead
  <2>3. CASE a = c
    <3>1. agents'[a].token = tokens + 1 BY <2>3 DEF Stores
    <3> QED BY <1>2, <2>2, <3>1
  <2>4. CASE a # c
    <3>1. agents'[a] \in {agents[a], NoAgent} BY <2>4 DEF Stores
    <3> QED BY <2>2, <3>1 DEF NoAgent
  <2> QED BY <2>3, <2>4
<1>5. TokenIsOld(o)'
  <2> SUFFICES ASSUME NEW m \in Node, ReadMissing(o, m)', Live(rows'[m]),
                      index'[m].token = refreshers'[o].token
               PROVE  index'[m].agent # rows'[m].agent
    BY DEF TokenIsOld, Live
  <2>1. ReadMissing(o, m) /\ rows' = rows BY DEF ReadMissing, At, Stores
  <2>2. CASE m # n BY <1>1, <2>1, <2>2 DEF PassInv, TokenIsOld, Stores
  <2>3. CASE m = n
    <3>1. rows[m].agent # 0 BY <2>1 DEF ProjectionInv, AgentsAreNew
    <3>2. c = 0 BY <1>2, <2>3 DEF Stores
    <3> QED BY <2>1, <2>3, <3>1, <3>2 DEF Stores
  <2> QED BY <2>2, <2>3
<1>6. \A m \in Node : FacesMissing(o, m)' => FacesMissing(o, m)
  BY DEF FacesMissing, ReadMissing, At, Stores
<1>7. rows[n].state = "missing" => c = 0 /\ ~Live(rows[n]) BY DEF Stores, Live
<1>8. EventSees(o)'
  <2> SUFFICES ASSUME NEW m \in Node, refreshers'[o].mode = "event", FacesMissing(o, m)', ~notices'
               PROVE  /\ rows'[m].state = "missing"
                      /\ index'[m].agent = 0 \/ index'[m].token = refreshers'[o].token
    BY DEF EventSees
  <2>1. /\ rows[m].state = "missing"
        /\ index[m].agent = 0 \/ index[m].token = refreshers[o].token
    BY <1>1, <1>6 DEF PassInv, EventSees, Stores
  <2> QED BY <1>7, <2>1 DEF Stores
<1>9. FullSees(o)'
  <2> SUFFICES ASSUME NEW m \in Node, UpToDate(o)', FacesMissing(o, m)'
               PROVE  \/ Agrees(m)' \/ Owed(m)'
                      \/ rows'[m].state = "missing" /\ index'[m].token = refreshers'[o].token
    BY DEF FullSees
  <2>1. UpToDate(o) BY DEF UpToDate, Stores
  <2>2. \/ Agrees(m) \/ Owed(m)
        \/ rows[m].state = "missing" /\ index[m].token = refreshers[o].token
    BY <1>1, <1>6, <2>1 DEF PassInv, FullSees
  <2>3. CASE m # n
    <3>1. Agrees(m) => Agrees(m)' BY <2>3, StoreKeepsOthers
    <3> QED BY <2>2, <2>3, <3>1 DEF Stores
  <2>4. CASE m = n /\ (c # 0 \/ ~Live(rows[n])) BY <2>4, StoreAgrees
  <2>5. CASE m = n /\ c = 0 /\ Live(rows[n])
    <3>1. ~Agrees(n) /\ rows[n].state # "missing" BY <2>5 DEF Agrees, Live
    <3> QED BY <2>2, <2>5, <3>1
  <2> QED BY <2>3, <2>4, <2>5
<1>10. InspectedIsTracked(o)'
  <2> SUFFICES ASSUME NEW a \in Agent, UpToDate(o)', Inspects(o, a)', agents'[a].node # 0,
                      agents'[a].token # refreshers'[o].token
               PROVE  index'[agents'[a].node].agent = a
    BY DEF InspectedIsTracked
  <2>1. UpToDate(o) /\ Inspects(o, a) BY DEF UpToDate, Inspects, At, Stores
  <2>2. CASE a = c BY <2>2 DEF Stores
  <2>3. CASE a # c
    <3>1. agents'[a] = agents[a] /\ ~(a = index[n].agent /\ agents[a].node = n) BY <2>3 DEF Stores, NoAgent
    <3>2. index[agents[a].node].agent = a BY <1>1, <2>1, <3>1 DEF PassInv, InspectedIsTracked
    <3>3. agents[a].node \in Node
      <4>1. agents[a].node \in 0..Nodes BY StoreFields DEF ProjectionInv
      <4> QED BY <3>1, <4>1, ProjectionAssumption DEF Node
    <3>4. agents[a].node # n BY <3>1, <3>2
    <3>5. index'[agents[a].node] = index[agents[a].node] BY <3>3, <3>4 DEF Stores
    <3> QED BY <3>1, <3>2, <3>5
  <2> QED BY <2>2, <2>3
<1> QED BY <1>3, <1>4, <1>5, <1>8, <1>9, <1>10 DEF PassInv

(* Such a step preserves the invariant if its own pass is in order, nobody *)
(* is forgotten and what it gets past agrees.                              *)
LEMMA StoreFrame ==
  ASSUME ProjectionInv, SettledInv, NEW n \in Node, NEW c, Stores(n, c),
         NEW r \in Refresher, Others(r), PassInv(r)',
         c = 0 /\ Live(rows[n]) => index[n].agent # rows[n].agent,
         \A m \in Node : Owed(m) => Owed(m)' \/ Agrees(m)',
         \A m \in Node : Passed(m)' => Passed(m) \/ Agrees(m)' \/ Owed(m)',
         \A m \in Node : Known(m)' => Known(m) \/ Agrees(m)',
         \A a \in Agent : PassedBinding(a)' => PassedBinding(a),
         \A a \in Agent : PassedRecord(a)' => PassedRecord(a)
  PROVE  SettledInv'
<1>1. \A o \in Refresher : PassInv(o)'
  <2> SUFFICES ASSUME NEW o \in Refresher, o # r PROVE PassInv(o)' OBVIOUS
  <2>1. refreshers'[o] = refreshers[o] BY DEF Others
  <2> QED BY <2>1, StoreKeepsPasses
<1>2. RedisShaped' BY StoreKeepsRedis
<1>3. \A m \in Node : Agrees(m) => Agrees(m)'
  <2> SUFFICES ASSUME NEW m \in Node, Agrees(m) PROVE Agrees(m)' OBVIOUS
  <2>1. CASE m # n BY <2>1, StoreKeepsOthers
  <2>2. CASE m = n
    <3>1. c # 0 \/ ~Live(rows[n]) BY <2>2 DEF Agrees
    <3> QED BY <2>2, <3>1, StoreAgrees
  <2> QED BY <2>1, <2>2
<1>4. PassedAgrees'
  <2> SUFFICES ASSUME NEW m \in Node, Passed(m)' PROVE Agrees(m)' \/ Owed(m)' BY DEF PassedAgrees
  <2> QED BY <1>3 DEF SettledInv, PassedAgrees
<1>5. KnownIsTracked'
  <2> SUFFICES ASSUME NEW m \in Node, Known(m)', Live(rows'[m]),
                      identities'[rows'[m].agent] = m \/ agents'[rows'[m].agent].node = m
               PROVE  index'[m].agent = rows'[m].agent
    BY DEF KnownIsTracked, Live
  <2>1. CASE Agrees(m)' BY <2>1 DEF Agrees
  <2>2. CASE ~Agrees(m)'
    <3> DEFINE a == rows[m].agent
    <3>1. rows' = rows /\ Known(m) /\ Live(rows[m]) BY <2>2 DEF Stores
    <3>2. a \in Agent /\ a # 0 /\ m # 0 /\ \A o \in Node : rows[o].agent = a => o = m
      BY <3>1, AgentOfRow DEF Agent, Node
    <3>3. a # c
      <4>1. ASSUME a = c PROVE FALSE
        <5>1. m = n BY <3>2, <4>1 DEF Stores
        <5> QED BY <2>2, <3>2, <4>1, <5>1, StoreAgrees
      <4> QED BY <4>1
    <3>4. /\ agents'[a] = IF a = index[n].agent /\ agents[a].node = n THEN NoAgent ELSE agents[a]
          /\ identities'[a] = IF a = index[n].agent /\ identities[a] = n THEN 0 ELSE identities[a]
      BY <3>2, <3>3 DEF Stores
    <3>5. identities[a] = m \/ agents[a].node = m BY <3>1, <3>2, <3>4 DEF NoAgent
    <3>6. index[m].agent = a BY <3>1, <3>5 DEF SettledInv, KnownIsTracked
    <3>7. m # n
      <4>1. ASSUME m = n PROVE FALSE
        <5>1. c = 0 BY <3>3, <4>1 DEF Stores
        <5> QED BY <3>1, <3>6, <4>1, <5>1
      <4> QED BY <4>1
    <3> QED BY <3>1, <3>6, <3>7 DEF Stores
  <2> QED BY <2>1, <2>2
<1>6. BindingsTracked'
  <2> SUFFICES ASSUME NEW a \in Agent, PassedBinding(a)', identities'[a] # 0
               PROVE  index'[identities'[a]].agent = a
    BY DEF BindingsTracked
  <2>1. CASE a = c BY <2>1 DEF Stores
  <2>2. CASE a # c
    <3>1. identities'[a] = identities[a] /\ ~(a = index[n].agent /\ identities[a] = n) BY <2>2 DEF Stores
    <3>2. index[identities[a]].agent = a BY <3>1 DEF SettledInv, BindingsTracked
    <3>3. identities[a] \in Node
      <4>1. identities[a] \in 0..Nodes BY StoreFields DEF ProjectionInv
      <4> QED BY <3>1, <4>1, ProjectionAssumption DEF Node
    <3>4. index'[identities[a]] = index[identities[a]] BY <3>1, <3>2, <3>3 DEF Stores
    <3> QED BY <3>1, <3>2, <3>4
  <2> QED BY <2>1, <2>2
<1>7. RecordsTracked'
  <2> SUFFICES ASSUME NEW a \in Agent, PassedRecord(a)', agents'[a].node # 0
               PROVE  index'[agents'[a].node].agent = a
    BY DEF RecordsTracked
  <2>1. CASE a = c BY <2>1 DEF Stores
  <2>2. CASE a # c
    <3>1. agents'[a] = agents[a] /\ ~(a = index[n].agent /\ agents[a].node = n) BY <2>2 DEF Stores, NoAgent
    <3>2. index[agents[a].node].agent = a BY <3>1 DEF SettledInv, RecordsTracked
    <3>3. agents[a].node \in Node
      <4>1. agents[a].node \in 0..Nodes BY StoreFields DEF ProjectionInv
      <4> QED BY <3>1, <4>1, ProjectionAssumption DEF Node
    <3>4. index'[agents[a].node] = index[agents[a].node] BY <3>1, <3>2, <3>3 DEF Stores
    <3> QED BY <3>1, <3>2, <3>4
  <2> QED BY <2>1, <2>2
<1> QED BY <1>1, <1>2, <1>4, <1>5, <1>6, <1>7 DEF SettledInv

(* A write whose node was missing as it was read and exists by now removes *)
(* at most an agent the node had before.                                   *)
LEMMA WriteSpares ==
  ASSUME ProjectionInv, SettledInv, NEW r \in Refresher, Write(r), MayWrite(r)
  PROVE  \E n, c :
            /\ n \in Node /\ n = refreshers[r].node /\ Stores(n, c)
            /\ c = 0 /\ Live(rows[n]) => ReadMissing(r, n) /\ index[n].agent # rows[n].agent
<1>0. PICK n \in Node : n = refreshers[r].node
  BY DEF Write, At, ProjectionInv, WriteIsCurrent, Current
<1>1. At(r, "write") BY DEF Write
<1>2. PICK c : Stores(n, c) /\ (c = 0 <=> ~Live(refreshers[r].row)) BY <1>0, WriteFacts
<1>3. ASSUME c = 0, Live(rows[n]) PROVE ReadMissing(r, n) /\ index[n].agent # rows[n].agent
  <2>1. refreshers[r].row.state = "missing"
    BY <1>0, <1>1, <1>2, <1>3 DEF ProjectionInv, WriteIsCurrent, Current, At
  <2>2. ReadMissing(r, n) /\ index[n].token = refreshers[r].token
    BY <1>0, <1>1, <2>1 DEF ReadMissing, MayWrite
  <2>3. PassInv(r) BY DEF SettledInv
  <2> QED BY <1>3, <2>2, <2>3 DEF PassInv, TokenIsOld
<1> QED BY <1>0, <1>2, <1>3

(* A write makes its node agree.  It does not when the node was missing    *)
(* as it was read and exists by now: then the node did not agree before    *)
(* either, and the notice of its creation is still there.                  *)
LEMMA SettledStore ==
  ASSUME ProjectionInv, SettledInv, NEW r \in Refresher, Write(r), MayWrite(r)
  PROVE  SettledInv'
<1>0. PICK n, c :
         /\ n \in Node /\ n = refreshers[r].node /\ Stores(n, c)
         /\ c = 0 /\ Live(rows[n]) => ReadMissing(r, n) /\ index[n].agent # rows[n].agent
  BY WriteSpares
<1>1. /\ Others(r) /\ refreshers[r].pc = "write" /\ refreshers'[r].pc = "next"
      /\ refreshers'[r].node = 0 /\ refreshers'[r].token = 0
      /\ refreshers'[r].mode = refreshers[r].mode
      /\ refreshers'[r].todo = refreshers[r].todo \ {n}
      /\ refreshers'[r].losses = refreshers[r].losses
  BY <1>0, WrittenFacts DEF ProjectionInv
<1>2. Stores(n, c) BY <1>0
<1>3. PassInv(r) BY DEF SettledInv
<1>5. c = 0 /\ Live(rows[n]) => ReadMissing(r, n) /\ index[n].agent # rows[n].agent BY <1>0
<1>6. c # 0 \/ ~Live(rows[n]) => Agrees(n)' BY <1>0, <1>2, StoreAgrees
<1>7. PassInv(r)'
  <2>1. tokens \in Nat BY StoreFields DEF ProjectionInv
  <2>2. PassShaped(r)' BY <1>1, <1>2, <1>3, <2>1 DEF PassInv, PassShaped, Stores
  <2> QED BY <1>1, <2>2, PlainPass
<1>8. losses' = losses /\ healed' = healed /\ notices' = notices BY <1>2 DEF Stores
<1>9. \A o \in Refresher : /\ UpToDate(o)' <=> UpToDate(o)
                           /\ refreshers'[o].mode = refreshers[o].mode
                           /\ o # r => refreshers'[o] = refreshers[o]
  BY <1>1, <1>8 DEF UpToDate, Others
<1>10. \A m \in Node, o \in Refresher : o # r \/ m # n => (Walking(o, m)' <=> Walking(o, m))
  BY <1>1, <1>9 DEF Walking
<1>11. ASSUME NEW m \in Node, Owed(m) PROVE Owed(m)' \/ Agrees(m)'
  <2>1. CASE notices BY <1>8, <2>1 DEF Owed
  <2>2. CASE ~notices
    <3>1. PICK o \in Refresher : refreshers[o].mode = "event" /\ Walking(o, m) BY <1>11, <2>2 DEF Owed
    <3>2. CASE o # r \/ m # n BY <1>9, <1>10, <3>1, <3>2 DEF Owed
    <3>3. CASE o = r /\ m = n /\ (c # 0 \/ ~Live(rows[n])) BY <1>6, <3>3
    <3>4. CASE o = r /\ m = n /\ c = 0 /\ Live(rows[n])
      <4>1. rows[n].state = "missing"
        BY <1>3, <1>5, <2>2, <3>1, <3>4 DEF PassInv, EventSees, FacesMissing
      <4> QED BY <3>4, <4>1 DEF Live
    <3> QED BY <3>2, <3>3, <3>4
  <2> QED BY <2>1, <2>2
<1>12. \A m \in Node : Passed(m)' => Passed(m) \/ Agrees(m)' \/ Owed(m)'
  <2> SUFFICES ASSUME NEW m \in Node, Passed(m)', ~Passed(m), ~Agrees(m)' PROVE Owed(m)' OBVIOUS
  <2>1. PICK o \in Refresher : UpToDate(o)' /\ ~Walking(o, m)' BY <1>8 DEF Passed
  <2>2. o = r /\ m = n BY <1>9, <1>10, <2>1 DEF Passed
  <2>3. c = 0 /\ Live(rows[n]) BY <1>6, <2>2
  <2>4. ~Agrees(n) /\ rows[n].state # "missing" BY <1>5, <2>3 DEF Agrees, Live
  <2>5. Owed(n) BY <1>3, <1>5, <1>9, <2>1, <2>2, <2>3, <2>4 DEF PassInv, FullSees, FacesMissing
  <2> QED BY <1>11, <2>2, <2>5
<1>13. \A m \in Node : Known(m)' => Known(m) \/ Agrees(m)'
  <2> SUFFICES ASSUME NEW m \in Node, NEW o \in Refresher, UpToDate(o)', ~Walking(o, m)' \/ ReadMissing(o, m)',
                      healed # losses, ~Agrees(m)'
               PROVE  Known(m)
    BY <1>8 DEF Known, Passed
  <2>1. CASE o = r /\ m = n BY <1>5, <1>6, <1>9, <2>1 DEF Known
  <2>2. CASE o # r \/ m # n
    <3>1. ~ReadMissing(r, m)' BY <1>1 DEF ReadMissing, At
    <3> QED BY <1>9, <1>10, <2>2, <3>1 DEF Known, Passed, ReadMissing, At
  <2> QED BY <2>1, <2>2
<1>14. \A a \in Agent : PassedBinding(a)' => PassedBinding(a)
  BY <1>1, <1>8, <1>9 DEF PassedBinding, At
<1>15. \A a \in Agent : PassedRecord(a)' => PassedRecord(a)
  BY <1>1, <1>8, <1>9 DEF PassedRecord, Inspects, At
<1> QED BY <1>0, <1>1, <1>2, <1>5, <1>7, <1>11, <1>12, <1>13, <1>14, <1>15, StoreFrame

-----------------------------------------------------------------------------

(* Requests for a repair touch nothing the invariant is about.             *)
LEMMA SettledRequest ==
  ASSUME SettledInv, UNCHANGED <<rows, version, notices, agents, index, identities, members, refreshers,
                                 tokens, losses, healed>>
  PROVE  SettledInv'
<1>1. /\ \A n : Agrees(n)' <=> Agrees(n)
      /\ \A r, n : /\ Walking(r, n)' <=> Walking(r, n)
                   /\ ReadMissing(r, n)' <=> ReadMissing(r, n)
      /\ \A r : UpToDate(r)' <=> UpToDate(r)
  BY DEF Agrees, Walking, ReadMissing, UpToDate, At
<1>2. /\ \A r, n : FacesMissing(r, n)' <=> FacesMissing(r, n)
      /\ \A n : (Owed(n)' <=> Owed(n)) /\ (Passed(n)' <=> Passed(n))
      /\ \A r, a : Inspects(r, a)' <=> Inspects(r, a)
  BY <1>1 DEF FacesMissing, Owed, Passed, Inspects, At
<1>3. \A n : Known(n)' <=> Known(n) BY <1>1, <1>2 DEF Known
<1>4. /\ \A a : PassedBinding(a)' <=> PassedBinding(a)
      /\ \A a : PassedRecord(a)' <=> PassedRecord(a)
  BY <1>1, <1>2 DEF PassedBinding, PassedRecord, At
<1>5. ASSUME NEW r \in Refresher PROVE PassInv(r)'
  <2>1. PassInv(r) BY DEF SettledInv
  <2>2. PassShaped(r)' BY <2>1 DEF PassInv, PassShaped
  <2>3. InspectedIsRead(r)' /\ InspectedIsTracked(r)'
    BY <1>1, <1>2, <2>1 DEF PassInv, InspectedIsRead, InspectedIsTracked
  <2>4. TokenIsOld(r)' BY <1>1, <2>1 DEF PassInv, TokenIsOld
  <2>5. EventSees(r)' BY <1>2, <2>1 DEF PassInv, EventSees
  <2>6. FullSees(r)' BY <1>1, <1>2, <2>1 DEF PassInv, FullSees
  <2> QED BY <2>2, <2>3, <2>4, <2>5, <2>6 DEF PassInv
<1>6. RedisShaped' BY DEF SettledInv, RedisShaped
<1>7. PassedAgrees' /\ KnownIsTracked' BY <1>1, <1>2, <1>3 DEF SettledInv, PassedAgrees, KnownIsTracked
<1>8. BindingsTracked' /\ RecordsTracked' BY <1>4 DEF SettledInv, BindingsTracked, RecordsTracked
<1> QED BY <1>5, <1>6, <1>7, <1>8 DEF SettledInv

(* The invariant is inductive.                                             *)
LEMMA SettledStep == ProjectionInv /\ SettledInv /\ [Next]_vars => SettledInv'
<1> SUFFICES ASSUME ProjectionInv, SettledInv, [Next]_vars PROVE SettledInv' OBVIOUS
<1>0. ProjectionInv' BY ProjectionStep
<1>1. ASSUME NEW n \in Node, Change(n) PROVE SettledInv' BY <1>0, <1>1, SettledChange
<1>2. ASSUME NEW r \in Refresher, Refresh(r) \/ Fail(r) PROVE SettledInv'
  <2>1. CASE Claim(r) \/ RunProjection(r) BY <2>1, SettledBegin
  <2>2. CASE ReadToken(r) BY <2>2, SettledReadToken
  <2>3. CASE LockRow(r) BY <2>3, SettledLockRow
  <2>4. CASE Write(r) BY <2>4, SettledSkip, SettledStore
  <2>5. CASE Commit(r) \/ CompleteRepair(r) \/ Fail(r) BY <2>5, SettledEnd
  <2>6. CASE Prune(r) \/ ScanAgents(r) BY <2>6, SettledPrune
  <2>7. CASE PruneAgent(r) BY <2>7, SettledPruneAgent
  <2>8. ASSUME NEW a \in Agent, PruneIdentity(r, a) PROVE SettledInv' BY <2>8, SettledPruneIdentity
  <2>9. ASSUME NEW a \in Agent, InspectAgent(r, a) PROVE SettledInv' BY <2>9, SettledInspect
  <2> QED BY <1>2, <2>1, <2>2, <2>3, <2>4, <2>5, <2>6, <2>7, <2>8, <2>9 DEF Refresh
<1>3. CASE (\E a \in Agent : RequestRepair(a)) \/ CooldownEnds \/ UNCHANGED vars
  <2>1. UNCHANGED <<rows, version, notices, agents, index, identities, members, refreshers, tokens, losses, healed>>
    BY <1>3 DEF RequestRepair, CooldownEnds, vars, Database, Redis
  <2> QED BY <2>1, SettledRequest
<1>4. CASE Lose BY <1>4, SettledLose
<1> QED BY <1>1, <1>2, <1>3, <1>4 DEF Next

(* SettledAgrees for every instance: whatever claims, repairs, failures    *)
(* and losses overlapped, once all is claimed and repaired the projection  *)
(* is exactly the tables.                                                  *)
THEOREM ProjectionSettles == Spec => []SettledAgrees
BY ProjectionHolds, SettledInit, SettledStep, SettledEnough, PTL DEF Spec

(* No step but a loss takes the record of a row's agent away.              *)
LEMMA RecordStays ==
  ASSUME ProjectionInv, SettledInv, [Next]_vars, losses' = losses,
         NEW n \in Node, Live(rows[n]), agents[rows[n].agent].node = n
  PROVE  agents'[rows[n].agent].node = n
<1>0. PICK a \in Agent : a = rows[n].agent /\ \A m \in Node : rows[m].agent = a => m = n BY AgentOfRow
<1> SUFFICES agents'[a].node = n BY <1>0
<1>1. ASSUME NEW r \in Refresher, Write(r), MayWrite(r) PROVE agents'[a].node = n
  <2>1. PICK m, c :
          /\ m \in Node /\ m = refreshers[r].node /\ Stores(m, c)
          /\ c = 0 /\ Live(rows[m]) => ReadMissing(r, m) /\ index[m].agent # rows[m].agent
    BY <1>1, WriteSpares
  <2>2. a # 0 /\ agents[a].node = n BY <1>0 DEF Agent
  <2>3. CASE a = c
    <3>1. rows[m].agent = a BY <2>1, <2>2, <2>3 DEF Stores
    <3>2. m = n BY <1>0, <2>1, <3>1
    <3> QED BY <2>1, <2>3, <3>2 DEF Stores
  <2>4. CASE a # c
    <3>1. agents'[a] = IF a = index[m].agent /\ agents[a].node = m THEN NoAgent ELSE agents[a]
      BY <2>1, <2>4 DEF Stores
    <3>2. ~(a = index[m].agent /\ agents[a].node = m)
      <4> SUFFICES ASSUME a = index[n].agent, m = n PROVE FALSE BY <2>2
      <4>1. c = 0 BY <1>0, <2>1, <2>4 DEF Stores
      <4> QED BY <1>0, <2>1, <4>1
    <3> QED BY <2>2, <3>1, <3>2
  <2> QED BY <2>3, <2>4
<1>2. ASSUME PrunedOnly PROVE agents'[a].node = n
  <2>1. Owns(n, a) BY <1>0 DEF Owns
  <2>2. agents'[a] = agents[a] BY <1>2, <2>1 DEF PrunedOnly
  <2> QED BY <1>0, <2>2
<1>3. CASE agents' = agents BY <1>0, <1>3
<1>4. CASE \E m \in Node : Change(m) BY <1>3, <1>4 DEF Change, Redis
<1>5. ASSUME NEW r \in Refresher, Refresh(r) \/ Fail(r) PROVE agents'[a].node = n
  <2>1. CASE Write(r)
    <3>1. CASE ~MayWrite(r) BY <1>3, <2>1, <3>1 DEF Write, Redis
    <3> QED BY <1>1, <2>1, <3>1
  <2>2. CASE PruneAgent(r) BY <1>2, <2>2, AgentPruned
  <2>3. ASSUME NEW b \in Agent, PruneIdentity(r, b) PROVE agents'[a].node = n BY <1>2, <2>3, IdentityPruned
  <2>4. CASE Claim(r) \/ RunProjection(r) \/ ReadToken(r) \/ LockRow(r) \/ Commit(r) \/ Prune(r) \/ ScanAgents(r)
             \/ CompleteRepair(r) \/ (\E b \in Agent : InspectAgent(r, b)) \/ Fail(r)
    BY <1>3, <2>4 DEF Claim, RunProjection, ReadToken, LockRow, Commit, Prune, ScanAgents, CompleteRepair, InspectAgent,
       Fail, Redis
  <2> QED BY <1>5, <2>1, <2>2, <2>3, <2>4 DEF Refresh
<1>6. CASE (\E b \in Agent : RequestRepair(b)) \/ CooldownEnds \/ UNCHANGED vars
  BY <1>3, <1>6 DEF RequestRepair, CooldownEnds, vars, Redis
<1>7. CASE Lose
  <2>1. losses \in Nat BY StoreFields DEF ProjectionInv
  <2> QED BY <1>7, <2>1 DEF Lose
<1> QED BY <1>4, <1>5, <1>6, <1>7 DEF Next

(* OnlyObsoleteRemoved for every instance: no refresh, prune or repair     *)
(* removes the record of an agent that a row still names.                  *)
THEOREM ProjectionSpares == Spec => OnlyObsoleteRemoved
<1>1. ProjectionInv /\ SettledInv /\ [Next]_vars =>
        [\A n \in Node :
           /\ Live(rows[n]) /\ losses' = losses
           /\ agents[rows[n].agent].node = n
           => agents'[rows[n].agent].node = n]_vars
  BY RecordStays
<1> QED BY <1>1, ProjectionHolds, SettledInit, SettledStep, PTL DEF Spec, OnlyObsoleteRemoved

(***************************************************************************)
(* Presence: what the deadlines, the outbox and a seed that is under way   *)
(* know of the heartbeats.                                                 *)
(***************************************************************************)

WorkerHands == [pc : {"idle", "load", "seed", "expire"}, known : 0..(MaxOutages + 1),
                generation : 0..(MaxOutages + 1), rows : SUBSET Candidate]
PresenceTypes ==
  /\ now \in 1..MaxTime
  /\ beat \in [WatchedNodes -> 0..MaxTime] /\ enabled \in [WatchedNodes -> BOOLEAN]
  /\ outbox \subseteq Notice /\ published \subseteq Notice
  /\ deadlines \in [WatchedNodes -> 0..MaxTime]
  /\ generation \in 0..(MaxOutages + 1) /\ seeded \in {0, generation}
  /\ workers \in [Worker -> WorkerHands]
  /\ \A w \in Worker : workers[w].pc \in {"idle", "load"} => workers[w].rows = {}
  /\ shown \in [WatchedNodes -> BOOLEAN] /\ dirty \subseteq WatchedNodes
  /\ expired \in [WatchedNodes -> Seq(1..MaxTime)]
  /\ outages \in 0..MaxOutages /\ toggles \in [WatchedNodes -> Nat]

\* Heartbeats come from the past and leave room for their window, and no
\* notice, deadline or loaded row is ahead of them.
NoticeTrue(e) ==
  /\ e.seen \in {0, e.at} /\ e.at \in 1..now /\ e.seen <= beat[e.node]
  /\ e.seen = 0 => toggles[e.node] > 0
NodeTrue(n) ==
  /\ beat[n] <= now /\ (beat[n] > 0 => beat[n] + Window <= MaxTime)
  /\ deadlines[n] <= beat[n] + Window
  /\ toggles[n] = 0 => enabled[n]
  /\ toggles[n] = 1 => ~enabled[n]
BeatsTrue ==
  /\ \A e \in outbox \cup published : NoticeTrue(e)
  /\ \A n \in WatchedNodes : NodeTrue(n)
  /\ \A w \in Worker : \A c \in workers[w].rows : c.deadline <= beat[c.node] + Window

\* Tokens are never used again, and who knows the current one saw it seeded.
TokenOK(h) ==
  /\ h.known <= outages + 1 /\ h.generation <= outages + 1
  /\ generation = 0 => h.known <= outages /\ h.generation <= outages
  /\ h.pc \in {"load", "seed"} => h.generation # 0
  /\ h.known # 0 /\ h.known = generation => seeded = generation
TokensFresh ==
  /\ generation <= outages + 1
  /\ \A w \in Worker : TokenOK(workers[w])

\* The fence of a heartbeat that still counts stands for its deadline.
FenceArms(e) == InWindow(e.node) /\ e.seen = beat[e.node] => deadlines[e.node] = beat[e.node] + Window
FencedArmed == \A e \in published : FenceArms(e)

\* An online node is armed or its newest heartbeat is still to be published;
\* while a seed is under way its row may also be ahead.
Heard(n) == \E e \in outbox : e.node = n /\ e.seen = beat[n]
Armed(n) == Heard(n) \/ deadlines[n] = beat[n] + Window
WindowRow(n) == [node |-> n, deadline |-> beat[n] + Window]
SeedCoversNode(h, n) == Steady(n) /\ Online(n) => Armed(n) \/ WindowRow(n) \in h.rows
SeedCovers ==
  \A w \in Worker : workers[w].pc = "seed" /\ workers[w].generation = generation =>
    \A n \in WatchedNodes : SeedCoversNode(workers[w], n)
NodeArmed(n) == Steady(n) /\ Online(n) => Armed(n)
SeededArms == seeded = generation /\ generation # 0 => \A n \in WatchedNodes : NodeArmed(n)

\* A view that is behind has something on its way that is not yet published.
Waiting(n) == \E e \in outbox : e \notin published /\ e.node = n
StaleTold(n) ==
  Steady(n) /\ shown[n] /\ ~Online(n) =>
    n \in dirty \/ Waiting(n) \/ deadlines[n] > 0 \/ generation = 0 \/ seeded # generation
ViewsTold == \A n \in WatchedNodes : StaleTold(n)

\* What was inspected is past, and while it is armed the data set is seeded.
InspectedPast ==
  \A w \in Worker : workers[w].pc = "expire" => \A c \in workers[w].rows :
    /\ c.deadline < now
    /\ deadlines[c.node] = c.deadline => generation # 0 /\ seeded = generation

\* What was announced is past, and what is armed is later.
EndedPast ==
  \A n \in WatchedNodes : \A i \in 1..Len(expired[n]) :
    expired[n][i] < now /\ (deadlines[n] > 0 => expired[n][i] < deadlines[n])

PresenceInv ==
  /\ PresenceTypes /\ BeatsTrue /\ TokensFresh /\ FencedArmed /\ SeedCovers /\ SeededArms
  /\ ViewsTold /\ InspectedPast /\ EndedPast /\ WindowsEndOnce

\* What the types say of one node.
LEMMA WatchedFacts ==
  ASSUME PresenceTypes, NEW n \in WatchedNodes
  PROVE  /\ beat[n] \in Nat /\ beat[n] <= MaxTime /\ deadlines[n] \in Nat /\ deadlines[n] <= MaxTime
         /\ toggles[n] \in Nat /\ enabled[n] \in BOOLEAN /\ shown[n] \in BOOLEAN
         /\ expired[n] \in Seq(1..MaxTime)
BY PresenceAssumption DEF PresenceTypes

LEMMA ClockFacts ==
  ASSUME PresenceTypes
  PROVE  /\ now \in Nat /\ now > 0 /\ now <= MaxTime /\ MaxTime \in Nat /\ Window \in Nat /\ Window > 0
         /\ outages \in Nat /\ outages <= MaxOutages /\ MaxOutages \in Nat
         /\ generation \in Nat /\ seeded \in Nat
BY PresenceAssumption DEF PresenceTypes

LEMMA HandFacts ==
  ASSUME PresenceTypes, NEW w \in Worker
  PROVE  /\ workers[w] \in WorkerHands
         /\ workers[w].pc \in {"idle", "load", "seed", "expire"}
         /\ workers[w].known \in 0..(MaxOutages + 1) /\ workers[w].generation \in 0..(MaxOutages + 1)
         /\ workers[w].known \in Nat /\ workers[w].generation \in Nat
         /\ workers[w].rows \subseteq Candidate
BY PresenceAssumption DEF PresenceTypes, WorkerHands

LEMMA CandidateFacts ==
  ASSUME NEW c \in Candidate
  PROVE  c.node \in WatchedNodes /\ c.deadline \in Nat /\ c.deadline > 0 /\ c.deadline <= MaxTime
BY PresenceAssumption DEF Candidate

LEMMA NoticeFields ==
  ASSUME NEW e \in Notice
  PROVE  e.node \in WatchedNodes /\ e.seen \in Nat /\ e.at \in Nat /\ e.seen <= MaxTime
BY PresenceAssumption DEF Notice

LEMMA SeqItems ==
  ASSUME NEW S, NEW q \in Seq(S)
  PROVE  Len(q) \in Nat /\ \A i \in 1..Len(q) : q[i] \in S
OBVIOUS

LEMMA AppendItem ==
  ASSUME NEW S, NEW q \in Seq(S), NEW x \in S
  PROVE  /\ Append(q, x) \in Seq(S) /\ Len(q) \in Nat /\ Len(Append(q, x)) = Len(q) + 1
         /\ Append(q, x)[Len(q) + 1] = x
         /\ \A i \in 1..Len(q) : Append(q, x)[i] = q[i]
OBVIOUS

LEMMA EndedFacts ==
  ASSUME PresenceTypes, NEW n \in WatchedNodes
  PROVE  Len(expired[n]) \in Nat /\ \A i \in 1..Len(expired[n]) : expired[n][i] \in 1..MaxTime
<1>1. expired[n] \in Seq(1..MaxTime)
  BY WatchedFacts
<1> QED
  BY <1>1, SeqItems

LEMMA IdleHand ==
  ASSUME NEW k \in 0..(MaxOutages + 1)
  PROVE  /\ Idle(k) \in WorkerHands
         /\ Idle(k).pc = "idle" /\ Idle(k).known = k /\ Idle(k).generation = 0 /\ Idle(k).rows = {}
BY PresenceAssumption DEF Idle, WorkerHands

\* The record script only moves a deadline forward, into the future, and
\* arms the end of a window that is still open.
LEMMA RecordedFacts ==
  ASSUME PresenceTypes, NEW n \in WatchedNodes, NEW d \in Nat, d <= MaxTime, deadlines[n] <= beat[n] + Window,
         d <= beat[n] + Window, deadlines' = Recorded(deadlines, n, d)
  PROVE  /\ deadlines' \in [WatchedNodes -> 0..MaxTime]
         /\ \A m \in WatchedNodes \ {n} : deadlines'[m] = deadlines[m]
         /\ deadlines'[n] <= beat[n] + Window /\ deadlines'[n] >= deadlines[n]
         /\ deadlines'[n] = deadlines[n] \/ (deadlines'[n] = d /\ d > now)
         /\ deadlines[n] = beat[n] + Window => deadlines'[n] = beat[n] + Window
         /\ InWindow(n) /\ d = beat[n] + Window => deadlines'[n] = beat[n] + Window
<1>1. /\ beat[n] \in Nat /\ deadlines[n] \in Nat /\ now \in Nat /\ Window \in Nat
      /\ deadlines \in [WatchedNodes -> 0..MaxTime] /\ d \in 0..MaxTime
  BY WatchedFacts, ClockFacts DEF PresenceTypes
<1>2. CASE d <= now \/ d <= deadlines[n]
  <2>1. deadlines' = deadlines
    BY <1>2 DEF Recorded
  <2>2. InWindow(n) /\ d = beat[n] + Window => deadlines[n] = beat[n] + Window
    BY <1>1, <1>2 DEF InWindow
  <2> QED
    BY <1>1, <2>1, <2>2
<1>3. CASE ~(d <= now \/ d <= deadlines[n])
  <2>1. deadlines' = [deadlines EXCEPT ![n] = d]
    BY <1>3 DEF Recorded
  <2>2. d > now /\ d > deadlines[n]
    BY <1>1, <1>3
  <2> QED
    BY <1>1, <2>1, <2>2
<1> QED
  BY <1>2, <1>3

LEMMA PresenceInitHolds == PresenceInit => PresenceInv
<1> SUFFICES ASSUME PresenceInit PROVE PresenceInv
  OBVIOUS
<1>1. Idle(0) \in WorkerHands /\ Idle(0).pc = "idle" /\ Idle(0).rows = {} /\ Idle(0).known = 0 /\ Idle(0).generation = 0
  BY IdleHand, PresenceAssumption
<1>2. \A w \in Worker : workers[w] = Idle(0)
  BY DEF PresenceInit
<1>3. PresenceTypes
  <2>1. 1..MaxTime \subseteq Nat /\ MaxTime \in Nat /\ 0 \in 0..MaxTime /\ 0 \in 0..MaxOutages /\ 0 \in 0..(MaxOutages + 1)
    BY PresenceAssumption
  <2>2. workers \in [Worker -> WorkerHands]
    BY <1>1 DEF PresenceInit
  <2>3. now \in 1..MaxTime
    BY PresenceAssumption DEF PresenceInit
  <2> QED
    BY <1>1, <1>2, <2>1, <2>2, <2>3 DEF PresenceInit, PresenceTypes
<1>4. BeatsTrue
  BY <1>1, <1>2, PresenceAssumption DEF PresenceInit, BeatsTrue, NodeTrue
<1>5. TokensFresh
  BY <1>1, <1>2 DEF PresenceInit, TokensFresh, TokenOK
<1>6. FencedArmed /\ SeedCovers /\ SeededArms /\ ViewsTold /\ InspectedPast
  BY <1>1, <1>2 DEF PresenceInit, FencedArmed, SeedCovers, SeededArms, ViewsTold, StaleTold, InspectedPast
<1>7. \A n \in WatchedNodes : expired[n] = <<>> /\ Len(expired[n]) = 0
  BY DEF PresenceInit
<1>8. EndedPast /\ WindowsEndOnce
  BY <1>7 DEF EndedPast, WindowsEndOnce
<1> QED
  BY <1>3, <1>4, <1>5, <1>6, <1>8 DEF PresenceInv

\* Time passes: a node that is online was online before.
LEMMA TickKeeps == PresenceInv /\ Tick => PresenceInv'
<1> SUFFICES ASSUME PresenceInv, Tick PROVE PresenceInv'
  OBVIOUS
<1>1. /\ now < MaxTime /\ now' = now + 1
      /\ beat' = beat /\ enabled' = enabled /\ outbox' = outbox /\ published' = published /\ deadlines' = deadlines
      /\ generation' = generation /\ seeded' = seeded /\ workers' = workers /\ shown' = shown /\ dirty' = dirty
      /\ expired' = expired /\ outages' = outages /\ toggles' = toggles
  BY DEF Tick
<1>2. PresenceTypes /\ BeatsTrue /\ FencedArmed /\ SeededArms /\ ViewsTold
  BY DEF PresenceInv
<1>3. now \in Nat /\ MaxTime \in Nat /\ Window \in Nat /\ now + 1 \in 1..MaxTime
  BY <1>1, <1>2, ClockFacts
<1>4. PresenceTypes'
  BY <1>1, <1>2, <1>3 DEF PresenceTypes, WorkerHands
<1>5. BeatsTrue'
  <2>1. ASSUME NEW e \in outbox \cup published PROVE NoticeTrue(e)'
    BY <1>1, <1>2, <1>3 DEF BeatsTrue, NoticeTrue
  <2>2. ASSUME NEW n \in WatchedNodes PROVE NodeTrue(n)'
    BY <1>1, <1>2, <1>3, WatchedFacts DEF BeatsTrue, NodeTrue
  <2> QED
    BY <1>1, <1>2, <2>1, <2>2 DEF BeatsTrue
<1>6. TokensFresh'
  BY <1>1 DEF PresenceInv, TokensFresh, TokenOK
<1>7. ASSUME NEW n \in WatchedNodes PROVE /\ InWindow(n)' => InWindow(n)
                                          /\ Online(n)' => Online(n)
                                          /\ Armed(n)' <=> Armed(n)
                                          /\ WindowRow(n)' = WindowRow(n)
  BY <1>1, <1>2, <1>3, WatchedFacts DEF InWindow, Online, Armed, Heard, WindowRow
<1>8. FencedArmed'
  <2> SUFFICES ASSUME NEW e \in published PROVE FenceArms(e)'
    BY <1>1 DEF FencedArmed
  <2>1. e.node \in WatchedNodes
    BY <1>2, NoticeFields DEF PresenceTypes
  <2> QED
    BY <1>1, <1>2, <1>7, <2>1 DEF FencedArmed, FenceArms
<1>9. SeedCovers' /\ SeededArms'
  BY <1>1, <1>7 DEF PresenceInv, SeedCovers, SeedCoversNode, SeededArms, NodeArmed, Steady
<1>10. ViewsTold'
  <2> SUFFICES ASSUME NEW n \in WatchedNodes, Steady(n), shown[n], ~Online(n)', generation # 0, seeded = generation
               PROVE  n \in dirty \/ Waiting(n) \/ deadlines[n] > 0
    BY <1>1 DEF ViewsTold, StaleTold, Steady, Waiting
  <2>1. CASE ~Online(n)
    BY <1>2, <2>1 DEF ViewsTold, StaleTold
  <2>2. CASE Online(n)
    <3>1. Armed(n) /\ InWindow(n)
      BY <1>2, <2>2 DEF SeededArms, NodeArmed, Online
    <3>2. deadlines[n] = beat[n] + Window => deadlines[n] > 0
      BY <1>2, WatchedFacts, ClockFacts
    <3>3. ASSUME NEW e \in outbox, e.node = n, e.seen = beat[n] PROVE Waiting(n) \/ deadlines[n] > 0
      BY <1>2, <3>1, <3>2, <3>3 DEF Waiting, FencedArmed, FenceArms
    <3> QED
      BY <3>1, <3>2, <3>3 DEF Armed, Heard
  <2> QED
    BY <2>1, <2>2
<1>11. InspectedPast'
  <2>1. ASSUME NEW w \in Worker, NEW c \in workers[w].rows, c.deadline < now PROVE c.deadline < now + 1
    BY <1>2, <1>3, <2>1, HandFacts, CandidateFacts
  <2> QED
    BY <1>1, <2>1 DEF PresenceInv, InspectedPast
<1>12. EndedPast' /\ WindowsEndOnce'
  <2>1. ASSUME NEW n \in WatchedNodes, NEW i \in 1..Len(expired[n]), expired[n][i] < now PROVE expired[n][i] < now + 1
    <3>1. expired[n][i] \in 1..MaxTime
      BY <1>2, EndedFacts
    <3> QED
      BY <1>3, <2>1, <3>1
  <2> QED
    BY <1>1, <2>1 DEF PresenceInv, EndedPast, WindowsEndOnce
<1> QED
  BY <1>4, <1>5, <1>6, <1>8, <1>9, <1>10, <1>11, <1>12 DEF PresenceInv

\* A heartbeat is the newest, and its own notice is on its way.
LEMMA HeartbeatKeeps == ASSUME PresenceInv, NEW n \in WatchedNodes, Heartbeat(n) PROVE PresenceInv'
<1>e. PICK e : e = [node |-> n, seen |-> now, at |-> now]
  OBVIOUS
<1>1. /\ now > beat[n] /\ now + Window < MaxTime
      /\ beat' = [beat EXCEPT ![n] = now] /\ outbox' = outbox \cup {e}
      /\ now' = now /\ enabled' = enabled /\ published' = published /\ deadlines' = deadlines
      /\ generation' = generation /\ seeded' = seeded /\ workers' = workers /\ shown' = shown /\ dirty' = dirty
      /\ expired' = expired /\ outages' = outages /\ toggles' = toggles
  BY <1>e DEF Heartbeat
<1>2. PresenceTypes /\ BeatsTrue /\ FencedArmed /\ SeededArms /\ SeedCovers /\ ViewsTold
  BY DEF PresenceInv
<1>3. now \in Nat /\ now > 0 /\ MaxTime \in Nat /\ Window \in Nat /\ now \in 0..MaxTime /\ now \in 1..now
  BY <1>1, <1>2, ClockFacts
<1>4. e \in Notice /\ e.node = n /\ e.seen = now /\ e.at = now
  BY <1>3, <1>e DEF Notice
<1>5. /\ beat'[n] = now /\ \A m \in WatchedNodes \ {n} : beat'[m] = beat[m]
      /\ \A m \in WatchedNodes : beat'[m] \in Nat /\ beat[m] \in Nat /\ beat'[m] >= beat[m]
  <2>1. \A m \in WatchedNodes : beat[m] \in Nat
    BY <1>2, WatchedFacts
  <2>2. beat'[n] = now /\ \A m \in WatchedNodes \ {n} : beat'[m] = beat[m]
    BY <1>1, <1>2 DEF PresenceTypes
  <2>3. now >= beat[n] BY <1>1, <1>3, <2>1
  <2> QED
    BY <1>3, <2>1, <2>2, <2>3
<1>6. PresenceTypes'
  <2>1. beat' \in [WatchedNodes -> 0..MaxTime]
    BY <1>1, <1>2, <1>3 DEF PresenceTypes
  <2> QED
    BY <1>1, <1>2, <1>4, <2>1 DEF PresenceTypes, WorkerHands
<1>7. BeatsTrue'
  <2>1. ASSUME NEW f \in outbox \cup published PROVE NoticeTrue(f)'
    <3>1. f.node \in WatchedNodes /\ f.seen \in Nat /\ NoticeTrue(f)
      BY <1>2, NoticeFields DEF PresenceTypes, BeatsTrue
    <3> QED
      BY <1>1, <1>5, <3>1 DEF NoticeTrue
  <2>2. NoticeTrue(e)'
    BY <1>1, <1>3, <1>4, <1>5 DEF NoticeTrue
  <2>3. ASSUME NEW m \in WatchedNodes PROVE NodeTrue(m)'
    BY <1>1, <1>2, <1>3, <1>5, WatchedFacts DEF BeatsTrue, NodeTrue
  <2>4. ASSUME NEW w \in Worker, NEW c \in workers[w].rows PROVE c.deadline <= beat'[c.node] + Window
    <3>1. c.node \in WatchedNodes /\ c.deadline \in Nat
      BY <1>2, HandFacts, CandidateFacts
    <3> QED
      BY <1>2, <1>3, <1>5, <3>1 DEF BeatsTrue
  <2> QED
    BY <1>1, <2>1, <2>2, <2>3, <2>4 DEF BeatsTrue
<1>8. TokensFresh'
  BY <1>1 DEF PresenceInv, TokensFresh, TokenOK
<1>9. FencedArmed'
  <2> SUFFICES ASSUME NEW f \in published PROVE FenceArms(f)'
    BY <1>1 DEF FencedArmed
  <2>1. f.node \in WatchedNodes /\ f.seen \in Nat /\ f.seen <= beat[f.node]
    BY <1>2, NoticeFields DEF PresenceTypes, BeatsTrue, NoticeTrue
  <2>2. CASE f.node = n
    <3>1. f.seen # beat'[n]
      BY <1>1, <1>3, <1>5, <2>1, <2>2
    <3> QED
      BY <2>2, <3>1 DEF FenceArms
  <2>3. CASE f.node # n
    BY <1>1, <1>2, <1>5, <2>1, <2>3 DEF FencedArmed, FenceArms, InWindow
  <2> QED
    BY <2>2, <2>3
<1>10. Heard(n)'
  BY <1>1, <1>4, <1>5 DEF Heard
<1>11. ASSUME NEW m \in WatchedNodes, m # n PROVE /\ Online(m)' <=> Online(m)
                                                  /\ Armed(m) => Armed(m)'
                                                  /\ WindowRow(m)' = WindowRow(m)
  BY <1>1, <1>5, <1>11 DEF Online, InWindow, Armed, Heard, WindowRow
<1>12. SeedCovers' /\ SeededArms'
  <2>1. ASSUME NEW m \in WatchedNodes, NEW w \in Worker, SeedCoversNode(workers[w], m) PROVE SeedCoversNode(workers[w], m)'
    BY <1>1, <1>10, <1>11, <2>1 DEF SeedCoversNode, Armed, Steady
  <2>2. ASSUME NEW m \in WatchedNodes, NodeArmed(m) PROVE NodeArmed(m)'
    BY <1>1, <1>10, <1>11, <2>2 DEF NodeArmed, Armed, Steady
  <2>3. SeedCovers'
    BY <1>1, <1>2, <2>1 DEF SeedCovers, SeedCoversNode
  <2> QED
    BY <1>1, <1>2, <2>2, <2>3 DEF SeededArms
<1>13. ViewsTold'
  <2> SUFFICES ASSUME NEW m \in WatchedNodes PROVE StaleTold(m)'
    BY DEF ViewsTold
  <2>1. Waiting(m) => Waiting(m)'
    BY <1>1 DEF Waiting
  <2>2. Online(m) => Online(m)'
    BY <1>1, <1>3, <1>5, <1>11 DEF Online, InWindow
  <2> QED
    BY <1>1, <1>2, <2>1, <2>2 DEF ViewsTold, StaleTold, Steady
<1>14. InspectedPast' /\ EndedPast' /\ WindowsEndOnce'
  BY <1>1 DEF PresenceInv, InspectedPast, EndedPast, WindowsEndOnce
<1> QED
  BY <1>6, <1>7, <1>8, <1>9, <1>12, <1>13, <1>14 DEF PresenceInv

\* A node disabled for the first time has a notice nobody has published, and
\* one that is enabled again is no longer steady.
LEMMA SetStatusKeeps == ASSUME PresenceInv, NEW n \in WatchedNodes, SetStatus(n) PROVE PresenceInv'
<1>e. PICK e : e = [node |-> n, seen |-> 0, at |-> now]
  OBVIOUS
<1>1. /\ toggles' = [toggles EXCEPT ![n] = toggles[n] + 1] /\ enabled' = [enabled EXCEPT ![n] = ~enabled[n]]
      /\ outbox' = outbox \cup {e}
      /\ now' = now /\ beat' = beat /\ published' = published /\ deadlines' = deadlines
      /\ generation' = generation /\ seeded' = seeded /\ workers' = workers /\ shown' = shown /\ dirty' = dirty
      /\ expired' = expired /\ outages' = outages
  BY <1>e DEF SetStatus
<1>2. PresenceTypes /\ BeatsTrue /\ FencedArmed /\ SeededArms /\ SeedCovers /\ ViewsTold
  BY DEF PresenceInv
<1>3. now \in Nat /\ now > 0 /\ MaxTime \in Nat /\ now \in 0..MaxTime /\ now \in 1..now
  BY <1>1, <1>2, ClockFacts
<1>4. e \in Notice /\ e.node = n /\ e.seen = 0 /\ e.at = now
  BY <1>3, <1>e DEF Notice
<1>5. /\ toggles'[n] = toggles[n] + 1 /\ toggles[n] \in Nat /\ enabled'[n] = ~enabled[n]
      /\ \A m \in WatchedNodes \ {n} : toggles'[m] = toggles[m] /\ enabled'[m] = enabled[m]
  BY <1>1, <1>2 DEF PresenceTypes
<1>6. PresenceTypes'
  <2>1. toggles' \in [WatchedNodes -> Nat] /\ enabled' \in [WatchedNodes -> BOOLEAN]
    BY <1>1, <1>2 DEF PresenceTypes
  <2> QED
    BY <1>1, <1>2, <1>4, <2>1 DEF PresenceTypes, WorkerHands
<1>7. Steady(n)' => toggles[n] = 0 /\ toggles'[n] = 1 /\ ~enabled'[n]
  <2>1. Steady(n)' => toggles[n] = 0 /\ toggles'[n] = 1
    BY <1>5 DEF Steady
  <2>2. toggles[n] = 0 => enabled[n]
    BY <1>2 DEF BeatsTrue, NodeTrue
  <2> QED
    BY <1>5, <2>1, <2>2
<1>8. BeatsTrue'
  <2>1. ASSUME NEW f \in outbox \cup published PROVE NoticeTrue(f)'
    <3>1. f.node \in WatchedNodes /\ NoticeTrue(f) /\ toggles[f.node] \in Nat
      BY <1>2, NoticeFields, WatchedFacts DEF PresenceTypes, BeatsTrue
    <3> QED
      BY <1>1, <1>5, <3>1 DEF NoticeTrue
  <2>2. NoticeTrue(e)'
    <3>1. beat[n] \in Nat
      BY <1>2, WatchedFacts
    <3> QED
      BY <1>1, <1>3, <1>4, <1>5, <3>1 DEF NoticeTrue
  <2>3. ASSUME NEW m \in WatchedNodes PROVE NodeTrue(m)'
    <3>1. NodeTrue(m) /\ enabled[m] \in BOOLEAN
      BY <1>2, WatchedFacts DEF BeatsTrue
    <3>2. CASE m = n
      <4>1. toggles'[n] # 0 /\ (toggles'[n] = 1 => toggles[n] = 0)
        BY <1>5
      <4> QED
        BY <1>1, <1>5, <3>1, <3>2, <4>1 DEF NodeTrue
    <3>3. CASE m # n
      BY <1>1, <1>5, <3>1, <3>3 DEF NodeTrue
    <3> QED
      BY <3>2, <3>3
  <2> QED
    BY <1>1, <1>2, <2>1, <2>2, <2>3 DEF BeatsTrue
<1>9. TokensFresh'
  BY <1>1 DEF PresenceInv, TokensFresh, TokenOK
<1>10. FencedArmed'
  BY <1>1, <1>2 DEF FencedArmed, FenceArms, InWindow
<1>11. ASSUME NEW m \in WatchedNodes, Steady(m)'
       PROVE  /\ Steady(m) /\ (Online(m)' => Online(m))
              /\ Armed(m) => Armed(m)'
              /\ WindowRow(m)' = WindowRow(m)
  <2>1. Steady(m) /\ (Online(m)' => Online(m))
    BY <1>1, <1>5, <1>7, <1>11 DEF Steady, Online, InWindow
  <2> QED
    BY <1>1, <2>1 DEF Armed, Heard, WindowRow
<1>12. SeedCovers' /\ SeededArms'
  BY <1>1, <1>2, <1>11 DEF SeedCovers, SeedCoversNode, SeededArms, NodeArmed
<1>13. ViewsTold'
  <2> SUFFICES ASSUME NEW m \in WatchedNodes, Steady(m)' PROVE StaleTold(m)'
    BY DEF ViewsTold, StaleTold
  <2>1. CASE m = n
    <3>1. e \notin published
      <4>1. ASSUME e \in published PROVE FALSE
        <5>1. toggles[n] > 0
          BY <1>2, <1>4, <4>1 DEF BeatsTrue, NoticeTrue
        <5> QED
          BY <1>7, <2>1, <5>1
      <4> QED
        BY <4>1
    <3>2. Waiting(n)'
      BY <1>1, <1>4, <3>1 DEF Waiting
    <3> QED
      BY <2>1, <3>2 DEF StaleTold
  <2>2. CASE m # n
    <3>1. (Online(m)' <=> Online(m)) /\ (Waiting(m) => Waiting(m)') /\ Steady(m)
      BY <1>1, <1>5, <1>11, <2>2 DEF Online, InWindow, Waiting
    <3> QED
      BY <1>1, <1>2, <3>1 DEF ViewsTold, StaleTold
  <2> QED
    BY <2>1, <2>2
<1>14. InspectedPast' /\ EndedPast' /\ WindowsEndOnce'
  BY <1>1 DEF PresenceInv, InspectedPast, EndedPast, WindowsEndOnce
<1> QED
  BY <1>6, <1>8, <1>9, <1>10, <1>12, <1>13, <1>14 DEF PresenceInv

\* The relay publishes a notice behind its fence: what it arms is the end of
\* a window of that node, of the current one when the notice is the newest.
LEMMA PublishKeeps == ASSUME PresenceInv, NEW e \in outbox, Publish(e) PROVE PresenceInv'
<1>1. /\ now' = now /\ beat' = beat /\ enabled' = enabled
      /\ generation' = generation /\ seeded' = seeded /\ workers' = workers /\ shown' = shown
      /\ expired' = expired /\ outages' = outages /\ toggles' = toggles
      /\ outbox' \in {outbox, outbox \ {e}}
  BY DEF Publish
<1>2. PresenceTypes /\ BeatsTrue /\ FencedArmed /\ SeededArms /\ SeedCovers /\ ViewsTold
  BY DEF PresenceInv
<1>3. /\ e \in Notice /\ e.node \in WatchedNodes /\ e.seen \in Nat /\ NoticeTrue(e) /\ NodeTrue(e.node)
      /\ beat[e.node] \in Nat /\ deadlines[e.node] \in Nat /\ now \in Nat /\ Window \in Nat /\ MaxTime \in Nat
  BY <1>2, NoticeFields, WatchedFacts, ClockFacts DEF PresenceTypes, BeatsTrue
<1>4. /\ published' \subseteq published \cup {e} /\ published \subseteq published'
      /\ dirty \subseteq dirty' /\ dirty' \subseteq WatchedNodes
      /\ e \in published'
      /\ e \in published \/ e.node \in dirty'
  BY <1>2, <1>3 DEF Publish, PresenceTypes
<1>5. /\ deadlines' \in [WatchedNodes -> 0..MaxTime]
      /\ \A m \in WatchedNodes \ {e.node} : deadlines'[m] = deadlines[m]
      /\ deadlines'[e.node] <= beat[e.node] + Window /\ deadlines'[e.node] >= deadlines[e.node]
      /\ deadlines'[e.node] = deadlines[e.node] \/ deadlines'[e.node] > now
      /\ deadlines[e.node] = beat[e.node] + Window => deadlines'[e.node] = beat[e.node] + Window
      /\ InWindow(e.node) /\ e.seen = beat[e.node] => deadlines'[e.node] = beat[e.node] + Window
  <2>1. CASE deadlines' = deadlines /\ e \in published
    BY <1>2, <1>3, <2>1 DEF PresenceTypes, NodeTrue, FencedArmed, FenceArms
  <2>2. CASE deadlines' = deadlines /\ e.seen = 0
    BY <1>2, <1>3, <2>2 DEF PresenceTypes, NodeTrue, InWindow
  <2>3. CASE e.seen > 0 /\ deadlines' = Recorded(deadlines, e.node, e.seen + Window)
    <3>1. e.seen + Window \in Nat /\ e.seen + Window <= beat[e.node] + Window /\ e.seen + Window <= MaxTime
      BY <1>3, <2>3 DEF NoticeTrue, NodeTrue
    <3>2. deadlines[e.node] <= beat[e.node] + Window
      BY <1>3 DEF NodeTrue
    <3> DEFINE d == e.seen + Window
    <3>3. d \in Nat /\ d <= beat[e.node] + Window /\ d <= MaxTime /\ deadlines' = Recorded(deadlines, e.node, d)
      BY <2>3, <3>1
    <3>4. e.seen = beat[e.node] => d = beat[e.node] + Window
      OBVIOUS
    <3> HIDE DEF d
    <3>5. /\ deadlines' \in [WatchedNodes -> 0..MaxTime]
          /\ \A m \in WatchedNodes \ {e.node} : deadlines'[m] = deadlines[m]
          /\ deadlines'[e.node] <= beat[e.node] + Window /\ deadlines'[e.node] >= deadlines[e.node]
          /\ deadlines'[e.node] = deadlines[e.node] \/ (deadlines'[e.node] = d /\ d > now)
          /\ deadlines[e.node] = beat[e.node] + Window => deadlines'[e.node] = beat[e.node] + Window
          /\ InWindow(e.node) /\ d = beat[e.node] + Window => deadlines'[e.node] = beat[e.node] + Window
      BY <1>2, <1>3, <3>2, <3>3, RecordedFacts
    <3> QED
      BY <3>4, <3>5
  <2> QED
    BY <1>3, <2>1, <2>2, <2>3 DEF Publish
<1>6. ASSUME NEW m \in WatchedNodes
      PROVE  /\ InWindow(m)' <=> InWindow(m)
             /\ Online(m)' <=> Online(m)
             /\ Steady(m)' <=> Steady(m)
             /\ WindowRow(m)' = WindowRow(m)
             /\ deadlines[m] \in Nat /\ deadlines'[m] \in Nat /\ beat[m] \in Nat
             /\ deadlines'[m] >= deadlines[m] /\ deadlines'[m] <= beat[m] + Window
             /\ deadlines'[m] = deadlines[m] \/ deadlines'[m] > now
             /\ deadlines[m] = beat[m] + Window => deadlines'[m] = beat[m] + Window
  <2>1. deadlines[m] \in Nat /\ deadlines'[m] \in Nat /\ beat[m] \in Nat /\ deadlines[m] <= beat[m] + Window
    BY <1>2, <1>3, <1>5, WatchedFacts DEF BeatsTrue, NodeTrue
  <2>2. (InWindow(m)' <=> InWindow(m)) /\ (Online(m)' <=> Online(m)) /\ (Steady(m)' <=> Steady(m)) /\ WindowRow(m)' = WindowRow(m)
    BY <1>1 DEF InWindow, Online, Steady, WindowRow
  <2> QED
    BY <1>5, <2>1, <2>2
<1>7. PresenceTypes'
  BY <1>1, <1>2, <1>3, <1>4, <1>5 DEF PresenceTypes, WorkerHands
<1>8. BeatsTrue'
  <2>1. ASSUME NEW f \in outbox \cup published PROVE NoticeTrue(f)'
    BY <1>1, <1>2 DEF BeatsTrue, NoticeTrue
  <2>2. ASSUME NEW m \in WatchedNodes PROVE NodeTrue(m)'
    BY <1>1, <1>2, <1>6 DEF BeatsTrue, NodeTrue
  <2> QED
    BY <1>1, <1>2, <1>4, <2>1, <2>2 DEF BeatsTrue
<1>9. TokensFresh'
  BY <1>1 DEF PresenceInv, TokensFresh, TokenOK
<1>10. FencedArmed'
  <2> SUFFICES ASSUME NEW f \in published', InWindow(f.node), f.seen = beat[f.node]
               PROVE  deadlines'[f.node] = beat[f.node] + Window
    BY <1>1 DEF FencedArmed, FenceArms, InWindow
  <2>1. CASE f = e
    BY <1>5, <2>1
  <2>2. CASE f \in published
    <3>1. f.node \in WatchedNodes
      BY <1>2, <2>2, NoticeFields DEF PresenceTypes
    <3> QED
      BY <1>2, <1>6, <2>2, <3>1 DEF FencedArmed, FenceArms
  <2> QED
    BY <1>4, <2>1, <2>2
<1>11. ASSUME NEW m \in WatchedNodes, InWindow(m), Armed(m) PROVE Armed(m)'
  <2>1. CASE deadlines[m] = beat[m] + Window
    BY <1>1, <1>6, <2>1 DEF Armed
  <2>2. ASSUME NEW f \in outbox, f.node = m, f.seen = beat[m] PROVE Armed(m)'
    <3>1. CASE f = e
      BY <1>1, <1>5, <1>11, <2>2, <3>1 DEF Armed
    <3>2. CASE f # e
      BY <1>1, <2>2, <3>2 DEF Armed, Heard
    <3> QED
      BY <3>1, <3>2
  <2> QED
    BY <1>11, <2>1, <2>2 DEF Armed, Heard
<1>12. SeedCovers' /\ SeededArms'
  <2>1. ASSUME NEW m \in WatchedNodes, NEW w \in Worker, SeedCoversNode(workers[w], m) PROVE SeedCoversNode(workers[w], m)'
    BY <1>1, <1>6, <1>11, <2>1 DEF SeedCoversNode, Online
  <2>2. ASSUME NEW m \in WatchedNodes, NodeArmed(m) PROVE NodeArmed(m)'
    BY <1>6, <1>11, <2>2 DEF NodeArmed, Online
  <2>3. SeedCovers'
    BY <1>1, <1>2, <2>1 DEF SeedCovers, SeedCoversNode
  <2> QED
    BY <1>1, <1>2, <2>2, <2>3 DEF SeededArms
<1>13. ViewsTold'
  <2> SUFFICES ASSUME NEW m \in WatchedNodes PROVE StaleTold(m)'
    BY DEF ViewsTold
  <2>1. Waiting(m) => Waiting(m)' \/ m \in dirty'
    <3> SUFFICES ASSUME NEW f \in outbox, f \notin published, f.node = m PROVE Waiting(m)' \/ m \in dirty'
      BY DEF Waiting
    <3>1. CASE f = e
      BY <1>4, <3>1
    <3>2. CASE f # e
      BY <1>1, <1>4, <3>2 DEF Waiting
    <3> QED
      BY <3>1, <3>2
  <2>2. deadlines[m] > 0 => deadlines'[m] > 0
    BY <1>6
  <2> QED
    BY <1>1, <1>2, <1>4, <1>6, <2>1, <2>2 DEF ViewsTold, StaleTold
<1>14. InspectedPast'
  <2> SUFFICES ASSUME NEW w \in Worker, workers[w].pc = "expire", NEW c \in workers[w].rows, deadlines'[c.node] = c.deadline
               PROVE  deadlines[c.node] = c.deadline
    BY <1>1 DEF PresenceInv, InspectedPast
  <2>1. c.node \in WatchedNodes /\ c.deadline \in Nat /\ c.deadline < now
    BY <1>2, HandFacts, CandidateFacts DEF PresenceInv, InspectedPast
  <2> QED
    BY <1>3, <1>6, <2>1
<1>15. EndedPast'
  <2> SUFFICES ASSUME NEW m \in WatchedNodes, NEW i \in 1..Len(expired[m]), deadlines'[m] > 0
               PROVE  expired[m][i] < deadlines'[m]
    BY <1>1 DEF PresenceInv, EndedPast
  <2>1. expired[m][i] \in Nat /\ expired[m][i] < now /\ (deadlines[m] > 0 => expired[m][i] < deadlines[m])
    BY <1>2, <1>3, EndedFacts DEF PresenceInv, EndedPast
  <2> QED
    BY <1>3, <1>6, <2>1
<1>16. WindowsEndOnce'
  BY <1>1 DEF PresenceInv, WindowsEndOnce
<1> QED
  BY <1>7, <1>8, <1>9, <1>10, <1>12, <1>13, <1>14, <1>15, <1>16 DEF PresenceInv

\* A reader shows what the queries say.
LEMMA ReadKeeps == ASSUME PresenceInv, NEW n \in WatchedNodes, Read(n) PROVE PresenceInv'
<1>1. /\ shown' = [shown EXCEPT ![n] = Online(n)] /\ dirty' = dirty \ {n}
      /\ now' = now /\ beat' = beat /\ enabled' = enabled /\ outbox' = outbox /\ published' = published
      /\ deadlines' = deadlines /\ generation' = generation /\ seeded' = seeded /\ workers' = workers
      /\ expired' = expired /\ outages' = outages /\ toggles' = toggles
  BY DEF Read
<1>2. PresenceTypes /\ ViewsTold
  BY DEF PresenceInv
<1>3. Online(n) \in BOOLEAN /\ \A m \in WatchedNodes : Online(m)' <=> Online(m)
  BY <1>1, <1>2, WatchedFacts DEF Online, InWindow
<1>4. shown'[n] = Online(n) /\ \A m \in WatchedNodes \ {n} : shown'[m] = shown[m]
  BY <1>1, <1>2 DEF PresenceTypes
<1>5. shown' \in [WatchedNodes -> BOOLEAN]
  BY <1>1, <1>2, <1>3 DEF PresenceTypes
<1>6. PresenceTypes'
  BY <1>1, <1>2, <1>5 DEF PresenceTypes, WorkerHands
<1>7. BeatsTrue' /\ TokensFresh' /\ InspectedPast' /\ EndedPast' /\ WindowsEndOnce'
  BY <1>1 DEF PresenceInv, BeatsTrue, NoticeTrue, NodeTrue, TokensFresh, TokenOK, InspectedPast, EndedPast, WindowsEndOnce
<1>8. FencedArmed' /\ SeedCovers' /\ SeededArms'
  BY <1>1 DEF PresenceInv, FencedArmed, FenceArms, InWindow, SeedCovers, SeedCoversNode, SeededArms, NodeArmed, Online,
    Steady, Armed, Heard, WindowRow
<1>9. ViewsTold'
  <2> SUFFICES ASSUME NEW m \in WatchedNodes PROVE StaleTold(m)'
    BY DEF ViewsTold
  <2>1. CASE m = n
    BY <1>3, <1>4, <2>1 DEF StaleTold
  <2>2. CASE m # n
    BY <1>1, <1>2, <1>3, <1>4, <2>2 DEF ViewsTold, StaleTold, Steady, Waiting
  <2> QED
    BY <2>1, <2>2
<1> QED
  BY <1>6, <1>7, <1>8, <1>9 DEF PresenceInv

LEMMA AboveZero ==
  ASSUME NEW a \in Nat
  PROVE  0 <= a + 1
OBVIOUS

LEMMA StillBelow ==
  ASSUME NEW a \in Nat, NEW b \in Nat, NEW c \in Nat, a <= b + 1, c >= b
  PROVE  a <= c + 1
OBVIOUS

\* What a worker takes in hand.
HandOK(h) ==
  /\ h.pc \in {"idle", "load"} => h.rows = {}
  /\ \A c \in h.rows : c.deadline <= beat[c.node] + Window
  /\ TokenOK(h)
  /\ h.pc = "seed" /\ h.generation = generation => \A n \in WatchedNodes : SeedCoversNode(h, n)
  /\ h.pc = "expire" => \A c \in h.rows :
       c.deadline < now /\ (deadlines[c.node] = c.deadline => generation # 0 /\ seeded = generation)

LEMMA HandHolds ==
  ASSUME PresenceInv, NEW w \in Worker
  PROVE  HandOK(workers[w])
BY DEF PresenceInv, PresenceTypes, BeatsTrue, TokensFresh, SeedCovers, InspectedPast, HandOK

\* A worker that changes nothing but what it has in hand.
LEMMA HandKeeps ==
  ASSUME PresenceInv, NEW w \in Worker, NEW h \in WorkerHands, HandOK(h), workers' = [workers EXCEPT ![w] = h],
         outages' \in {outages, outages + 1}, outages' <= MaxOutages,
         UNCHANGED <<now, beat, enabled, outbox, published, deadlines, generation, seeded, shown, dirty, expired, toggles>>
  PROVE  PresenceInv'
<1>1. PresenceTypes /\ workers \in [Worker -> WorkerHands]
  BY DEF PresenceInv, PresenceTypes
<1>2. workers'[w] = h /\ \A v \in Worker \ {w} : workers'[v] = workers[v]
  BY <1>1
<1>3. /\ outages \in Nat /\ MaxOutages \in Nat /\ outages' \in Nat /\ outages' \in 0..MaxOutages /\ outages' >= outages
      /\ generation \in Nat
  BY <1>1, ClockFacts
<1>4. ASSUME NEW g \in WorkerHands, HandOK(g) PROVE HandOK(g)'
  <2>1. g.known \in Nat /\ g.generation \in Nat
    BY PresenceAssumption DEF WorkerHands
  <2>2. TokenOK(g)'
    BY <1>3, <1>4, <2>1 DEF HandOK, TokenOK
  <2>3. \A n \in WatchedNodes : SeedCoversNode(g, n) => SeedCoversNode(g, n)'
    BY DEF SeedCoversNode, Steady, Online, InWindow, Armed, Heard, WindowRow
  <2> QED
    BY <1>4, <2>2, <2>3 DEF HandOK
<1>5. ASSUME NEW v \in Worker PROVE HandOK(workers[v])'
  <2>1. PICK g \in WorkerHands : g = workers'[v] /\ HandOK(g)
    BY <1>1, <1>2, HandHolds
  <2>2. HandOK(g)'
    BY <1>4, <2>1
  <2> QED
    BY <2>1, <2>2 DEF HandOK, TokenOK, SeedCoversNode
<1>6. PresenceTypes'
  <2>1. workers' \in [Worker -> WorkerHands]
    BY <1>1
  <2>2. \A v \in Worker : workers'[v].pc \in {"idle", "load"} => workers'[v].rows = {}
    BY <1>5 DEF HandOK
  <2> QED
    BY <1>1, <1>3, <2>1, <2>2 DEF PresenceTypes, WorkerHands
<1>7. generation <= outages' + 1
  <2>1. generation <= outages + 1
    BY DEF PresenceInv, TokensFresh
  <2> QED
    BY <1>3, <2>1, StillBelow
<1>8. /\ TokensFresh' /\ SeedCovers' /\ InspectedPast'
      /\ \A v \in Worker : \A c \in workers'[v].rows : c.deadline <= beat'[c.node] + Window
  <2>1. TokensFresh'
    BY <1>5, <1>7 DEF HandOK, TokensFresh
  <2>2. SeedCovers'
    BY <1>5 DEF HandOK, SeedCovers
  <2>3. InspectedPast'
    BY <1>5 DEF HandOK, InspectedPast
  <2>4. \A v \in Worker : \A c \in workers'[v].rows : c.deadline <= beat'[c.node] + Window
    BY <1>5 DEF HandOK
  <2> QED
    BY <2>1, <2>2, <2>3, <2>4
<1>9. BeatsTrue'
  BY <1>8 DEF PresenceInv, BeatsTrue, NoticeTrue, NodeTrue
<1>10. FencedArmed' /\ SeededArms' /\ ViewsTold' /\ EndedPast' /\ WindowsEndOnce'
  BY DEF PresenceInv, FencedArmed, FenceArms, InWindow, SeededArms, NodeArmed, Online, Steady, Armed, Heard, ViewsTold,
    StaleTold, Waiting, EndedPast, WindowsEndOnce
<1> QED
  BY <1>6, <1>8, <1>9, <1>10 DEF PresenceInv

\* The first inspection of a Redis without a token makes one nobody has seen.
LEMMA InspectNewKeeps ==
  ASSUME PresenceInv, NEW w \in Worker, Inspect(w), generation = 0 PROVE PresenceInv'
<1> DEFINE token == outages + 1
           h == [workers[w] EXCEPT !.pc = "load", !.generation = token]
<1>1. PresenceTypes /\ workers \in [Worker -> WorkerHands] /\ workers[w] \in WorkerHands /\ seeded = 0
  BY DEF PresenceInv, PresenceTypes
<1>2. /\ outages \in Nat /\ MaxOutages \in Nat /\ token \in Nat /\ token # 0 /\ token \in 0..(MaxOutages + 1)
      /\ workers[w].known \in Nat /\ workers[w].known # token
      /\ workers[w].pc = "idle" /\ workers[w].rows = {}
  <2>1. outages \in Nat /\ MaxOutages \in Nat /\ outages <= MaxOutages /\ workers[w].known \in Nat
    BY <1>1, ClockFacts, HandFacts
  <2>2. workers[w].known <= outages
    BY DEF PresenceInv, TokensFresh, TokenOK
  <2>3. workers[w].pc = "idle" /\ workers[w].rows = {}
    BY <1>1 DEF Inspect, PresenceTypes
  <2> QED
    BY <2>1, <2>2, <2>3
<1>3. /\ generation' = token /\ workers' = [workers EXCEPT ![w] = h]
      /\ now' = now /\ beat' = beat /\ enabled' = enabled /\ outbox' = outbox /\ published' = published
      /\ deadlines' = deadlines /\ seeded' = seeded /\ shown' = shown /\ dirty' = dirty
      /\ expired' = expired /\ outages' = outages /\ toggles' = toggles
  BY <1>2 DEF Inspect
<1>4. /\ h \in WorkerHands /\ h.pc = "load" /\ h.known = workers[w].known /\ h.generation = token /\ h.rows = {}
  BY <1>1, <1>2 DEF WorkerHands
<1> HIDE DEF h, token
<1>5. workers'[w] = h /\ \A v \in Worker \ {w} : workers'[v] = workers[v]
  BY <1>1, <1>3
<1>6. \A v \in Worker : /\ workers[v].known \in Nat /\ workers[v].generation \in Nat
                        /\ workers[v].known <= outages /\ workers[v].generation <= outages
                        /\ workers[v].pc \in {"load", "seed"} => workers[v].generation # 0
  BY <1>1, HandFacts DEF PresenceInv, TokensFresh, TokenOK
<1>7. PresenceTypes'
  <2>1. workers' \in [Worker -> WorkerHands]
    BY <1>1, <1>3, <1>4
  <2>2. \A v \in Worker : workers'[v].pc \in {"idle", "load"} => workers'[v].rows = {}
    BY <1>1, <1>4, <1>5 DEF PresenceTypes
  <2> QED
    BY <1>1, <1>2, <1>3, <2>1, <2>2 DEF PresenceTypes, WorkerHands
<1>8. BeatsTrue'
  BY <1>3, <1>4, <1>5 DEF PresenceInv, BeatsTrue, NoticeTrue, NodeTrue
<1>9. \A v \in Worker : /\ workers[v].known # token /\ workers[v].generation # token
                        /\ workers[v].known <= outages + 1 /\ workers[v].generation <= outages + 1
  BY <1>2, <1>6 DEF token
<1>10. TokensFresh'
  <2>1. token <= outages + 1
    BY <1>2 DEF token
  <2>2. ASSUME NEW v \in Worker PROVE TokenOK(workers[v])'
    BY <1>2, <1>3, <1>4, <1>5, <1>6, <1>9, <2>1 DEF TokenOK
  <2> QED
    BY <1>3, <2>1, <2>2 DEF TokensFresh
<1>11. SeedCovers' /\ SeededArms' /\ ViewsTold'
  <2>1. SeedCovers'
    BY <1>3, <1>4, <1>5, <1>9 DEF SeedCovers
  <2>2. seeded' # generation'
    BY <1>1, <1>2, <1>3
  <2> QED
    BY <2>1, <2>2 DEF SeededArms, ViewsTold, StaleTold
<1>12. InspectedPast'
  BY <1>3, <1>4, <1>5 DEF PresenceInv, InspectedPast
<1>13. FencedArmed' /\ EndedPast' /\ WindowsEndOnce'
  BY <1>3 DEF PresenceInv, FencedArmed, FenceArms, InWindow, EndedPast, WindowsEndOnce
<1> QED
  BY <1>7, <1>8, <1>10, <1>11, <1>12, <1>13 DEF PresenceInv

LEMMA InspectKeeps == ASSUME PresenceInv, NEW w \in Worker, Inspect(w) PROVE PresenceInv'
<1>1. CASE generation = 0
  BY <1>1, InspectNewKeeps
<1>2. CASE generation # 0
  <2>1. PresenceTypes /\ workers[w] \in WorkerHands /\ workers[w].pc = "idle" /\ workers[w].rows = {} /\ HandOK(workers[w])
    BY HandHolds DEF PresenceInv, PresenceTypes, Inspect
  <2>2. PICK due \in DueBatches :
          workers' = [workers EXCEPT ![w] =
            IF generation # workers[w].known
            THEN [workers[w] EXCEPT !.pc = "load", !.generation = generation]
            ELSE IF due = {} THEN workers[w]
            ELSE [workers[w] EXCEPT !.pc = "expire", !.rows = due]]
    BY <1>2 DEF Inspect
  <2>3. /\ UNCHANGED <<now, beat, enabled, outbox, published, deadlines, generation, seeded, shown, dirty, expired, toggles>>
        /\ outages' \in {outages, outages + 1} /\ outages' <= MaxOutages
    BY <1>2, <2>1, ClockFacts DEF Inspect
  <2>4. generation \in 0..(MaxOutages + 1) /\ generation <= outages + 1
    BY DEF PresenceInv, PresenceTypes, TokensFresh
  <2>5. CASE generation # workers[w].known
    <3> DEFINE h == [workers[w] EXCEPT !.pc = "load", !.generation = generation]
    <3>1. h \in WorkerHands /\ h.pc = "load" /\ h.rows = {} /\ h.known = workers[w].known /\ h.generation = generation
      BY <2>1, <2>4 DEF WorkerHands
    <3>2. workers' = [workers EXCEPT ![w] = h]
      BY <2>2, <2>5
    <3> HIDE DEF h
    <3>3. HandOK(h)
      BY <1>2, <2>1, <2>4, <3>1 DEF HandOK, TokenOK
    <3> QED
      BY <2>3, <3>1, <3>2, <3>3, HandKeeps
  <2>6. CASE generation = workers[w].known /\ due = {}
    <3>1. workers' = [workers EXCEPT ![w] = workers[w]]
      BY <2>2, <2>6
    <3> QED
      BY <2>1, <2>3, <3>1, HandKeeps
  <2>7. CASE generation = workers[w].known /\ due # {}
    <3> DEFINE h == [workers[w] EXCEPT !.pc = "expire", !.rows = due]
    <3>1. /\ due \subseteq Candidate
          /\ \A c \in due : deadlines[c.node] = c.deadline /\ c.deadline < now /\ c.node \in WatchedNodes
      BY CandidateFacts DEF DueBatches, Due
    <3>2. h \in WorkerHands /\ h.pc = "expire" /\ h.rows = due /\ h.known = workers[w].known /\ h.generation = workers[w].generation
      BY <2>1, <3>1 DEF WorkerHands
    <3>3. workers' = [workers EXCEPT ![w] = h]
      BY <2>2, <2>7
    <3> HIDE DEF h
    <3>4. seeded = generation /\ TokenOK(workers[w])
      BY <1>2, <2>1, <2>7 DEF HandOK, TokenOK
    <3>5. \A c \in due : c.deadline <= beat[c.node] + Window
      BY <3>1 DEF PresenceInv, BeatsTrue, NodeTrue
    <3>6. HandOK(h)
      BY <1>2, <3>1, <3>2, <3>4, <3>5 DEF HandOK, TokenOK
    <3> QED
      BY <2>3, <3>2, <3>3, <3>6, HandKeeps
  <2> QED
    BY <2>5, <2>6, <2>7
<1> QED
  BY <1>1, <1>2

\* A worker that gives up, or is started again, has nothing in hand.
LEMMA IdleKeeps ==
  ASSUME PresenceInv, NEW w \in Worker, NEW k \in {0, workers[w].known}, workers' = [workers EXCEPT ![w] = Idle(k)],
         outages' \in {outages, outages + 1}, outages' <= MaxOutages,
         UNCHANGED <<now, beat, enabled, outbox, published, deadlines, generation, seeded, shown, dirty, expired, toggles>>
  PROVE  PresenceInv'
<1>1. PresenceTypes /\ TokenOK(workers[w])
  BY DEF PresenceInv, TokensFresh
<1>2. k \in 0..(MaxOutages + 1) /\ k \in Nat /\ outages \in Nat
  BY <1>1, HandFacts, ClockFacts, PresenceAssumption
<1>3. /\ Idle(k) \in WorkerHands
      /\ Idle(k).pc = "idle" /\ Idle(k).known = k /\ Idle(k).generation = 0 /\ Idle(k).rows = {}
  BY <1>2, IdleHand
<1>4. HandOK(Idle(k))
  BY <1>1, <1>2, <1>3 DEF HandOK, TokenOK
<1> QED
  BY <1>3, <1>4, HandKeeps

\* The rows a seed loads are the windows of the nodes that are online.
LEMMA LoadRowsKeeps == ASSUME PresenceInv, NEW w \in Worker, LoadRows(w) PROVE PresenceInv'
<1> DEFINE loaded == {[node |-> n, deadline |-> beat[n] + Window] : n \in {k \in WatchedNodes : Online(k)}}
           h == [workers[w] EXCEPT !.pc = "seed", !.rows = loaded]
<1>1. PresenceTypes /\ BeatsTrue /\ workers[w] \in WorkerHands /\ workers[w].pc = "load" /\ TokenOK(workers[w])
  BY DEF PresenceInv, PresenceTypes, TokensFresh, LoadRows
<1>2. loaded \subseteq Candidate /\ \A c \in loaded : c.deadline = beat[c.node] + Window
  <2> SUFFICES ASSUME NEW n \in WatchedNodes, Online(n) PROVE [node |-> n, deadline |-> beat[n] + Window] \in Candidate
    OBVIOUS
  <2>1. beat[n] \in Nat /\ beat[n] > 0 /\ beat[n] + Window <= MaxTime
    BY <1>1, WatchedFacts DEF Online, InWindow, BeatsTrue, NodeTrue
  <2>2. beat[n] + Window \in 1..MaxTime
    BY <1>1, <2>1, ClockFacts
  <2> QED
    BY <2>2 DEF Candidate
<1>3. \A n \in WatchedNodes : Online(n) => WindowRow(n) \in loaded
  BY DEF WindowRow
<1>4. /\ workers' = [workers EXCEPT ![w] = h]
      /\ UNCHANGED <<now, beat, enabled, outbox, published, deadlines, generation, seeded, shown, dirty, expired, toggles>>
      /\ outages' = outages
  <2>1. workers' = [workers EXCEPT ![w].pc = "seed", ![w].rows = loaded]
    BY DEF LoadRows
  <2>2. workers \in [Worker -> WorkerHands]
    BY <1>1 DEF PresenceTypes
  <2>3. [workers EXCEPT ![w].pc = "seed", ![w].rows = loaded] = [workers EXCEPT ![w] = h]
    BY <2>2
  <2> QED
    BY <2>1, <2>3 DEF LoadRows
<1> HIDE DEF loaded
<1>5. /\ h \in WorkerHands /\ h.pc = "seed" /\ h.rows = loaded
      /\ h.known = workers[w].known /\ h.generation = workers[w].generation
  BY <1>1, <1>2 DEF WorkerHands
<1> HIDE DEF h
<1>6. \A c \in loaded : c.deadline <= beat[c.node] + Window
  <2> SUFFICES ASSUME NEW c \in loaded PROVE c.deadline <= beat[c.node] + Window
    OBVIOUS
  <2>1. c.deadline \in Nat /\ c.deadline = beat[c.node] + Window
    BY <1>2, CandidateFacts
  <2> QED
    BY <2>1
<1>7. HandOK(h)
  BY <1>1, <1>3, <1>5, <1>6 DEF HandOK, TokenOK, SeedCoversNode
<1>8. outages' \in {outages, outages + 1} /\ outages' <= MaxOutages
  BY <1>1, <1>4, ClockFacts
<1> QED
  BY <1>4, <1>5, <1>7, <1>8, HandKeeps

\* A row of a seed arms the window it was loaded from; if that is over by
\* now or the node was heard from again, the row is not needed.
LEMMA SeedRowKeeps == ASSUME PresenceInv, NEW w \in Worker, NEW c \in workers[w].rows, SeedRow(w, c) PROVE PresenceInv'
<1>1. /\ PresenceTypes /\ BeatsTrue /\ SeedCovers /\ SeededArms /\ FencedArmed /\ ViewsTold
      /\ workers \in [Worker -> WorkerHands] /\ workers[w] \in WorkerHands
      /\ workers[w].pc = "seed"
  BY DEF PresenceInv, PresenceTypes, SeedRow
<1>2. CASE generation # workers[w].generation
  <2>1. /\ workers' = [workers EXCEPT ![w] = Idle(workers[w].known)] /\ outages' = outages
        /\ UNCHANGED <<now, beat, enabled, outbox, published, deadlines, generation, seeded, shown, dirty, expired, toggles>>
    BY <1>2 DEF SeedRow
  <2>2. outages' \in {outages, outages + 1} /\ outages' <= MaxOutages
    BY <1>1, <2>1, ClockFacts
  <2> QED
    BY <2>1, <2>2, IdleKeeps
<1>3. CASE generation = workers[w].generation
  <2> DEFINE h == [workers[w] EXCEPT !.rows = workers[w].rows \ {c}]
             n == c.node
  <2>1. /\ deadlines' = Recorded(deadlines, c.node, c.deadline)
        /\ now' = now /\ beat' = beat /\ enabled' = enabled /\ outbox' = outbox /\ published' = published
        /\ generation' = generation /\ seeded' = seeded /\ shown' = shown /\ dirty' = dirty
        /\ expired' = expired /\ outages' = outages /\ toggles' = toggles
    BY <1>3 DEF SeedRow
  <2>2. workers' = [workers EXCEPT ![w] = h]
    <3>1. workers' = [workers EXCEPT ![w].rows = workers[w].rows \ {c}]
      BY <1>3 DEF SeedRow
    <3> QED
      BY <1>1, <3>1
  <2>3. /\ h \in WorkerHands /\ h.pc = "seed" /\ h.rows = workers[w].rows \ {c}
        /\ h.known = workers[w].known /\ h.generation = workers[w].generation
    BY <1>1 DEF WorkerHands
  <2> HIDE DEF h
  <2>4. workers'[w] = h /\ \A v \in Worker \ {w} : workers'[v] = workers[v]
    BY <1>1, <2>2
  <2>5. /\ c \in Candidate /\ n \in WatchedNodes /\ c.deadline \in Nat /\ c.deadline <= MaxTime
        /\ c.deadline <= beat[n] + Window /\ deadlines[n] <= beat[n] + Window
    BY <1>1, HandFacts, CandidateFacts DEF BeatsTrue, NodeTrue
  <2>6. /\ deadlines' \in [WatchedNodes -> 0..MaxTime]
        /\ \A m \in WatchedNodes \ {n} : deadlines'[m] = deadlines[m]
        /\ deadlines'[n] <= beat[n] + Window /\ deadlines'[n] >= deadlines[n]
        /\ deadlines'[n] = deadlines[n] \/ (deadlines'[n] = c.deadline /\ c.deadline > now)
        /\ deadlines[n] = beat[n] + Window => deadlines'[n] = beat[n] + Window
        /\ InWindow(n) /\ c.deadline = beat[n] + Window => deadlines'[n] = beat[n] + Window
    BY <1>1, <2>1, <2>5, RecordedFacts
  <2>7. now \in Nat /\ Window \in Nat /\ MaxTime \in Nat
    BY <1>1, ClockFacts
  <2>8. ASSUME NEW m \in WatchedNodes
        PROVE  /\ InWindow(m)' <=> InWindow(m)
               /\ Online(m)' <=> Online(m)
               /\ Steady(m)' <=> Steady(m)
               /\ Waiting(m)' <=> Waiting(m)
               /\ WindowRow(m)' = WindowRow(m)
               /\ deadlines[m] \in Nat /\ deadlines'[m] \in Nat /\ beat[m] \in Nat
               /\ deadlines'[m] >= deadlines[m] /\ deadlines'[m] <= beat[m] + Window
               /\ deadlines'[m] = deadlines[m] \/ deadlines'[m] > now
               /\ deadlines[m] = beat[m] + Window => deadlines'[m] = beat[m] + Window
               /\ Armed(m) => Armed(m)'
    <3>1. deadlines[m] \in Nat /\ deadlines'[m] \in Nat /\ beat[m] \in Nat /\ deadlines[m] <= beat[m] + Window
      BY <1>1, <2>6, <2>7, WatchedFacts DEF BeatsTrue, NodeTrue
    <3>2. /\ InWindow(m)' <=> InWindow(m)
          /\ Online(m)' <=> Online(m)
          /\ Steady(m)' <=> Steady(m)
          /\ Waiting(m)' <=> Waiting(m)
          /\ WindowRow(m)' = WindowRow(m)
          /\ Heard(m)' <=> Heard(m)
      BY <2>1 DEF InWindow, Online, Steady, WindowRow, Waiting, Heard
    <3>3. /\ deadlines'[m] >= deadlines[m] /\ deadlines'[m] <= beat[m] + Window
          /\ deadlines'[m] = deadlines[m] \/ deadlines'[m] > now
          /\ deadlines[m] = beat[m] + Window => deadlines'[m] = beat[m] + Window
      BY <2>6, <3>1
    <3> QED
      BY <2>1, <3>1, <3>2, <3>3 DEF Armed
  <2> HIDE DEF n
  <2>9. PresenceTypes'
    <3>1. workers' \in [Worker -> WorkerHands]
      BY <1>1, <2>2, <2>3
    <3>2. \A v \in Worker : workers'[v].pc \in {"idle", "load"} => workers'[v].rows = {}
      BY <1>1, <2>3, <2>4 DEF PresenceTypes
    <3> QED
      BY <1>1, <2>1, <2>6, <3>1, <3>2 DEF PresenceTypes, WorkerHands
  <2>10. BeatsTrue'
    <3>1. ASSUME NEW m \in WatchedNodes PROVE NodeTrue(m)'
      BY <1>1, <2>1, <2>8 DEF BeatsTrue, NodeTrue
    <3>2. ASSUME NEW v \in Worker, NEW x \in workers'[v].rows PROVE x.deadline <= beat[x.node] + Window
      BY <1>1, <2>3, <2>4, <3>2 DEF BeatsTrue
    <3>3. \A f \in outbox \cup published : NoticeTrue(f)'
      BY <1>1, <2>1 DEF BeatsTrue, NoticeTrue
    <3> QED
      BY <2>1, <3>1, <3>2, <3>3 DEF BeatsTrue
  <2>11. TokensFresh'
    BY <1>1, <2>1, <2>3, <2>4 DEF PresenceInv, TokensFresh, TokenOK
  <2>12. FencedArmed'
    <3> SUFFICES ASSUME NEW f \in published PROVE FenceArms(f)'
      BY <2>1 DEF FencedArmed
    <3>1. f.node \in WatchedNodes
      BY <1>1, NoticeFields DEF PresenceTypes
    <3> QED
      BY <1>1, <2>1, <2>8, <3>1 DEF FencedArmed, FenceArms
  <2>13. SeedCovers'
    <3> SUFFICES ASSUME NEW v \in Worker, workers'[v].pc = "seed", workers'[v].generation = generation,
                        NEW m \in WatchedNodes, Steady(m), Online(m)
                 PROVE  Armed(m)' \/ WindowRow(m) \in workers'[v].rows
      BY <2>1, <2>8 DEF SeedCovers, SeedCoversNode
    <3>1. workers[v].pc = "seed" /\ workers[v].generation = generation
      BY <1>1, <2>3, <2>4
    <3>2. Armed(m) \/ WindowRow(m) \in workers[v].rows
      BY <1>1, <3>1 DEF SeedCovers, SeedCoversNode
    <3>3. CASE WindowRow(m) = c
      <4>1. n = m /\ c.deadline = beat[m] + Window /\ InWindow(m)
        BY <3>3 DEF WindowRow, n, Online
      <4>2. deadlines'[m] = beat[m] + Window
        BY <2>6, <4>1
      <4> QED
        BY <2>1, <4>2 DEF Armed
    <3> QED
      BY <2>3, <2>4, <2>8, <3>2, <3>3
  <2>14. SeededArms'
    BY <1>1, <2>1, <2>8 DEF SeededArms, NodeArmed
  <2>15. ViewsTold'
    <3> SUFFICES ASSUME NEW m \in WatchedNodes PROVE StaleTold(m)'
      BY DEF ViewsTold
    <3>1. deadlines[m] > 0 => deadlines'[m] > 0
      BY <2>8
    <3> QED
      BY <1>1, <2>1, <2>8, <3>1 DEF ViewsTold, StaleTold
  <2>16. InspectedPast'
    <3> SUFFICES ASSUME NEW v \in Worker, workers'[v].pc = "expire", NEW x \in workers'[v].rows
                 PROVE  /\ x.deadline < now
                        /\ deadlines'[x.node] = x.deadline => generation # 0 /\ seeded = generation
      BY <2>1 DEF InspectedPast
    <3>1. /\ v # w /\ x \in workers[v].rows /\ workers[v].pc = "expire"
          /\ x.deadline < now /\ (deadlines[x.node] = x.deadline => generation # 0 /\ seeded = generation)
      BY <2>3, <2>4 DEF PresenceInv, InspectedPast
    <3>2. x.node \in WatchedNodes /\ x.deadline \in Nat
      BY <1>1, <3>1, HandFacts, CandidateFacts
    <3>3. deadlines'[x.node] = x.deadline => deadlines[x.node] = x.deadline
      BY <2>7, <2>8, <3>1, <3>2
    <3> QED
      BY <3>1, <3>3
  <2>17. EndedPast'
    <3> SUFFICES ASSUME NEW m \in WatchedNodes, NEW i \in 1..Len(expired[m]), deadlines'[m] > 0
                 PROVE  expired[m][i] < deadlines'[m]
      BY <2>1 DEF PresenceInv, EndedPast
    <3>1. expired[m][i] \in Nat /\ expired[m][i] < now /\ (deadlines[m] > 0 => expired[m][i] < deadlines[m])
      BY <1>1, <2>7, EndedFacts DEF PresenceInv, EndedPast
    <3> QED
      BY <2>7, <2>8, <3>1
  <2>18. WindowsEndOnce'
    BY <2>1 DEF PresenceInv, WindowsEndOnce
  <2> QED
    BY <2>9, <2>10, <2>11, <2>12, <2>13, <2>14, <2>15, <2>16, <2>17, <2>18 DEF PresenceInv
<1> QED
  BY <1>2, <1>3

\* A seed that is complete has armed every online node, and every view is
\* told to recover.
LEMMA CompleteSeedKeeps == ASSUME PresenceInv, NEW w \in Worker, CompleteSeed(w) PROVE PresenceInv'
<1>1. /\ PresenceTypes /\ SeedCovers /\ SeededArms /\ ViewsTold /\ TokenOK(workers[w])
      /\ workers \in [Worker -> WorkerHands] /\ workers[w] \in WorkerHands
      /\ workers[w].pc = "seed" /\ workers[w].rows = {}
      /\ now' = now /\ beat' = beat /\ enabled' = enabled /\ outbox' = outbox /\ published' = published
      /\ deadlines' = deadlines /\ generation' = generation /\ shown' = shown /\ expired' = expired /\ toggles' = toggles
  BY DEF PresenceInv, PresenceTypes, TokensFresh, CompleteSeed
<1>2. CASE generation # workers[w].generation
  <2>1. /\ workers' = [workers EXCEPT ![w] = Idle(workers[w].known)] /\ outages' = outages
        /\ UNCHANGED <<now, beat, enabled, outbox, published, deadlines, generation, seeded, shown, dirty, expired, toggles>>
    BY <1>2 DEF CompleteSeed
  <2>2. outages' \in {outages, outages + 1} /\ outages' <= MaxOutages
    BY <1>1, <2>1, ClockFacts
  <2> QED
    BY <2>1, <2>2, IdleKeeps
<1>3. CASE generation = workers[w].generation
  <2>1. /\ generation # 0 /\ seeded' = generation /\ dirty' = IF seeded = generation THEN dirty ELSE WatchedNodes
    BY <1>1, <1>3 DEF CompleteSeed, TokenOK
  <2>2. PICK k \in {generation, workers[w].known} :
          workers' = [workers EXCEPT ![w] = Idle(k)] /\ (outages' = outages \/ (outages < MaxOutages /\ outages' = outages + 1))
    BY <1>3 DEF CompleteSeed
  <2>3. /\ outages \in Nat /\ outages' \in Nat /\ outages' \in 0..MaxOutages /\ outages' >= outages
        /\ generation \in Nat /\ generation \in 0..(MaxOutages + 1) /\ k \in 0..(MaxOutages + 1) /\ k \in Nat
    BY <1>1, <2>2, ClockFacts, HandFacts, SMTT(30) DEF PresenceTypes
  <2>4. /\ Idle(k) \in WorkerHands
        /\ Idle(k).pc = "idle" /\ Idle(k).known = k /\ Idle(k).generation = 0 /\ Idle(k).rows = {}
    BY <2>3, IdleHand
  <2>5. workers'[w] = Idle(k) /\ \A v \in Worker \ {w} : workers'[v] = workers[v]
    BY <1>1, <2>2
  <2>6. PresenceTypes'
    <3>1. workers' \in [Worker -> WorkerHands]
      BY <1>1, <2>2, <2>4
    <3>2. \A v \in Worker : workers'[v].pc \in {"idle", "load"} => workers'[v].rows = {}
      BY <1>1, <2>4, <2>5 DEF PresenceTypes
    <3> QED
      BY <1>1, <2>1, <2>3, <3>1, <3>2 DEF PresenceTypes, WorkerHands
  <2>7. BeatsTrue'
    BY <1>1, <2>4, <2>5 DEF PresenceInv, BeatsTrue, NoticeTrue, NodeTrue
  <2>8. TokensFresh'
    <3>1. generation <= outages + 1 /\ \A v \in Worker : TokenOK(workers[v])
      BY DEF PresenceInv, TokensFresh
    <3>2. generation <= outages' + 1
      BY <2>3, <3>1, StillBelow
    <3>3. \A v \in Worker : /\ workers[v].known \in Nat /\ workers[v].generation \in Nat
                            /\ workers[v].known <= outages' + 1 /\ workers[v].generation <= outages' + 1
      BY <1>1, <2>3, <3>1, HandFacts, StillBelow DEF TokenOK
    <3>4. k <= outages' + 1
      BY <2>2, <3>2, <3>3
    <3>5. ASSUME NEW v \in Worker PROVE TokenOK(workers[v])'
      BY <1>1, <2>1, <2>3, <2>4, <2>5, <3>1, <3>3, <3>4 DEF TokenOK
    <3> QED
      BY <1>1, <3>2, <3>5 DEF TokensFresh
  <2>9. FencedArmed' /\ EndedPast' /\ WindowsEndOnce'
    BY <1>1 DEF PresenceInv, FencedArmed, FenceArms, InWindow, EndedPast, WindowsEndOnce
  <2>10. ASSUME NEW m \in WatchedNodes
         PROVE  /\ Online(m)' <=> Online(m)
                /\ Steady(m)' <=> Steady(m)
                /\ Armed(m)' <=> Armed(m)
                /\ Waiting(m)' <=> Waiting(m)
                /\ WindowRow(m)' = WindowRow(m)
    BY <1>1 DEF InWindow, Online, Steady, Armed, Heard, Waiting, WindowRow
  <2>11. SeedCovers'
    BY <1>1, <2>4, <2>5, <2>10 DEF SeedCovers, SeedCoversNode
  <2>12. SeededArms'
    <3>1. \A m \in WatchedNodes : NodeArmed(m)
      BY <1>1, <1>3 DEF SeedCovers, SeedCoversNode, NodeArmed
    <3> QED
      BY <2>10, <3>1 DEF SeededArms, NodeArmed
  <2>13. ViewsTold'
    BY <1>1, <2>1, <2>10 DEF ViewsTold, StaleTold
  <2>14. InspectedPast'
    BY <1>1, <2>1, <2>4, <2>5 DEF PresenceInv, InspectedPast
  <2> QED
    BY <2>6, <2>7, <2>8, <2>9, <2>11, <2>12, <2>13, <2>14 DEF PresenceInv
<1> QED
  BY <1>2, <1>3

\* What expires is over: its node is not online, or a newer heartbeat of it
\* is on its way.
LEMMA ExpiresOver ==
  ASSUME PresenceInv, NEW w \in Worker, workers[w].pc = "expire", NEW c \in workers[w].rows,
         deadlines[c.node] = c.deadline, Steady(c.node)
  PROVE  ~Online(c.node) \/ Heard(c.node)
<1>1. PresenceTypes /\ c.node \in WatchedNodes /\ c.deadline \in Nat /\ c.deadline < now
  BY HandFacts, CandidateFacts DEF PresenceInv, InspectedPast
<1>2. generation # 0 /\ seeded = generation
  BY DEF PresenceInv, InspectedPast
<1>3. Online(c.node) => Armed(c.node)
  BY <1>1, <1>2 DEF PresenceInv, SeededArms, NodeArmed
<1>4. Online(c.node) => deadlines[c.node] # beat[c.node] + Window
  BY <1>1, WatchedFacts, ClockFacts DEF Online, InWindow
<1> QED
  BY <1>3, <1>4 DEF Armed

LEMMA ExpireKeeps == ASSUME PresenceInv, NEW w \in Worker, NEW c \in workers[w].rows, Expire(w, c) PROVE PresenceInv'
<1> DEFINE h == IF workers[w].rows = {c} THEN Idle(workers[w].known) ELSE [workers[w] EXCEPT !.rows = workers[w].rows \ {c}]
           n == c.node
<1>1. /\ PresenceTypes /\ BeatsTrue /\ workers \in [Worker -> WorkerHands] /\ workers[w] \in WorkerHands
      /\ workers[w].pc = "expire" /\ HandOK(workers[w])
      /\ workers' = [workers EXCEPT ![w] = h]
      /\ now' = now /\ beat' = beat /\ enabled' = enabled /\ outbox' = outbox /\ published' = published
      /\ generation' = generation /\ seeded' = seeded /\ shown' = shown /\ outages' = outages /\ toggles' = toggles
  <2>1. PresenceTypes /\ BeatsTrue /\ workers \in [Worker -> WorkerHands] /\ workers[w] \in WorkerHands
    BY DEF PresenceInv, PresenceTypes
  <2>2. HandOK(workers[w])
    BY HandHolds
  <2>3. workers' = [workers EXCEPT ![w] = h]
    BY DEF Expire
  <2>4. workers[w].pc = "expire"
    BY DEF Expire
  <2> HIDE DEF h
  <2> QED
    BY <2>1, <2>2, <2>3, <2>4 DEF Expire
<1>2. /\ h \in WorkerHands /\ h.rows \subseteq workers[w].rows /\ h.known = workers[w].known
      /\ h.generation \in {0, workers[w].generation} /\ h.pc \in {"idle", "expire"} /\ (h.pc = "idle" => h.rows = {})
  <2>1. CASE workers[w].rows = {c}
    BY <1>1, <2>1, IdleHand, HandFacts
  <2>2. CASE workers[w].rows # {c}
    BY <1>1, <2>2 DEF WorkerHands
  <2> QED
    BY <2>1, <2>2
<1> HIDE DEF h
<1>3. HandOK(h)
  <2>1. workers[w].generation \in Nat
    BY <1>1, HandFacts
  <2> QED
    BY <1>1, <1>2, <2>1, ClockFacts DEF HandOK, TokenOK
<1>4. CASE ~(deadlines[n] = c.deadline /\ c.deadline < now)
  <2>1. UNCHANGED <<now, beat, enabled, outbox, published, deadlines, generation, seeded, shown, dirty, expired, toggles>>
    BY <1>1, <1>4 DEF Expire
  <2>2. outages' \in {outages, outages + 1} /\ outages' <= MaxOutages
    BY <1>1, ClockFacts
  <2> QED
    BY <1>1, <1>2, <1>3, <2>1, <2>2, HandKeeps
<1>5. CASE deadlines[n] = c.deadline /\ c.deadline < now
  <2>1. /\ deadlines' = [deadlines EXCEPT ![n] = 0] /\ dirty' = dirty \cup {n}
        /\ expired' = [expired EXCEPT ![n] = Append(expired[n], c.deadline)]
    BY <1>5 DEF Expire
  <2>2. /\ n \in WatchedNodes /\ c.deadline \in Nat /\ c.deadline > 0 /\ c.deadline \in 1..MaxTime
    BY <1>1, HandFacts, CandidateFacts
  <2>3. /\ deadlines'[n] = 0 /\ \A m \in WatchedNodes \ {n} : deadlines'[m] = deadlines[m]
        /\ expired'[n] = Append(expired[n], c.deadline) /\ \A m \in WatchedNodes \ {n} : expired'[m] = expired[m]
        /\ deadlines' \in [WatchedNodes -> 0..MaxTime] /\ expired' \in [WatchedNodes -> Seq(1..MaxTime)]
    <3>1. /\ deadlines \in [WatchedNodes -> 0..MaxTime] /\ expired \in [WatchedNodes -> Seq(1..MaxTime)]
          /\ 0 \in 0..MaxTime /\ Append(expired[n], c.deadline) \in Seq(1..MaxTime)
      BY <1>1, <2>2, ClockFacts, AppendItem, SMTT(30) DEF PresenceTypes
    <3> QED
      BY <2>1, <2>2, <3>1
  <2>4. workers'[w] = h /\ \A v \in Worker \ {w} : workers'[v] = workers[v]
    BY <1>1
  <2>5. PresenceTypes'
    <3>1. workers' \in [Worker -> WorkerHands]
      BY <1>1, <1>2
    <3>2. \A v \in Worker : workers'[v].pc \in {"idle", "load"} => workers'[v].rows = {}
      BY <1>1, <1>2, <2>4 DEF PresenceTypes
    <3> QED
      BY <1>1, <2>1, <2>2, <2>3, <3>1, <3>2 DEF PresenceTypes, WorkerHands
  <2>6. now \in Nat /\ Window \in Nat /\ MaxTime \in Nat /\ beat[n] \in Nat
    BY <1>1, <2>2, ClockFacts, WatchedFacts
  <2>7. BeatsTrue'
    <3>1. ASSUME NEW m \in WatchedNodes PROVE NodeTrue(m)'
      <4>1. deadlines'[m] <= beat[m] + Window
        <5>1. CASE m = n
          BY <2>3, <2>6, <5>1
        <5>2. CASE m # n
          BY <1>1, <2>3, <5>2 DEF BeatsTrue, NodeTrue
        <5> QED
          BY <5>1, <5>2
      <4> QED
        BY <1>1, <4>1 DEF BeatsTrue, NodeTrue
    <3>2. ASSUME NEW v \in Worker, NEW x \in workers'[v].rows PROVE x.deadline <= beat[x.node] + Window
      BY <1>1, <1>2, <2>4, <3>2 DEF BeatsTrue
    <3>3. \A f \in outbox \cup published : NoticeTrue(f)'
      BY <1>1 DEF BeatsTrue, NoticeTrue
    <3> QED
      BY <1>1, <3>1, <3>2, <3>3 DEF BeatsTrue
  <2>8. TokensFresh'
    BY <1>1, <1>3, <2>4 DEF PresenceInv, TokensFresh, TokenOK, HandOK
  <2>9. ASSUME NEW m \in WatchedNodes
        PROVE  /\ InWindow(m)' <=> InWindow(m)
               /\ Online(m)' <=> Online(m)
               /\ Steady(m)' <=> Steady(m)
               /\ Waiting(m)' <=> Waiting(m)
               /\ Heard(m)' <=> Heard(m)
               /\ WindowRow(m)' = WindowRow(m)
    BY <1>1 DEF InWindow, Online, Steady, Waiting, Heard, WindowRow
  <2>10. InWindow(n) => deadlines[n] # beat[n] + Window
    BY <1>5, <2>2, <2>6 DEF InWindow
  <2>11. ASSUME NEW m \in WatchedNodes, InWindow(m), Armed(m) PROVE Armed(m)'
    <3>1. CASE m = n
      BY <2>9, <2>10, <2>11, <3>1 DEF Armed
    <3>2. CASE m # n
      BY <1>1, <2>3, <2>9, <2>11, <3>2 DEF Armed
    <3> QED
      BY <3>1, <3>2
  <2>12. FencedArmed'
    <3> SUFFICES ASSUME NEW f \in published, InWindow(f.node), f.seen = beat[f.node]
                 PROVE  deadlines'[f.node] = beat[f.node] + Window
      BY <1>1 DEF FencedArmed, FenceArms, InWindow
    <3>1. f.node \in WatchedNodes /\ deadlines[f.node] = beat[f.node] + Window
      BY <1>1, NoticeFields DEF PresenceInv, PresenceTypes, FencedArmed, FenceArms
    <3> QED
      BY <2>3, <2>10, <3>1
  <2>13. SeedCovers'
    <3> SUFFICES ASSUME NEW v \in Worker, workers'[v].pc = "seed", workers'[v].generation = generation,
                        NEW m \in WatchedNodes, Steady(m), Online(m)
                 PROVE  Armed(m)' \/ WindowRow(m) \in workers'[v].rows
      BY <1>1, <2>9 DEF SeedCovers, SeedCoversNode
    <3>1. workers'[v] = workers[v] /\ (Armed(m) \/ WindowRow(m) \in workers[v].rows) /\ InWindow(m)
      BY <1>2, <2>4 DEF PresenceInv, SeedCovers, SeedCoversNode, Online
    <3> QED
      BY <2>11, <3>1
  <2>14. SeededArms'
    BY <1>1, <2>9, <2>11 DEF PresenceInv, SeededArms, NodeArmed, Online
  <2>15. ViewsTold'
    <3> SUFFICES ASSUME NEW m \in WatchedNodes PROVE StaleTold(m)'
      BY DEF ViewsTold
    <3>1. CASE m = n
      BY <2>1, <3>1 DEF StaleTold
    <3>2. CASE m # n
      BY <1>1, <2>1, <2>3, <2>9, <3>2 DEF PresenceInv, ViewsTold, StaleTold
    <3> QED
      BY <3>1, <3>2
  <2>16. InspectedPast'
    <3> SUFFICES ASSUME NEW v \in Worker, workers'[v].pc = "expire", NEW x \in workers'[v].rows
                 PROVE  /\ x.deadline < now
                        /\ deadlines'[x.node] = x.deadline => generation # 0 /\ seeded = generation
      BY <1>1 DEF InspectedPast
    <3>1. /\ x \in workers[v].rows /\ workers[v].pc = "expire"
          /\ x.deadline < now /\ (deadlines[x.node] = x.deadline => generation # 0 /\ seeded = generation)
      BY <1>1, <1>2, <2>4 DEF PresenceInv, InspectedPast
    <3>2. x.node \in WatchedNodes /\ x.deadline \in Nat /\ x.deadline > 0
      BY <1>1, <3>1, HandFacts, CandidateFacts
    <3>3. deadlines'[x.node] = x.deadline => deadlines[x.node] = x.deadline
      BY <2>3, <3>2
    <3> QED
      BY <3>1, <3>3
  <2>17. /\ Len(expired[n]) \in Nat /\ Len(expired'[n]) = Len(expired[n]) + 1
         /\ expired'[n][Len(expired[n]) + 1] = c.deadline
         /\ \A i \in 1..Len(expired[n]) : expired'[n][i] = expired[n][i] /\ expired[n][i] < c.deadline
    <3>1. \A i \in 1..Len(expired[n]) : expired[n][i] < c.deadline
      BY <1>5, <2>2 DEF PresenceInv, EndedPast
    <3>2. /\ Len(expired[n]) \in Nat /\ Len(Append(expired[n], c.deadline)) = Len(expired[n]) + 1
          /\ Append(expired[n], c.deadline)[Len(expired[n]) + 1] = c.deadline
          /\ \A i \in 1..Len(expired[n]) : Append(expired[n], c.deadline)[i] = expired[n][i]
      BY <1>1, <2>2, WatchedFacts, AppendItem
    <3> QED
      BY <2>3, <3>1, <3>2
  <2>18. EndedPast'
    <3> SUFFICES ASSUME NEW m \in WatchedNodes, NEW i \in 1..Len(expired'[m])
                 PROVE  expired'[m][i] < now /\ (deadlines'[m] > 0 => expired'[m][i] < deadlines'[m])
      BY <1>1 DEF EndedPast
    <3>1. CASE m # n
      BY <2>3, <3>1 DEF PresenceInv, EndedPast
    <3>2. CASE m = n
      <4>1. ~(deadlines'[n] > 0)
        BY <2>3
      <4>2. i = Len(expired[n]) + 1 \/ i \in 1..Len(expired[n])
        BY <2>17, <3>2
      <4>3. expired'[n][i] < now
        BY <1>5, <2>2, <2>17, <4>2 DEF PresenceInv, EndedPast
      <4> QED
        BY <3>2, <4>1, <4>3
    <3> QED
      BY <3>1, <3>2
  <2>19. WindowsEndOnce'
    <3> SUFFICES ASSUME NEW m \in WatchedNodes, NEW i \in 1..(Len(expired'[m]) - 1)
                 PROVE  expired'[m][i] < expired'[m][i + 1]
      BY DEF WindowsEndOnce
    <3>1. CASE m # n
      BY <2>3, <3>1 DEF PresenceInv, WindowsEndOnce
    <3>2. CASE m = n
      <4>1. i \in 1..Len(expired[n]) /\ (i = Len(expired[n]) \/ (i \in 1..(Len(expired[n]) - 1) /\ i + 1 \in 1..Len(expired[n])))
        BY <2>17, <3>2
      <4>2. CASE i = Len(expired[n])
        BY <2>17, <3>2, <4>1, <4>2
      <4>3. CASE i \in 1..(Len(expired[n]) - 1) /\ i + 1 \in 1..Len(expired[n])
        <5>1. expired[n][i] < expired[n][i + 1]
          BY <2>2, <4>3 DEF PresenceInv, WindowsEndOnce
        <5> QED
          BY <2>17, <3>2, <4>1, <4>3, <5>1
      <4> QED
        BY <4>1, <4>2, <4>3
    <3> QED
      BY <3>1, <3>2
  <2> QED
    BY <2>5, <2>7, <2>8, <2>12, <2>13, <2>14, <2>15, <2>16, <2>18, <2>19 DEF PresenceInv
<1> QED
  BY <1>4, <1>5

\* Redis loses everything: nothing is armed, nothing is fenced, and the next
\* inspection starts a data set that is not seeded.
LEMMA LoseRedisKeeps == PresenceInv /\ LoseRedis => PresenceInv'
<1> SUFFICES ASSUME PresenceInv, LoseRedis PROVE PresenceInv'
  OBVIOUS
<1>1. /\ PresenceTypes /\ BeatsTrue /\ outages < MaxOutages /\ outages' = outages + 1
      /\ deadlines' = [n \in WatchedNodes |-> 0] /\ published' = {} /\ generation' = 0 /\ seeded' = 0
      /\ now' = now /\ beat' = beat /\ enabled' = enabled /\ outbox' = outbox /\ workers' = workers /\ shown' = shown
      /\ dirty' = dirty /\ expired' = expired /\ toggles' = toggles
  BY DEF PresenceInv, LoseRedis
<1>2. /\ outages \in Nat /\ MaxOutages \in Nat /\ outages' \in 0..MaxOutages /\ outages' \in Nat /\ now \in Nat /\ Window \in Nat
      /\ 0 \in 0..(MaxOutages + 1) /\ 0 \in 0..MaxTime
  BY <1>1, ClockFacts
<1>3. PresenceTypes'
  BY <1>1, <1>2 DEF PresenceTypes, WorkerHands
<1>4. BeatsTrue'
  <2>1. ASSUME NEW m \in WatchedNodes PROVE NodeTrue(m)'
    <3>1. deadlines'[m] = 0 /\ beat[m] \in Nat
      BY <1>1, WatchedFacts
    <3>2. deadlines'[m] <= beat[m] + Window
      BY <1>2, <3>1
    <3> QED
      BY <1>1, <3>2 DEF BeatsTrue, NodeTrue
  <2>2. \A f \in outbox : NoticeTrue(f)'
    BY <1>1 DEF BeatsTrue, NoticeTrue
  <2> QED
    BY <1>1, <2>1, <2>2 DEF BeatsTrue
<1>5. TokensFresh'
  <2>1. ASSUME NEW v \in Worker PROVE TokenOK(workers[v])'
    <3>1. /\ workers[v].known \in Nat /\ workers[v].generation \in Nat
          /\ workers[v].known <= outages + 1 /\ workers[v].generation <= outages + 1
          /\ workers[v].pc \in {"load", "seed"} => workers[v].generation # 0
      BY <1>1, HandFacts DEF PresenceInv, TokensFresh, TokenOK
    <3>2. /\ workers[v].known <= outages' /\ workers[v].generation <= outages'
          /\ workers[v].known <= outages' + 1 /\ workers[v].generation <= outages' + 1
      BY <1>1, <1>2, <3>1
    <3> QED
      BY <1>1, <3>1, <3>2 DEF TokenOK
  <2>2. 0 <= outages' + 1
    BY <1>2, AboveZero
  <2> QED
    BY <1>1, <2>1, <2>2 DEF TokensFresh
<1>6. SeedCovers'
  <2>1. \A v \in Worker : workers[v].pc = "seed" => workers[v].generation # 0
    BY DEF PresenceInv, TokensFresh, TokenOK
  <2> QED
    BY <1>1, <2>1 DEF SeedCovers
<1>7. FencedArmed' /\ SeededArms' /\ ViewsTold'
  BY <1>1 DEF FencedArmed, SeededArms, ViewsTold, StaleTold
<1>8. InspectedPast'
  <2> SUFFICES ASSUME NEW v \in Worker, workers[v].pc = "expire", NEW x \in workers[v].rows
               PROVE  x.deadline < now /\ deadlines'[x.node] # x.deadline
    BY <1>1 DEF InspectedPast
  <2>1. x.node \in WatchedNodes /\ x.deadline \in Nat /\ x.deadline > 0 /\ x.deadline < now
    BY <1>1, HandFacts, CandidateFacts DEF PresenceInv, InspectedPast
  <2> QED
    BY <1>1, <2>1
<1>9. EndedPast'
  <2> SUFFICES ASSUME NEW n \in WatchedNodes, NEW i \in 1..Len(expired[n])
               PROVE  expired[n][i] < now /\ ~(deadlines'[n] > 0)
    BY <1>1 DEF EndedPast
  <2>1. expired[n][i] < now
    BY DEF PresenceInv, EndedPast
  <2>2. deadlines'[n] = 0
    BY <1>1
  <2> QED
    BY <2>1, <2>2
<1>10. WindowsEndOnce'
  BY <1>1 DEF PresenceInv, WindowsEndOnce
<1> QED
  BY <1>3, <1>4, <1>5, <1>6, <1>7, <1>8, <1>9, <1>10 DEF PresenceInv

LEMMA PresenceStepKeeps == PresenceInv /\ [PresenceNext]_presenceVars => PresenceInv'
<1> SUFFICES ASSUME PresenceInv, [PresenceNext]_presenceVars PROVE PresenceInv'
  OBVIOUS
<1>1. CASE Tick \/ LoseRedis
  BY <1>1, TickKeeps, LoseRedisKeeps
<1>2. ASSUME NEW n \in WatchedNodes, Heartbeat(n) \/ SetStatus(n) \/ Read(n) PROVE PresenceInv'
  BY <1>2, HeartbeatKeeps, SetStatusKeeps, ReadKeeps
<1>3. ASSUME NEW e \in outbox, Publish(e) PROVE PresenceInv'
  BY <1>3, PublishKeeps
<1>4. ASSUME NEW w \in Worker, Work(w) PROVE PresenceInv'
  BY <1>4, InspectKeeps, LoadRowsKeeps, CompleteSeedKeeps, SeedRowKeeps, ExpireKeeps DEF Work
<1>5. ASSUME NEW w \in Worker, WorkerFails(w) \/ Restart(w) PROVE PresenceInv'
  <2>1. PresenceTypes /\ outages \in Nat /\ MaxOutages \in Nat
    BY ClockFacts DEF PresenceInv
  <2>2. /\ outages < MaxOutages /\ outages' = outages + 1
        /\ UNCHANGED <<now, beat, enabled, outbox, published, deadlines, generation, seeded, shown, dirty, expired, toggles>>
    BY <1>5 DEF WorkerFails, Restart
  <2>3. outages' \in {outages, outages + 1} /\ outages' <= MaxOutages
    BY <2>1, <2>2
  <2>4. \E k \in {0, workers[w].known} : workers' = [workers EXCEPT ![w] = Idle(k)]
    BY <1>5 DEF WorkerFails, Restart
  <2> QED
    BY <2>2, <2>3, <2>4, IdleKeeps
<1>6. CASE UNCHANGED presenceVars
  <2>1. /\ now' = now /\ beat' = beat /\ enabled' = enabled /\ outbox' = outbox /\ published' = published
        /\ deadlines' = deadlines /\ generation' = generation /\ seeded' = seeded /\ workers' = workers /\ shown' = shown
        /\ dirty' = dirty /\ expired' = expired /\ outages' = outages /\ toggles' = toggles
    BY <1>6 DEF presenceVars
  <2>2. PresenceTypes' /\ BeatsTrue' /\ TokensFresh' /\ InspectedPast' /\ EndedPast' /\ WindowsEndOnce'
    BY <2>1 DEF PresenceInv, PresenceTypes, WorkerHands, BeatsTrue, NoticeTrue, NodeTrue, TokensFresh, TokenOK,
      InspectedPast, EndedPast, WindowsEndOnce
  <2>3. FencedArmed' /\ SeedCovers' /\ SeededArms' /\ ViewsTold'
    BY <2>1 DEF PresenceInv, FencedArmed, FenceArms, InWindow, SeedCovers, SeedCoversNode, SeededArms, NodeArmed, Online,
      Steady, Armed, Heard, WindowRow, ViewsTold, StaleTold, Waiting
  <2> QED
    BY <2>2, <2>3 DEF PresenceInv
<1> QED
  BY <1>1, <1>2, <1>3, <1>4, <1>5, <1>6 DEF PresenceNext

\* What the run checks follows from the invariant.
LEMMA PresenceInvSays == PresenceInv => PresenceTypeOK /\ StaleViewPending /\ OnlineIsArmed /\ WindowsEndOnce
<1> SUFFICES ASSUME PresenceInv PROVE PresenceTypeOK /\ StaleViewPending /\ OnlineIsArmed /\ WindowsEndOnce
  OBVIOUS
<1>1. PresenceTypeOK
  <2>1. PresenceTypes
    BY DEF PresenceInv
  <2>2. \A e \in outbox \cup published : e.seen \in {0, e.at} /\ e.at \in 1..now
    BY DEF PresenceInv, BeatsTrue, NoticeTrue
  <2>3. \A w \in DOMAIN workers :
          /\ workers[w].pc \in {"idle", "load", "seed", "expire"}
          /\ \A c \in workers[w].rows : c.deadline \in 1..MaxTime
          /\ workers[w].pc \in {"idle", "load"} => workers[w].rows = {}
          /\ workers[w].known \in 0..(MaxOutages + 1)
    BY <2>1, HandFacts DEF PresenceTypes, Candidate
  <2> QED
    BY <2>1, <2>2, <2>3 DEF PresenceTypes, PresenceTypeOK
<1>2. StaleViewPending
  BY DEF PresenceInv, ViewsTold, StaleTold, StaleViewPending, Waiting, InOutbox
<1>3. OnlineIsArmed
  BY DEF PresenceInv, SeededArms, NodeArmed, Armed, Heard, OnlineIsArmed, InOutbox
<1> QED
  BY <1>1, <1>2, <1>3 DEF PresenceInv

\* Only Expire announces, and what it announces is over.
LEMMA PresenceAnnounces == PresenceInv /\ [PresenceNext]_presenceVars => [ExpiresOffline]_presenceVars
<1> SUFFICES ASSUME PresenceInv, PresenceNext PROVE ExpiresOffline
  OBVIOUS
<1>1. ASSUME NEW w \in Worker, NEW c \in workers[w].rows, Expire(w, c) PROVE ExpiresOffline
  <2> SUFFICES ASSUME NEW n \in WatchedNodes, Steady(n), expired'[n] # expired[n] PROVE ~Online(n) \/ InOutbox(n)
    BY DEF ExpiresOffline
  <2>1. workers[w].pc = "expire" /\ c.node \in WatchedNodes /\ expired \in [WatchedNodes -> Seq(1..MaxTime)]
    BY <1>1, HandFacts, CandidateFacts DEF PresenceInv, PresenceTypes, Expire
  <2>2. expired' = expired \/ (deadlines[c.node] = c.deadline /\ expired' = [expired EXCEPT ![c.node] = Append(expired[c.node], c.deadline)])
    BY <1>1 DEF Expire
  <2>3. n = c.node /\ deadlines[c.node] = c.deadline
    BY <2>1, <2>2
  <2> QED
    BY <2>1, <2>3, ExpiresOver DEF Heard, InOutbox
<1>2. CASE expired' = expired
  BY <1>2 DEF ExpiresOffline
<1>3. (\E w \in Worker : \E c \in workers[w].rows : Expire(w, c)) \/ expired' = expired
  BY DEF PresenceNext, Tick, LoseRedis, Heartbeat, SetStatus, Read, Publish, Work, Inspect, LoadRows, CompleteSeed, SeedRow,
    WorkerFails, Restart
<1> QED
  BY <1>1, <1>2, <1>3

\* The inductive invariant of presence holds (heartbeats, relay, seeding and
\* expiry with any number of workers, Redis losses and status changes).
THEOREM PresenceHolds == PresenceSpec => []PresenceInv
<1>1. PresenceInit => PresenceInv
  BY PresenceInitHolds
<1>2. PresenceInv /\ [PresenceNext]_presenceVars => PresenceInv'
  BY PresenceStepKeeps
<1> QED
  BY <1>1, <1>2, PTL DEF PresenceSpec

\* Presence follows the heartbeats: a view that shows a silent node online is
\* told, an online node has its deadline armed, and windows are announced as
\* over once, in order and for nodes that are not online (node_presence.h,
\* notification_relay.h).
THEOREM PresenceIsFollowed == PresenceSpec => PresenceFollowsHeartbeats
<1>1. PresenceInv => PresenceTypeOK /\ StaleViewPending /\ OnlineIsArmed /\ WindowsEndOnce
  BY PresenceInvSays
<1>2. PresenceInv /\ [PresenceNext]_presenceVars => [ExpiresOffline]_presenceVars
  BY PresenceAnnounces
<1> QED
  BY <1>1, <1>2, PresenceHolds, PTL DEF PresenceSpec, PresenceFollowsHeartbeats
=============================================================================
