---------------------------- MODULE NodeDispatch ----------------------------
(***************************************************************************)
(* The releases of a cluster and what its nodes report of them             *)
(* (features/node_dispatch, features/node_channel/report_service.h and the *)
(* node commands of domains/node/node_command_service.h).  A release is a  *)
(* cluster and a generation; every database transaction is one action,     *)
(* except a publication, which reads the eligible nodes in one statement   *)
(* and commits later: the cluster row is locked in between, the rows of    *)
(* the nodes are not.  Reports reach the database in any order or never.   *)
(***************************************************************************)
EXTENDS Integers, Sequences, SequencesExt, FiniteSets

CONSTANTS Nodes, Clusters, MaxGeneration, MaxSpec, MaxReports, MaxAgents

BoundsAssumption ==
    /\ MaxGeneration \in Nat \ {0} /\ MaxSpec \in Nat \ {0}
    /\ MaxReports \in Nat /\ MaxAgents \in Nat \ {0}

VARIABLES
    node,       \* sys_node
    target,     \* sys_node_release_target: node, cluster, generation
    release,    \* sys_cluster_release: the statuses of a cluster's generations
    schema,     \* the schema of the current release: none, old or current
    publishing, \* the nodes a publication in progress selected, or Idle
    attempts,   \* sys_sync_event, operation publish: TRUE is completed
    configures, \* sys_sync_event, operation configure
    edge,       \* the node: its credentials, what it runs and what it stages
    reports,    \* reports accepted and not yet persisted
    ran,        \* what the agents of a node activated so far
    clock       \* the arrival time of the next report

vars == <<node, target, release, schema, publishing, attempts, configures, edge, reports, ran, clock>>
database == <<node, target, release, schema, publishing, attempts, configures>>

NoCluster == "no cluster"
NoRelease == [cluster |-> NoCluster, gen |-> 0]
Idle == {"idle"}
Generations == 1..MaxGeneration
Releases == [cluster : Clusters, gen : Generations]
Deployments == [spec : 0..MaxSpec, rel : Releases \cup {NoRelease}]
NoDeployment == [spec |-> 0, rel |-> NoRelease]
Statuses == {"none", "pending", "failed", "applied", "excluded"}

\* Rows are created by the node command; until then the registration is "none".
NoRow ==
    [cluster |-> NoCluster, enabled |-> FALSE, reg |-> "none", agent |-> 0, spec |-> 1, applied |-> 0,
     desired |-> NoRelease, active |-> NoRelease, beat |-> 0, error |-> FALSE, task |-> 0, fails |-> 0]

NoTarget == [status |-> "none", fails |-> 0]

TypeOK ==
    /\ node \in [Nodes -> [cluster : Clusters \cup {NoCluster}, enabled : BOOLEAN,
                           reg : {"none", "pending", "registered", "deleted"}, agent : 0..MaxAgents,
                           spec : 1..MaxSpec, applied : 0..MaxSpec, desired : Releases \cup {NoRelease},
                           active : Releases \cup {NoRelease}, beat : 0..MaxReports, error : BOOLEAN,
                           task : 0..MaxSpec, fails : 0..MaxReports]]
    /\ target \in [Nodes -> [Clusters -> [Generations -> [status : Statuses, fails : 0..MaxReports]]]]
    /\ \A c \in Clusters : release[c] \in Seq({"active", "superseded"}) /\ Len(release[c]) \in 0..MaxGeneration
    /\ schema \in [Clusters -> {"none", "old", "current"}]
    /\ \A c \in Clusters : publishing[c] = Idle \/ publishing[c] \in SUBSET Nodes
    /\ \A n \in Nodes : edge[n] \in [agent : 0..MaxAgents, cluster : Clusters \cup {NoCluster},
                                     runs : Deployments, stages : Deployments]
    /\ clock \in 1..(MaxReports + 1)

Init ==
    /\ node = [n \in Nodes |-> NoRow]
    /\ target = [n \in Nodes |-> [c \in Clusters |-> [g \in Generations |-> NoTarget]]]
    /\ schema \in [Clusters -> {"none", "old"}]
    /\ release = [c \in Clusters |-> IF schema[c] = "old" THEN <<"active">> ELSE <<>>]
    /\ publishing = [c \in Clusters |-> Idle]
    /\ attempts = [n \in Nodes |-> [c \in Clusters |-> [g \in Generations |-> <<>>]]]
    /\ configures = [n \in Nodes |-> <<>>]
    /\ edge = [n \in Nodes |-> [agent |-> 0, cluster |-> NoCluster, runs |-> NoDeployment, stages |-> NoDeployment]]
    /\ reports = {}
    /\ ran = [n \in Nodes |-> {}]
    /\ clock = 1

-----------------------------------------------------------------------------
(* Publications *)

Generation(c) == Len(release[c])
Current(c) == IF Generation(c) = 0 THEN NoRelease ELSE [cluster |-> c, gen |-> Generation(c)]
Open(t) == t.status \in {"pending", "failed"}

\* A registered node of the cluster, disabled ones included.
RegisteredNode(row, c) == row.cluster = c /\ row.reg = "registered"

Eligible(rows, c) == {n \in Nodes : RegisteredNode(rows[n], c) /\ rows[n].enabled}

\* allocate_cluster_release: the generation is taken under the cluster's lock.
Unlocked(c) == publishing[c] = Idle
CanPublish(c) == Generation(c) < MaxGeneration

\* activate_cluster_release, its three tables: the new release becomes the
\* active one, its targets are pending, and every registered node desires it.
Activated(c) == [release EXCEPT ![c] = Append([g \in DOMAIN @ |-> "superseded"], "active")]

WithTargets(c, members) ==
    [n \in Nodes |-> IF n \in members
                     THEN [target[n] EXCEPT ![c][Generation(c) + 1] = [status |-> "pending", fails |-> 0]]
                     ELSE target[n]]

Desiring(rows, c) ==
    [n \in Nodes |-> IF RegisteredNode(rows[n], c)
                     THEN [rows[n] EXCEPT !.desired = [cluster |-> c, gen |-> Generation(c) + 1]]
                     ELSE rows[n]]

\* publish_cluster_release up to the selection of its targets: a cluster,
\* website, certificate or policy changed.  A certificate publishes every
\* cluster that uses it (enqueue_certificate_consumers).
Publish(c) ==
    /\ Unlocked(c) /\ CanPublish(c)
    /\ publishing' = [publishing EXCEPT ![c] = Eligible(node, c)]
    /\ UNCHANGED <<node, target, release, schema, attempts, configures, edge, reports, ran, clock>>

\* The statements after it and the commit.
Activate(c) ==
    /\ ~Unlocked(c)
    /\ target' = WithTargets(c, publishing[c])
    /\ release' = Activated(c)
    /\ node' = Desiring(node, c)
    /\ schema' = [schema EXCEPT ![c] = "current"]
    /\ publishing' = [publishing EXCEPT ![c] = Idle]
    /\ UNCHANGED <<attempts, configures, edge, reports, ran, clock>>

\* The source does not make a valid release: the transaction rolls back.
AbandonPublish(c) ==
    /\ ~Unlocked(c)
    /\ publishing' = [publishing EXCEPT ![c] = Idle]
    /\ UNCHANGED <<node, target, release, schema, attempts, configures, edge, reports, ran, clock>>

\* A command that changes the rows of c to `rows` and the targets to `open`,
\* publishing first when ensure_cluster_release finds no current release.
EnsureRelease(c) == schema[c] # "current"
Ensured(c) == IF EnsureRelease(c) THEN [cluster |-> c, gen |-> Generation(c) + 1] ELSE Current(c)

PublishedIf(c, publishes, rows, members) ==
    /\ Unlocked(c) /\ (publishes => CanPublish(c))
    /\ release' = IF publishes THEN Activated(c) ELSE release
    /\ schema' = IF publishes THEN [schema EXCEPT ![c] = "current"] ELSE schema
    /\ target' = IF publishes THEN WithTargets(c, members) ELSE target
    /\ node' = IF publishes THEN Desiring(rows, c) ELSE rows
    /\ UNCHANGED <<publishing, attempts, configures>>

-----------------------------------------------------------------------------
(* Node commands *)

CreateNode(n, c, enabled) ==
    /\ node[n].reg = "none"
    /\ PublishedIf(c, EnsureRelease(c),
                   [node EXCEPT ![n] = [NoRow EXCEPT !.cluster = c, !.enabled = enabled, !.reg = "pending", !.agent = 1]],
                   Eligible(node, c))
    /\ edge' = [edge EXCEPT ![n].agent = 1]
    /\ UNCHANGED <<reports, ran, clock>>

Excluded(targets, n, clusters) ==
    [targets EXCEPT ![n] = [c \in Clusters |-> [g \in Generations |->
        IF c \in clusters /\ Open(@[c][g]) THEN [@[c][g] EXCEPT !.status = "excluded"] ELSE @[c][g]]]]

\* The clusters whose open targets of the node the update excludes.
Left(n, c, enabled) ==
    IF ~enabled THEN Clusters ELSE IF node[n].cluster # c THEN {node[n].cluster} ELSE {}

Updated(row, c, enabled) ==
    [row EXCEPT !.cluster = c, !.enabled = enabled, !.spec = @ + 1, !.desired = Ensured(c),
                !.task = row.spec + 1, !.fails = 0]

UpdateNode(n, c, enabled) ==
    /\ node[n].reg \in {"pending", "registered"} /\ node[n].spec < MaxSpec
    /\ Unlocked(c) /\ (EnsureRelease(c) => CanPublish(c))
    /\ release' = IF EnsureRelease(c) THEN Activated(c) ELSE release
    /\ schema' = [schema EXCEPT ![c] = "current"]
    /\ LET rows == IF EnsureRelease(c) THEN Desiring(node, c) ELSE node
           targets == IF EnsureRelease(c) THEN WithTargets(c, Eligible(node, c)) ELSE target
       IN  /\ node' = [rows EXCEPT ![n] = Updated(@, c, enabled)]
           /\ target' = Excluded(targets, n, Left(n, c, enabled))
    /\ UNCHANGED <<publishing, attempts, configures, edge, reports, ran, clock>>

RemoveNode(n) ==
    /\ node[n].reg \in {"pending", "registered"}
    /\ node' = [node EXCEPT ![n] = [@ EXCEPT !.reg = "deleted", !.agent = 0, !.beat = 0]]
    /\ target' = Excluded(target, n, Clusters)
    /\ UNCHANGED <<release, schema, publishing, attempts, configures, edge, reports, ran, clock>>

\* reset_credentials; the new agent is installed afresh.
ResetCredentials(n) ==
    LET c == node[n].cluster
        rows == IF EnsureRelease(c) THEN Desiring(node, c) ELSE node
        targets == IF EnsureRelease(c) THEN WithTargets(c, Eligible(node, c)) ELSE target
    IN  /\ node[n].reg \in {"pending", "registered"} /\ node[n].agent < MaxAgents
        /\ Unlocked(c) /\ (EnsureRelease(c) => CanPublish(c))
        /\ release' = IF EnsureRelease(c) THEN Activated(c) ELSE release
        /\ schema' = [schema EXCEPT ![c] = "current"]
        /\ node' = [rows EXCEPT ![n] = [@ EXCEPT !.agent = @ + 1, !.reg = "pending", !.applied = 0, !.beat = 0,
                                                 !.desired = Ensured(c), !.active = NoRelease, !.error = FALSE,
                                                 !.task = 0, !.fails = 0]]
        /\ target' = Excluded(targets, n, Clusters)
        /\ edge' = [edge EXCEPT ![n] = [agent |-> node[n].agent + 1, cluster |-> NoCluster,
                                        runs |-> NoDeployment, stages |-> NoDeployment]]
        /\ UNCHANGED <<publishing, attempts, configures, reports, ran, clock>>

-----------------------------------------------------------------------------
(* The node *)

Identified(n) == node[n].agent = edge[n].agent /\ node[n].agent # 0

\* The first authentication registers the node and publishes a release with it.
Registered(n) ==
    LET c == node[n].cluster
        rows == [node EXCEPT ![n] = [@ EXCEPT !.reg = "registered", !.beat = clock, !.desired = Current(c)]]
    IN  PublishedIf(c, TRUE, rows, Eligible(rows, c))

\* record_authentication; the session's principal keeps the cluster.
Authenticate(n) ==
    /\ Identified(n) /\ clock <= MaxReports
    /\ \/ node[n].reg = "pending" /\ Registered(n)
       \/ node[n].reg = "registered" /\ PublishedIf(node[n].cluster, EnsureRelease(node[n].cluster), node, Eligible(node, node[n].cluster))
    /\ edge' = [edge EXCEPT ![n].cluster = node[n].cluster]
    /\ clock' = clock + 1
    /\ UNCHANGED <<reports, ran>>

\* The node specification and the release the node should run.
Delivered(n) == [spec |-> node[n].spec, rel |-> node[n].desired]

\* The node receives the desired state and stages it.
Receive(n) ==
    /\ Identified(n) /\ node[n].reg = "registered" /\ node[n].desired # NoRelease
    /\ edge[n].cluster # NoCluster
    /\ edge[n].runs # Delivered(n)
    /\ edge' = [edge EXCEPT ![n].stages = Delivered(n)]
    /\ UNCHANGED <<database, reports, ran, clock>>

Report(n, kind, deployment) ==
    [kind |-> kind, node |-> n, agent |-> edge[n].agent, cluster |-> edge[n].cluster,
     spec |-> deployment.spec, rel |-> deployment.rel, at |-> clock]

\* The node activates what it staged, or fails to and keeps what it runs.
Apply(n, applied) ==
    /\ edge[n].stages # NoDeployment /\ clock <= MaxReports
    /\ LET staged == edge[n].stages
       IN  /\ edge' = [edge EXCEPT ![n] = [@ EXCEPT !.stages = NoDeployment, !.runs = IF applied THEN staged ELSE @]]
           /\ ran' = IF applied THEN [ran EXCEPT ![n] = @ \cup {<<edge[n].agent, staged>>}] ELSE ran
           /\ reports' = reports \cup {Report(n, IF applied THEN "applied" ELSE "failed", staged)}
    /\ clock' = clock + 1
    /\ UNCHANGED database

Heartbeat(n) ==
    /\ edge[n].runs # NoDeployment /\ edge[n].cluster # NoCluster /\ clock <= MaxReports
    /\ reports' = reports \cup {Report(n, "heartbeat", edge[n].runs)}
    /\ clock' = clock + 1
    /\ UNCHANGED <<database, edge, ran>>

\* A report is lost with its connection, or rejected before the queue.
Lose(r) ==
    /\ r \in reports
    /\ reports' = reports \ {r}
    /\ UNCHANGED <<database, edge, ran, clock>>

-----------------------------------------------------------------------------
(* The reports a worker persists *)

\* The row of the report's own agent, and its release of the node's cluster.
OwnRow(r) ==
    /\ node[r.node].agent = r.agent /\ node[r.node].reg = "registered"
    /\ r.rel.cluster = node[r.node].cluster

TargetOf(r) == target[r.node][r.rel.cluster][r.rel.gen]
Marked(r, to) == [target EXCEPT ![r.node][r.rel.cluster][r.rel.gen] = to]
Attempted(r, outcome) == [attempts EXCEPT ![r.node][r.rel.cluster][r.rel.gen] = Append(@, outcome)]
Configured(r, outcome) == [configures EXCEPT ![r.node] = Append(@, [spec |-> r.spec, done |-> outcome])]

\* mark_node_target_applied and its attempt.
AppliedTarget(r) ==
    IF Open(TargetOf(r))
    THEN target' = Marked(r, [status |-> "applied", fails |-> 0]) /\ attempts' = Attempted(r, TRUE)
    ELSE UNCHANGED <<target, attempts>>

\* record_node_config_attempt: the current configure result of the node.
TaskAfter(row, r, done) ==
    IF row.spec # r.spec THEN row
    ELSE [row EXCEPT !.task = r.spec, !.fails = IF done THEN 0 ELSE (IF row.task = r.spec THEN @ ELSE 0) + 1]

\* record_applied_transitions around the update that made `row`.
Transitions(r, row) ==
    LET raised == node[r.node].applied < r.spec
    IN  /\ AppliedTarget(r)
        /\ node' = [node EXCEPT ![r.node] = IF raised THEN TaskAfter(row, r, TRUE) ELSE row]
        /\ configures' = IF raised THEN Configured(r, TRUE) ELSE configures

\* update_heartbeat
MayBeat(r) ==
    LET row == node[r.node]
    IN  OwnRow(r) /\ row.applied <= r.spec /\ r.spec <= row.spec /\ row.beat < r.at

\* The row with the reported state; the metrics it stores with it are left out.
Beaten(r) == [node[r.node] EXCEPT !.beat = r.at, !.applied = r.spec, !.active = r.rel]

PersistHeartbeat(r) == r.kind = "heartbeat" /\ MayBeat(r) /\ Transitions(r, Beaten(r))

\* record_applied_deployment: only what the node should run now.
DesiredNow(r) ==
    LET row == node[r.node]
    IN  OwnRow(r) /\ row.applied <= r.spec /\ row.spec = r.spec /\ row.desired = r.rel

PersistApplied(r) ==
    /\ r.kind = "applied" /\ DesiredNow(r)
    /\ Transitions(r, [node[r.node] EXCEPT !.applied = r.spec, !.active = r.rel, !.error = FALSE])

\* Mutant: a failure of what the node runs meanwhile is recorded.
AlreadyAppliedNever(r) == FALSE

\* record_failed_deployment: already_applied.
AlreadyApplied(r) == node[r.node].applied >= r.spec /\ node[r.node].active = r.rel

\* mark_node_target_failed, in the cluster of the report's principal.
MarksFailed(r) == Open(TargetOf(r)) /\ r.rel.cluster = r.cluster

PersistFailed(r) ==
    /\ r.kind = "failed" /\ DesiredNow(r)
    /\ IF AlreadyApplied(r) THEN UNCHANGED <<node, target, attempts, configures>>
       ELSE LET row == [node[r.node] EXCEPT !.error = TRUE]
            IN  /\ IF MarksFailed(r)
                   THEN /\ target' = Marked(r, [status |-> "failed", fails |-> TargetOf(r).fails + 1])
                        /\ attempts' = Attempted(r, FALSE)
                   ELSE UNCHANGED <<target, attempts>>
                /\ IF r.spec > row.applied
                   THEN /\ node' = [node EXCEPT ![r.node] = TaskAfter(row, r, FALSE)]
                        /\ configures' = Configured(r, FALSE)
                   ELSE node' = [node EXCEPT ![r.node] = row] /\ UNCHANGED configures

\* revision_invalid, or ignored because a newer heartbeat was persisted.
Refuse(r) ==
    /\ IF r.kind = "heartbeat" THEN ~MayBeat(r) ELSE ~DesiredNow(r)
    /\ UNCHANGED <<node, target, attempts, configures>>

Persist(r) ==
    /\ r \in reports
    /\ PersistHeartbeat(r) \/ PersistApplied(r) \/ PersistFailed(r) \/ Refuse(r)
    /\ reports' = reports \ {r}
    /\ UNCHANGED <<release, schema, publishing, edge, ran, clock>>

Next ==
    \/ \E c \in Clusters : Publish(c) \/ Activate(c) \/ AbandonPublish(c)
    \/ \E n \in Nodes : RemoveNode(n) \/ ResetCredentials(n) \/ Authenticate(n) \/ Receive(n) \/ Heartbeat(n)
    \/ \E n \in Nodes, c \in Clusters, enabled \in BOOLEAN : CreateNode(n, c, enabled) \/ UpdateNode(n, c, enabled)
    \/ \E n \in Nodes, applied \in BOOLEAN : Apply(n, applied)
    \/ \E r \in reports : Persist(r) \/ Lose(r)

Spec == Init /\ [][Next]_vars

-----------------------------------------------------------------------------
(* Properties *)

\* A cluster has one active release, the last one, and all nodes registered in
\* it desire that release: whoever publishes or joins, no node is left behind
\* (activate_cluster_release, node_command_service update, record_authentication).
EveryNodeDesiresCurrent ==
    /\ \A c \in Clusters : \A g \in DOMAIN release[c] : (release[c][g] = "active") <=> (g = Generation(c))
    /\ \A n \in Nodes : node[n].reg = "registered" => node[n].desired = Current(node[n].cluster)

\* A disabled node has no open target in its own cluster: disabling it, or moving
\* it there disabled, excludes them whatever publication is under way (the lock of
\* the cluster and the exclusions of node_command_service update).
DisabledHasNoOpenTarget ==
    \A n \in Nodes, c \in Clusters, g \in Generations :
        Open(target[n][c][g]) /\ node[n].cluster = c /\ node[n].reg # "deleted" => node[n].enabled

\* "only enabled nodes receive an active target" (release_store.h): a node that a
\* publication gives a target is enabled and not deleted when it commits.
OnlyEnabledReceive ==
    [][\A n \in Nodes, c \in Clusters, g \in Generations :
        target[n][c][g].status = "none" /\ target'[n][c][g].status = "pending"
        => node'[n].enabled /\ node'[n].reg = "registered"]_vars

\* The task history agrees with the target: an open target counts exactly its
\* failed attempts and none completed, an applied one completed once and last,
\* whatever reports were delayed, reordered or repeated by the node.
HistoryMatchesTarget ==
    \A n \in Nodes, c \in Clusters, g \in Generations :
        LET t == target[n][c][g]
            history == attempts[n][c][g]
        IN  /\ t.status = "none" => history = <<>>
            /\ t.status # "none" => \A i \in DOMAIN history : history[i] <=> (i = Len(history) /\ t.status = "applied")
            /\ t.status \in {"pending", "failed", "excluded"} => t.fails = Len(history)
            /\ (t.status = "failed") => t.fails > 0

\* The configure result of the node counts the failed attempts of its current
\* revision since the last success or reset, never those of an earlier one.
ConfigFailuresAreCurrent ==
    \A n \in Nodes :
        LET current == SelectSeq(configures[n], LAMBDA a : a.spec = node[n].spec)
            failed == SelectSeq(current, LAMBDA a : ~a.done)
        IN  node[n].fails > 0 =>
                node[n].task = node[n].spec /\ node[n].fails <= Len(failed) /\ ~Last(current).done

\* A node whose applied state is what it should run shows no failure of it: a
\* late failure never overtakes the success (record_failed_deployment).
IgnoresLateFailure ==
    \A n \in Nodes :
        (node[n].active = node[n].desired /\ node[n].applied = node[n].spec /\ node'[n].desired = node[n].desired
         /\ node'[n].spec = node[n].spec /\ node'[n].agent = node[n].agent)
        => (node'[n].error => node[n].error)

\* Nothing is recorded as running that the current agent never activated, and a
\* revision once applied is never taken back by a report of the same agent.
RecordsWhatRan ==
    \A n \in Nodes :
        /\ (node'[n].active # node[n].active /\ node'[n].active # NoRelease) =>
               <<node[n].agent, [spec |-> node'[n].applied, rel |-> node'[n].active]>> \in ran[n]
        /\ node'[n].agent = node[n].agent => node'[n].applied >= node[n].applied

=============================================================================
