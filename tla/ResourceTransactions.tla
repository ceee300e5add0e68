------------------------ MODULE ResourceTransactions ------------------------
(***************************************************************************)
(* The commands on the configuration of one tenant: DNS and certificate     *)
(* providers, zones, clusters, nodes, websites, certificates and policies.  *)
(* Every command, and every worker that writes these rows, is one database  *)
(* transaction under READ COMMITTED.  A transaction is the list of          *)
(* statements it still has to run; a statement waits for its row lock,      *)
(* checks the row it then sees, and writes to the transaction's own copy,   *)
(* which the commit publishes.  Any error rolls the whole transaction back. *)
(*                                                                          *)
(* Row locks are PostgreSQL's four modes by strength: 1 FOR KEY SHARE,      *)
(* 2 FOR SHARE, 3 UPDATE (FOR NO KEY UPDATE), 4 FOR UPDATE.  Two of them    *)
(* conflict when the strengths add up to five or more.  Transactions that   *)
(* wait for one another in a circle lose one of their number.               *)
(***************************************************************************)
EXTENDS Naturals, Sequences, FiniteSets, SequencesExt

CONSTANTS Txns,          \* connections that run commands
          DnsProviders, CertProviders, Zones, Clusters, Nodes, Websites,
          Certs,
          CachePolicies, SecurityPolicies, SecurityLists,
          Bindings,      \* the advisory lock of website and policy bindings
          None,
          Present,       \* rows that exist at the start
          Links,         \* what each of them refers to
          Unready,       \* those not verified, synced, enabled, registered, issued
          Outdated,      \* clusters whose release is of an older schema
          RowOrder,      \* the order of the rows' ids
          Commands,      \* the commands a run may issue
          MaxCommands    \* bound on the commands of a run

Rows == DnsProviders \cup CertProviders \cup Zones \cup Clusters \cup Nodes
          \cup Websites \cup Certs \cup CachePolicies \cup SecurityPolicies
          \cup SecurityLists

CommandsAreFinite == MaxCommands \in Nat
RowsAreOrdered == Rows \subseteq Range(RowOrder)
LinksArePresent ==
  /\ Present \subseteq Rows
  /\ \A r \in Present : Links[r] \subseteq Present

VARIABLES db,        \* committed rows
          txn,       \* what each transaction has left to run and has written
          held,      \* row locks by transaction and row
          issued     \* commands issued so far

vars == <<db, txn, held, issued>>

-----------------------------------------------------------------------------
(* Rows.  `on` is the state a reference asks for: a verified provider, a    *)
(* synced zone, an enabled cluster, a registered node, issued material.     *)
(* `mark` is a zone's desired revision or a certificate's issued revision,  *)
(* `rel` a cluster's current release (its number, what it carries, whether  *)
(* its schema is the current one) or a node's desired one, `acme` the       *)
(* certificates that keep challenge records in a zone.                      *)

Absent == [live |-> FALSE, rev |-> 0, refs |-> {}, on |-> FALSE, mark |-> 0,
           rel |-> None, acme |-> {}]

\* Queries with an ORDER BY, and updates through an index, meet rows in order.
InOrder(S) == SelectSeq(RowOrder, LAMBDA r : r \in S)

One(S) == CHOOSE r \in S : TRUE

Idle == [todo |-> <<>>, own |-> None, rev |-> 0, before |-> Absent,
         buf |-> [r \in {} |-> Absent]]

View(t) == txn[t].buf @@ db

ZoneOf(v, c) == One(v[c].refs \cap Zones)

ClusterOf(v, r) == One(v[r].refs \cap Clusters)

\* Mutant: a deletion asks nobody.
Unasked(v, r) == {}

\* Live rows that refer to a row.  A deleted zone keeps its provider until
\* its removal has been synced.
Users(v, r) ==
  {u \in Rows : /\ r \in v[u].refs
                /\ v[u].live \/ (u \in Zones /\ ~v[u].on)}

\* What a release carries of a website: its issued certificates and its
\* policies, with the lists they name.
Site(v, w) ==
  LET policies == v[w].refs \cap (CachePolicies \cup SecurityPolicies) IN
  [id |-> w, rev |-> v[w].rev,
   certs |-> {<<s, v[s].mark>> : s \in {x \in v[w].refs \cap Certs : v[x].on}},
   policies |-> {<<o, v[o].rev>> :
                   o \in policies \cup UNION {v[o].refs : o \in policies}}]

\* What a release of the cluster delivers: its access domain and state and its
\* live websites.
Delivered(v, c) ==
  [on |-> v[c].on, zone |-> ZoneOf(v, c),
   sites |-> {Site(v, w) : w \in {x \in Websites : v[x].live /\ c \in v[x].refs}}]

\* The records a zone projects: endpoints of the nodes of its clusters, and
\* the names of websites that point to their clusters.
Projected(v, z) ==
  {<<n, c>> \in Nodes \X Clusters :
     /\ v[n].live /\ v[n].on /\ c \in v[n].refs
     /\ v[c].live /\ v[c].on /\ z \in v[c].refs}
  \cup
  {<<w, c>> \in Websites \X Clusters :
     /\ v[w].live /\ z \in v[w].refs /\ c \in v[w].refs
     /\ v[c].live /\ v[c].on}

-----------------------------------------------------------------------------
(* Locks. *)

Lockable == Rows \cup {Bindings}

Conflict(a, b) == a > 0 /\ b > 0 /\ a + b >= 5

Locked(t, r, level) ==
  [held EXCEPT ![t][r] = IF level > @ THEN level ELSE @]

-----------------------------------------------------------------------------
(* Statements. *)

St(op, r) == [op |-> op, row |-> r, val |-> <<>>]

Set(r, val) == [op |-> "set", row |-> r, val |-> val]

\* An UPDATE that also advances the row's revision.
Save(r, val) == [op |-> "save", row |-> r, val |-> val]

Insert(r, refs, on, mark) ==
  Set(r, [live |-> TRUE, rev |-> 1, refs |-> refs, on |-> on, mark |-> mark])

\* A statement on the zones of a certificate.
Acme(op, S, cert) ==
  [i \in 1..Len(InOrder(S)) |-> [op |-> op, row |-> InOrder(S)[i], val |-> cert]]

Each(op, S) == [i \in 1..Len(InOrder(S)) |-> St(op, InOrder(S)[i])]

\* publish_cluster_release: allocate under the cluster's row lock, load and
\* build, then activate, which also points the registered nodes to it.
Publish(c) == <<St("allocate", c), St("build", c), St("targets", c)>>

\* The strength of the lock a statement needs, 0 for a plain read.
Level(op) ==
  CASE op \in {"share", "use"} -> 2
    [] op \in {"match", "claim", "set", "save", "mark", "advance", "retire", "issue",
               "issueState", "allocate", "desire"} -> 3
    [] op \in {"advisory", "own", "exclusive", "lock", "fence", "ensure", "challenge",
               "unchallenge"} -> 4
    [] OTHER -> 0

\* require_current_revision, require_revision_written.
Current(t, row) == row.live /\ row.rev = txn[t].rev

\* The row as the statement sees it once it holds the lock.
Accepts(t, s) ==
  LET v == View(t) r == s.row IN
  CASE s.op \in {"share", "exclusive", "mark", "ensure", "exists", "issue",
                 "issueState", "challenge"} -> v[r].live
    [] s.op = "use" -> v[r].live /\ v[r].on
    [] s.op \in {"own", "claim", "match", "current"} -> Current(t, v[r])
    [] s.op = "fence" -> v[r].mark = txn[t].before.mark
    [] s.op = "allocate" -> v[r].live /\ v[ZoneOf(v, r)].live
    [] s.op = "unused" -> Users(v, r) = {}
    [] s.op = "same" -> v[r].refs = txn[t].before.refs
    [] OTHER -> TRUE

\* advance_zone_revision.
Advanced(row) == [row EXCEPT !.mark = @ + 1, !.on = FALSE]

\* build_cluster_release, numbered by allocate_cluster_release.
Built(v, c) == <<IF v[c].rel = None THEN 1 ELSE v[c].rel[1] + 1, Delivered(v, c), TRUE>>

\* replace_challenge_records with nothing to publish: a zone that is gone, or
\* that keeps nothing of the certificate, is left alone.
Unchallenged(row, cert) ==
  IF row.live /\ cert \in row.acme THEN [Advanced(row) EXCEPT !.acme = @ \ {cert}] ELSE row

\* The UPDATE of activate_cluster_release meets a node that may have changed
\* while it waited for its lock.
Told(v, n, c) ==
  IF v[n].live /\ v[n].on /\ c \in v[n].refs
  THEN [v[n] EXCEPT !.rel = <<c, v[c].rel[1]>>] ELSE v[n]

\* What the statement leaves in the row.
Written(t, s) ==
  LET v == View(t) r == s.row IN
  CASE s.op = "set" -> s.val @@ v[r]
    [] s.op = "save" -> s.val @@ [v[r] EXCEPT !.rev = @ + 1]
    [] s.op = "claim" -> [v[r] EXCEPT !.rev = @ + 1]
    [] s.op = "mark" -> Advanced(v[r])
    [] s.op = "advance" -> IF v[r].live THEN Advanced(v[r]) ELSE v[r]
    [] s.op = "challenge" -> [Advanced(v[r]) EXCEPT !.acme = @ \cup {s.val}]
    [] s.op = "unchallenge" -> Unchallenged(v[r], s.val)
    [] s.op = "retire" -> [Advanced(v[r]) EXCEPT !.rev = @ + 1, !.live = FALSE]
    [] s.op = "issue" -> [v[r] EXCEPT !.mark = @ + 1, !.on = TRUE]
    [] s.op = "build" -> [v[r] EXCEPT !.rel = Built(v, r)]
    [] s.op = "desire" -> Told(v, r, s.val)
    [] s.op = "adopt" ->
         [v[r] EXCEPT !.rel = <<ClusterOf(v, r), v[ClusterOf(v, r)].rel[1]>>]

Writes == {"set", "save", "claim", "mark", "advance", "challenge", "unchallenge", "retire",
           "issue", "build", "desire", "adopt"}

PublishAll(S) ==
  FlattenSeq([i \in 1..Len(InOrder(S)) |-> Publish(InOrder(S)[i])])

\* update (previous_cluster_id): the zone of the cluster the node left.
LeavesCluster(v, r, before) ==
  Each("markCluster", (before \ v[r].refs) \cap Clusters)

\* update (previous_cluster_id): the cluster the website left is published too.
LeavesRelease(v, r, before) == PublishAll((before \ v[r].refs) \cap Clusters)

\* ensure_cluster_release: a cluster without a release of the current schema
\* gets one.
Ensured(v, c) == IF v[c].rel = None \/ ~v[c].rel[3] THEN Publish(c) ELSE <<>>

\* activate_cluster_release: every registered node of the cluster.
Targets(v, c) ==
  LET nodes == InOrder({n \in Users(v, c) \cap Nodes : v[n].on}) IN
  [i \in 1..Len(nodes) |-> [op |-> "desire", row |-> nodes[i], val |-> c]]

\* A node that authenticates for the first time is registered and published;
\* a reconnect only makes sure of a release.
Registered(v, n) ==
  LET c == ClusterOf(v, n) IN
  IF v[n].on THEN <<St("ensure", c)>>
  ELSE <<Set(n, [on |-> TRUE])>> \o Publish(c) \o <<St("markCluster", c)>>

SitesOf(v, S) == {w \in Websites : v[w].live /\ v[w].refs \cap S # {}}

HomesOf(v, S) == UNION {v[w].refs \cap Clusters : w \in SitesOf(v, S)}

\* enqueue_certificate_consumers.
Consumers(v, s) == PublishAll(HomesOf(v, {s}))

\* reconcile_claim_change, reconcile_cluster_consumers.
Claims(before, after) == Each("mark", (before \cup after) \cap Zones)

\* The websites of changed policies are revised and their clusters published.
Revised(v, S) ==
  LET sites == InOrder(SitesOf(v, S)) IN
  [i \in 1..Len(sites) |-> Save(sites[i], <<>>)] \o PublishAll(HomesOf(v, S))

\* mark_provider_zones_dirty.
AccountZones(v, p) ==
  LET zones == {z \in Zones : v[z].live /\ p \in v[z].refs} IN
  Each("lock", zones) \o Each("advance", zones)

\* Statements that read rows and continue with one statement for each.
Expanded(t, s) ==
  LET v == View(t) r == s.row before == txn[t].before.refs IN
  CASE s.op = "targets" -> Targets(v, r)
    [] s.op = "ensure" -> Ensured(v, r)
    [] s.op = "register" -> Registered(v, r)
    [] s.op = "ensureHome" -> <<St("ensure", ClusterOf(v, r))>>
    [] s.op = "publishHome" -> Publish(ClusterOf(v, r))
    [] s.op = "shareZone" -> <<St("share", ZoneOf(v, r))>>
    [] s.op = "markCluster" -> <<St("mark", ZoneOf(v, r))>>
    [] s.op = "markHome" -> <<St("mark", ZoneOf(v, ClusterOf(v, r)))>>
    [] s.op = "markMoved" ->
         Each("mark", before \cap Zones) \o Each("mark", (v[r].refs \ before) \cap Zones)
    [] s.op = "markClaims" -> Claims(before, v[r].refs)
    [] s.op = "leaveCluster" -> LeavesCluster(v, r, before)
    [] s.op = "leaveRelease" -> LeavesRelease(v, r, before)
    [] s.op = "claimants" -> Claims({}, UNION {v[w].refs : w \in SitesOf(v, {r})})
    [] s.op = "consumers" -> Consumers(v, r)
    [] s.op = "accountZones" -> AccountZones(v, r)
    [] s.op = "revise" -> Revised(v, {r})
    [] s.op = "reviseUsers" -> Revised(v, {o \in SecurityPolicies : v[o].live /\ r \in v[o].refs})
    [] s.op = "allZones" -> Each("share", {z \in Zones : v[z].live})
    [] OTHER -> <<>>

-----------------------------------------------------------------------------
(* Commands, each the statements of its transaction in order.  r is the row  *)
(* the command is about and x the references of the request.                 *)

Account(v, x) == UNION {v[z].refs \cap DnsProviders : z \in x \cap Zones}

DnsProviderCommand(do, r) ==
  CASE do = "create" -> <<Insert(r, {}, FALSE, 0)>>
    [] do = "update" -> <<St("own", r), Save(r, [on |-> FALSE])>>
    [] do = "verify" -> <<St("match", r), Set(r, [on |-> FALSE])>>
    [] do = "remove" -> <<St("own", r), St("unused", r), Save(r, [live |-> FALSE])>>

CertificateProviderCommand(do, r) ==
  CASE do = "create" -> <<Insert(r, {}, FALSE, 0)>>
    [] do = "update" -> <<St("own", r), Save(r, [on |-> FALSE])>>
    [] do = "verify" -> <<St("match", r), Set(r, [on |-> FALSE])>>
    [] do = "remove" -> <<St("own", r), St("unused", r), Save(r, [live |-> FALSE])>>

\* complete_verification; the zones of a DNS account are synced again.
Verified(r) == <<St("exclusive", r), Set(r, [on |-> TRUE]), St("accountZones", r)>>

ZoneCommand(do, r, x) ==
  CASE do = "create" -> Each("use", x) \o <<Insert(r, x, FALSE, 1)>>
    [] do = "update" -> Each("use", db[r].refs) \o <<St("own", r), Save(r, <<>>)>>
    [] do = "sync" -> <<St("mark", r)>>
    [] do = "remove" -> <<St("own", r), St("unused", r), St("retire", r)>>

\* persist_synced_zone, finish_deleted_zone_without_remote: the revision that
\* was applied is still the desired one.
Synced(r) == <<St("fence", r), Set(r, [on |-> TRUE])>>

ClusterCommand(do, r, x, on) ==
  CASE do = "create" ->
         Each("share", x) \o Each("share", Account(db, x)) \o <<Insert(r, x, on, 0)>>
           \o Publish(r)
    [] do = "update" ->
         Each("share", x) \o Each("share", Account(db, x))
           \o <<St("own", r), Save(r, [refs |-> x, on |-> on]),
                St("markMoved", r), St("claimants", r)>> \o Publish(r)
    [] do = "remove" ->
         <<St("own", r), St("unused", r), Save(r, [live |-> FALSE]), St("markCluster", r)>>

NodeCommand(do, r, x) ==
  CASE do = "create" ->
         Each("use", x) \o Each("shareZone", x) \o <<Insert(r, x, FALSE, 0)>>
           \o Each("ensure", x) \o <<St("markHome", r)>>
    [] do = "update" ->
         Each("use", x) \o Each("shareZone", x) \o <<St("own", r)>> \o Each("ensure", x)
           \o <<Save(r, [refs |-> x]), St("adopt", r), St("markHome", r), St("leaveCluster", r)>>

NodeRetirement(do, r) ==
  CASE do = "remove" ->
         <<St("claim", r), Set(r, [live |-> FALSE, on |-> FALSE]), St("markHome", r)>>
    [] do = "reset" ->
         <<St("own", r), St("ensureHome", r), Save(r, [on |-> FALSE]), St("adopt", r),
           St("markHome", r)>>

\* record_authentication: the node is found, then locked in the same cluster.
Authentication(r) == <<St("exclusive", r), St("same", r), St("register", r)>>

\* require_cluster, build_domain_claims, validate_certificates and the checks
\* of the policies.
WebsiteReferences(x) ==
  Each("use", x \cap Clusters) \o <<St("allZones", Bindings)>> \o Each("use", x \cap Certs)
    \o Each("exists", x \cap (CachePolicies \cup SecurityPolicies))

WebsiteCommand(do, r, x) ==
  <<St("advisory", Bindings)>> \o
  CASE do = "create" ->
         WebsiteReferences(x) \o <<Insert(r, x, TRUE, 0), St("markClaims", r)>>
           \o PublishAll(x \cap Clusters)
    [] do = "update" ->
         <<St("own", r)>> \o WebsiteReferences(x)
           \o <<Save(r, [refs |-> x]), St("markClaims", r), St("leaveRelease", r)>>
           \o PublishAll(x \cap Clusters)
    [] do = "remove" ->
         <<St("claim", r), Set(r, [live |-> FALSE]), St("markClaims", r), St("publishHome", r)>>
    [] do = "probe" -> <<St("exclusive", r)>>

CachePolicyCommand(do, r) ==
  <<St("advisory", Bindings)>> \o
  CASE do = "create" -> <<Insert(r, {}, TRUE, 0)>>
    [] do = "update" -> <<St("current", r), Save(r, <<>>), St("revise", r)>>
    [] do = "remove" -> <<St("current", r), St("unused", r), Save(r, [live |-> FALSE])>>

SecurityPolicyCommand(do, r, x) ==
  <<St("advisory", Bindings)>> \o
  CASE do = "create" -> Each("exists", x) \o <<Insert(r, x, TRUE, 0)>>
    [] do = "update" ->
         Each("exists", x) \o <<St("current", r), Save(r, [refs |-> x]), St("revise", r)>>
    [] do = "remove" -> <<St("current", r), St("unused", r), Save(r, [live |-> FALSE])>>

\* A list is never deleted.
SecurityListCommand(do, r) ==
  <<St("advisory", Bindings)>> \o
  CASE do = "create" -> <<Insert(r, {}, TRUE, 0)>>
    [] do = "update" -> <<St("current", r), Save(r, <<>>), St("reviseUsers", r)>>

\* replace_challenge_records: lock the zone, change its records, advance it.
\* Only a publication fails when the zone is gone.
Challenge(r) == Acme("challenge", db[r].refs \cap Zones, r)
RetireChallenge(r) == Acme("unchallenge", db[r].refs \cap Zones, r)

CertificateCommand(do, r, x) ==
  CASE do = "create" ->
         Each("use", x \cap CertProviders) \o Each("use", x \cap Zones)
           \o Each("use", Account(db, x)) \o <<Insert(r, x, FALSE, 0)>>
    [] do = "update" -> <<St("own", r), Save(r, <<>>)>>
    [] do = "renew" -> <<St("own", r)>>
    [] do = "remove" ->
         <<St("own", r), St("unused", r), Save(r, [live |-> FALSE, on |-> FALSE])>>
           \o RetireChallenge(r)

\* publish_challenges.
ChallengePublished(r) == <<St("exclusive", r)>> \o Challenge(r)

\* enter_finalize.
ChallengeRetired(r) == <<St("issueState", r)>> \o RetireChallenge(r)

\* persist_issued_certificate.
Issued(r) == <<St("issue", r), St("consumers", r)>>

\* fail_certificate_task, of an attempt that is not resumed.
IssuanceFailed(r) == <<St("fence", r)>> \o RetireChallenge(r)

\* expire_certificates.
Expired(r) == <<St("issueState", r), Set(r, [on |-> FALSE]), St("consumers", r)>>

\* schedule_auto_renewals, reconcile_missing_issuance_markers.
AutoRenewed(r) == <<St("exclusive", r)>>

Program(k) ==
  CASE k.do = "verified" -> Verified(k.row)
    [] k.do = "synced" -> Synced(k.row)
    [] k.do = "authenticate" -> Authentication(k.row)
    [] k.do = "challenge" -> ChallengePublished(k.row)
    [] k.do = "finalize" -> ChallengeRetired(k.row)
    [] k.do = "issued" -> Issued(k.row)
    [] k.do = "failed" -> IssuanceFailed(k.row)
    [] k.do = "expired" -> Expired(k.row)
    [] k.do = "autoRenew" -> AutoRenewed(k.row)
    [] k.row \in Nodes /\ k.do \in {"remove", "reset"} -> NodeRetirement(k.do, k.row)
    [] k.row \in DnsProviders -> DnsProviderCommand(k.do, k.row)
    [] k.row \in CertProviders -> CertificateProviderCommand(k.do, k.row)
    [] k.row \in Zones -> ZoneCommand(k.do, k.row, k.refs)
    [] k.row \in Clusters -> ClusterCommand(k.do, k.row, k.refs, k.on)
    [] k.row \in Nodes -> NodeCommand(k.do, k.row, k.refs)
    [] k.row \in Websites -> WebsiteCommand(k.do, k.row, k.refs)
    [] k.row \in CachePolicies -> CachePolicyCommand(k.do, k.row)
    [] k.row \in SecurityPolicies -> SecurityPolicyCommand(k.do, k.row, k.refs)
    [] k.row \in SecurityLists -> SecurityListCommand(k.do, k.row)
    [] k.row \in Certs -> CertificateCommand(k.do, k.row, k.refs)

-----------------------------------------------------------------------------
(* Transactions. *)

Begin(t, k) ==
  /\ txn[t].own = None
  /\ issued < MaxCommands
  /\ issued' = issued + 1
  /\ IF k.do = "create" THEN db[k.row].rev = 0 /\ \A u \in Txns : txn[u].own # k.row
     ELSE db[k.row].rev > 0
  /\ \E rev \in 0..db[k.row].rev :
       /\ (rev = 0) = (k.do = "create")
       /\ rev >= db[k.row].rev - 1
       /\ txn' = [txn EXCEPT ![t] =
                    [todo |-> Program(k), own |-> k.row, rev |-> rev,
                     before |-> IF k.do = "create" THEN Absent ELSE db[k.row],
                     buf |-> Idle.buf]]
  /\ UNCHANGED <<db, held>>

\* Any error before the commit: nothing of the transaction remains.
Rollback(t) ==
  /\ txn' = [txn EXCEPT ![t] = Idle]
  /\ held' = [held EXCEPT ![t] = [r \in Lockable |-> 0]]
  /\ UNCHANGED <<db, issued>>

Statement(t) == Head(txn[t].todo)

Waits(t, u) ==
  /\ txn[t].todo # <<>>
  /\ t # u
  /\ Conflict(Level(Statement(t).op), held[u][Statement(t).row])

Blocked(t) == \E u \in Txns : Waits(t, u)

Run(t, s) ==
  LET row == Written(t, s)
      before == IF s.op \in {"own", "claim"} THEN View(t)[s.row] ELSE txn[t].before
  IN
  /\ txn' = [txn EXCEPT
               ![t].todo = Expanded(t, s) \o Tail(@),
               ![t].before = before,
               ![t].buf = IF s.op \in Writes THEN (s.row :> row) @@ @ ELSE @]
  /\ held' = IF Level(s.op) > 0 THEN Locked(t, s.row, Level(s.op)) ELSE held
  /\ UNCHANGED <<db, issued>>

Step(t) ==
  /\ txn[t].todo # <<>>
  /\ ~Blocked(t)
  /\ IF Accepts(t, Statement(t)) THEN Run(t, Statement(t)) ELSE Rollback(t)

Commit(t) ==
  /\ txn[t].own # None
  /\ txn[t].todo = <<>>
  /\ db' = View(t)
  /\ txn' = [txn EXCEPT ![t] = Idle]
  /\ held' = [held EXCEPT ![t] = [r \in Lockable |-> 0]]
  /\ UNCHANGED issued

\* The connection or the process is lost.
Lost(t) == txn[t].own # None /\ Rollback(t)

Circle(t) == \E path \in [1..Cardinality(Txns) -> Txns] :
  \E n \in 1..Cardinality(Txns) :
    /\ path[1] = t
    /\ Waits(path[n], t)
    /\ \A i \in 1..(n - 1) : Waits(path[i], path[i + 1])

\* One of the transactions that wait for one another in a circle fails.
Victim(t) == Circle(t) /\ Rollback(t)

\* Published clusters and adopted releases, before the first command.
Init ==
  LET plain == [r \in Rows |->
                 IF r \notin Present THEN Absent
                 ELSE [live |-> TRUE, rev |-> 1, refs |-> Links[r],
                       on |-> r \notin Unready, mark |-> 1, rel |-> None,
                       acme |-> {s \in Certs \cap Present \cap Unready : r \in Zones \cap Links[s]}]]
  IN
  /\ db = [r \in Rows |->
            CASE r \in Clusters \cap Present ->
                   [plain[r] EXCEPT !.rel = <<1, Delivered(plain, r), r \notin Outdated>>]
              [] r \in Nodes \cap Present /\ plain[r].on ->
                   [plain[r] EXCEPT !.rel = <<ClusterOf(plain, r), 1>>]
              [] OTHER -> plain[r]]
  /\ txn = [t \in Txns |-> Idle]
  /\ held = [t \in Txns |-> [r \in Lockable |-> 0]]
  /\ issued = 0

Next ==
  \E t \in Txns :
    \/ \E k \in Commands : Begin(t, k)
    \/ Step(t)
    \/ Commit(t)
    \/ Lost(t)
    \/ Victim(t)

Spec == Init /\ [][Next]_vars

Fairness ==
  /\ \A t \in Txns : WF_vars(Step(t)) /\ WF_vars(Commit(t)) /\ WF_vars(Victim(t))
FairSpec == Spec /\ Fairness

-----------------------------------------------------------------------------
(* Properties. *)

\* Locks held together never conflict, an idle connection holds none, and a
\* transaction holds a row's exclusive lock for every committed row it wrote
\* (the row locks of PostgreSQL the commands rely on).
TypeOK ==
  /\ \A r \in Rows : /\ db[r].live \in BOOLEAN /\ db[r].on \in BOOLEAN
                     /\ db[r].rev \in Nat /\ db[r].mark \in Nat
                     /\ db[r].refs \subseteq Rows
  /\ \A r \in Lockable : \A t, u \in Txns : t # u => ~Conflict(held[t][r], held[u][r])
  /\ \A t \in Txns :
       /\ txn[t].own = None => txn[t] = Idle /\ \A r \in Lockable : held[t][r] = 0
       /\ \A r \in DOMAIN txn[t].buf :
            db[r].live /\ txn[t].buf[r] # db[r] => held[t][r] >= 3

\* Nothing live refers to anything deleted, whatever creations, moves and
\* deletions run at the same time: the deletion's check for users and the
\* creation's lock of what it uses never miss one another.
RefsLive == \A r \in Rows : db[r].live => \A x \in db[r].refs : db[x].live

\* The current release of a cluster carries exactly the committed websites,
\* certificates and policies of the cluster: no command commits a change of
\* what the nodes serve without a release that has it, and no release built
\* beside another command leaves that command's change out.
ReleaseIsCurrent ==
  \A c \in Clusters : db[c].live => db[c].rel # None /\ db[c].rel[2] = Delivered(db, c)

\* A registered node is always told to run the current release of the cluster
\* it belongs to (desired_release_id), also when it moves, registers or is
\* reset while its cluster is published.
DesiredIsCurrent ==
  \A n \in Nodes : db[n].live /\ db[n].on =>
    LET c == ClusterOf(db, n) IN db[n].rel = <<c, db[c].rel[1]>>

\* A commit that changes what a row refers to, or deletes it, is the only one
\* that was based on the revision it replaces: no client's save is lost under
\* another's (expected_revision).
AdvancesRevision ==
  \A r \in Rows :
    db[r].rev > 0 /\ (db'[r].refs # db[r].refs \/ db'[r].live # db[r].live)
      => \E t \in Txns : /\ txn[t].own = r
                         /\ txn[t].rev = db[r].rev
                         /\ db'[r].rev = db[r].rev + 1

\* A commit that changes the records a live zone must hold (endpoints of the
\* nodes of its clusters, names of websites) queues a new revision of that
\* zone, also when the cluster changes its zone under the command.
MarksZone ==
  \A z \in Zones : db[z].live /\ Projected(db', z) # Projected(db, z)
    => db'[z].mark > db[z].mark

\* Every command ends, committed or refused: transactions that wait for each
\* other lose a member and the others go on.
EveryCommandEnds == \A t \in Txns : txn[t].own # None ~> txn[t].own = None

\* The order cluster_reference.h gives: whoever locks a cluster it refers to
\* has locked its own row before.
OwnRowFirst ==
  \A t \in Txns : \A c \in Clusters :
    held[t][c] > 0 /\ txn[t].own \in Nodes \cup Websites /\ txn[t].rev > 0
      => held[t][txn[t].own] > 0

=============================================================================
