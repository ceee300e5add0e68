----------------------------- MODULE MCResources -----------------------------
(* What the console changes and how it reaches the nodes, side by side:    *)
(* the transactions of resource commands, the release a publication builds *)
(* and stores, and the dispatch of releases.                               *)
EXTENDS ReleaseBuild, TLC

CONSTANTS
  n1, n2, c1, c2,   \* nodes and clusters of the dispatch
  None,
  Scenes            \* of the run

VARIABLES
  scene,   \* the component that moves, with its instance
  db, txn, held, issued,   \* ResourceTransactions
  node, target, release, schema, publishing, attempts, configures, edge, reports, ran, clock   \* NodeDispatch

ClustersAlike == Permutations({c1, c2})

\* Two hostnames, a certificate of one of them and a wildcard certificate of both.
CertificateCovers == [own |-> {"a"}, wildcard |-> {"a", "b"}]
Site(https, domains, bindings) == [https |-> https, domains |-> domains, certificates |-> bindings]
SomeSites == {Site(TRUE, d, <<"own", "wildcard">>) : d \in {<<"a">>, <<"b">>, <<"a", "b">>, <<"b", "a">>}}
               \cup {Site(TRUE, <<"a", "b">>, <<"wildcard", "own">>), Site(TRUE, <<"b">>, <<"own">>),
                     Site(FALSE, <<"a">>, <<"wildcard">>)}
OneSource == [p \in Publications |-> [i \in 1..SitesPerCluster |-> Site(TRUE, <<"a">>, <<"own", "wildcard">>)]]

\* Commands on resources, named by kind and number.
Do(do, r, refs, on) == [do |-> do, row |-> r, refs |-> refs, on |-> on]

Doing(S, r) == {Do(do, r, {}, TRUE) : do \in S}

AllLinks == ("p1" :> {}) @@ ("q1" :> {}) @@ ("z1" :> {"p1"}) @@ ("z2" :> {"p1"}) @@ ("c1" :> {"z1"})
              @@ ("c2" :> {"z2"}) @@ ("n1" :> {"c1"}) @@ ("n2" :> {"c1"}) @@ ("w1" :> {"c1", "z1", "s1", "o1", "k1"})
              @@ ("w2" :> {"c2", "z2", "o1"}) @@ ("s1" :> {"z1", "q1"}) @@ ("s2" :> {"z1", "q1"}) @@ ("o1" :> {"l1"})
              @@ ("k1" :> {}) @@ ("l1" :> {})

Ids == <<"p1", "q1", "z1", "z2", "c1", "c2", "n1", "n2", "w1", "w2", "s1", "s2", "o1", "k1", "l1">>

\* Accounts, zones, a cluster and certificates come and go.
Lifecycles ==
  Doing({"update", "verify", "verified", "remove"}, "p1")
    \cup Doing({"update", "verify", "verified", "remove"}, "q1")
    \cup Doing({"update", "sync", "synced", "remove"}, "z1")
    \cup {Do("create", "z2", {"p1"}, TRUE), Do("create", "c1", {"z1"}, TRUE), Do("create", "s2", {"z1", "q1"}, TRUE)}
    \cup Doing({"remove"}, "c1")
    \cup Doing({"update", "renew", "remove", "challenge", "finalize", "failed", "autoRenew"}, "s1")

\* Nodes come, move, register and go under two clusters that change.
FleetCommands ==
  {Do("update", "c1", {"z2"}, TRUE), Do("update", "c1", {"z1"}, FALSE), Do("update", "c2", {"z2"}, TRUE)}
    \cup Doing({"remove"}, "c1")
    \cup {Do("create", "n2", {"c1"}, TRUE), Do("update", "n1", {"c2"}, TRUE), Do("update", "n1", {"c1"}, TRUE)}
    \cup Doing({"remove", "reset", "authenticate"}, "n1")
    \cup Doing({"authenticate"}, "n2")

\* Websites, certificates and policies change what two clusters deliver.
SiteCommands ==
  {Do("create", "w2", {"c1", "z1", "s1", "o1", "k1"}, TRUE), Do("update", "w1", {"c2", "z2", "o1"}, TRUE),
   Do("update", "w1", {"c1", "z1", "s1"}, TRUE)}
    \cup Doing({"remove", "probe"}, "w1")
    \cup Doing({"issued", "expired", "remove"}, "s1")
    \cup Doing({"create", "update", "remove"}, "k1")
    \cup {Do("create", "o1", {}, TRUE), Do("update", "o1", {}, TRUE)} \cup Doing({"remove"}, "o1")
    \cup Doing({"create", "update"}, "l1")
    \cup {Do("update", "c1", {"z1"}, TRUE), Do("update", "c1", {"z2"}, TRUE)}
    \cup Doing({"remove"}, "c2") \cup Doing({"remove"}, "z2") \cup Doing({"authenticate"}, "n1")

Lifecycle == INSTANCE ResourceTransactions WITH
  Txns <- {"t1", "t2"}, DnsProviders <- {"p1"}, CertProviders <- {"q1"}, Zones <- {"z1", "z2"},
  Clusters <- {"c1"}, Nodes <- {}, Websites <- {}, Certs <- {"s1", "s2"}, CachePolicies <- {},
  SecurityPolicies <- {}, SecurityLists <- {}, Bindings <- "bindings",
  Present <- {"p1", "q1", "z1", "s1"},
  Links <- AllLinks, Unready <- {"s1"}, Outdated <- {}, RowOrder <- Ids, Commands <- Lifecycles, MaxCommands <- 3
Fleet == INSTANCE ResourceTransactions WITH
  Txns <- {"t1", "t2"}, DnsProviders <- {"p1"}, CertProviders <- {}, Zones <- {"z1", "z2"},
  Clusters <- {"c1", "c2"}, Nodes <- {"n1", "n2"}, Websites <- {}, Certs <- {},
  CachePolicies <- {}, SecurityPolicies <- {}, SecurityLists <- {}, Bindings <- "bindings",
  Present <- {"p1", "z1", "z2", "c1", "c2", "n1"}, Links <- AllLinks, Unready <- {},
  Outdated <- {"c2"}, RowOrder <- Ids, Commands <- FleetCommands, MaxCommands <- 3
Sited == INSTANCE ResourceTransactions WITH
  Txns <- {"t1", "t2"}, DnsProviders <- {"p1"}, CertProviders <- {"q1"}, Zones <- {"z1", "z2"},
  Clusters <- {"c1", "c2"}, Nodes <- {"n1"}, Websites <- {"w1", "w2"}, Certs <- {"s1"},
  CachePolicies <- {"k1"}, SecurityPolicies <- {"o1"}, SecurityLists <- {"l1"},
  Bindings <- "bindings",
  Present <- {"p1", "q1", "z1", "z2", "c1", "c2", "n1", "w1", "s1", "o1", "k1", "l1"},
  Links <- AllLinks, Unready <- {"n1"}, Outdated <- {}, RowOrder <- Ids, Commands <- SiteCommands, MaxCommands <- 2
txnVars == <<db, txn, held, issued>>

Reported == INSTANCE NodeDispatch WITH
  Nodes <- {n1}, Clusters <- {c1}, MaxGeneration <- 3, MaxSpec <- 2, MaxReports <- 4,
  MaxAgents <- 1
Many == INSTANCE NodeDispatch WITH
  Nodes <- {n1, n2}, Clusters <- {c1}, MaxGeneration <- 2, MaxSpec <- 2, MaxReports <- 3,
  MaxAgents <- 1
Moved == INSTANCE NodeDispatch WITH
  Nodes <- {n1}, Clusters <- {c1, c2}, MaxGeneration <- 2, MaxSpec <- 2, MaxReports <- 3,
  MaxAgents <- 2
dispatchVars == <<node, target, release, schema, publishing, attempts, configures, edge,
                  reports, ran, clock>>

MCvars == <<scene, vars, txnVars, dispatchVars>>

MCInit ==
  /\ scene \in Scenes
  /\ Init /\ (scene = "store" \/ source = OneSource)
  /\ IF scene = "lifecycles" THEN Lifecycle!Init ELSE IF scene = "fleet" THEN Fleet!Init ELSE Sited!Init
  /\ IF scene = "reported" THEN Reported!Init ELSE IF scene = "many" THEN Many!Init ELSE IF scene = "moved" THEN Moved!Init ELSE (Moved!Init /\ schema = [c \in {c1, c2} |-> "none"])

\* The components that do not move keep their state.
Still(own) ==
  /\ UNCHANGED scene
  /\ IF own = "vars" THEN TRUE ELSE UNCHANGED vars
  /\ IF own = "txnVars" THEN TRUE ELSE UNCHANGED txnVars
  /\ IF own = "dispatchVars" THEN TRUE ELSE UNCHANGED dispatchVars

MCNext ==
  \/ scene = "store" /\ Next /\ Still("vars")
  \/ scene = "lifecycles" /\ Lifecycle!Next /\ Still("txnVars")
  \/ scene = "fleet" /\ Fleet!Next /\ Still("txnVars")
  \/ scene = "sites" /\ Sited!Next /\ Still("txnVars")
  \/ scene = "reported" /\ Reported!Next /\ Still("dispatchVars")
  \/ scene = "many" /\ Many!Next /\ Still("dispatchVars")
  \/ scene = "moved" /\ Moved!Next /\ Still("dispatchVars")

MCSpec == MCInit /\ [][MCNext]_MCvars

ASSUME Lifecycle!CommandsAreFinite /\ Lifecycle!RowsAreOrdered /\ Lifecycle!LinksArePresent
ASSUME Fleet!RowsAreOrdered /\ Fleet!LinksArePresent /\ Sited!RowsAreOrdered /\ Sited!LinksArePresent
ASSUME Reported!BoundsAssumption /\ Many!BoundsAssumption /\ Moved!BoundsAssumption

(* Nothing live refers to anything deleted, whatever creations, moves and  *)
(* deletions run at the same time; the release a publication builds refers *)
(* only to what it carries, the current release of a cluster carries       *)
(* exactly what is committed for it, and a registered node is told to run  *)
(* it; no save is lost under another's, and a commit that changes the      *)
(* records of a live zone queues a new revision of that zone.              *)
RefsLive ==
  /\ [](scene = "store" => ArtifactsAreLists /\ ReleaseIsClosed)
  /\ [](scene = "lifecycles" => Lifecycle!TypeOK /\ Lifecycle!RefsLive)
  /\ [](scene = "fleet" => Fleet!RefsLive /\ Fleet!DesiredIsCurrent)
  /\ [](scene = "sites" => Sited!RefsLive /\ Sited!ReleaseIsCurrent /\ Sited!DesiredIsCurrent)
  /\ [][/\ scene = "lifecycles" => Lifecycle!AdvancesRevision
        /\ scene = "fleet" => Fleet!AdvancesRevision /\ Fleet!MarksZone
        /\ scene = "sites" => Sited!AdvancesRevision /\ Sited!MarksZone]_MCvars

(* All nodes registered in a cluster desire its one active release, a      *)
(* disabled node has no open target in its own cluster, and the task       *)
(* history agrees with the target and with the failures counted, whatever  *)
(* reports were delayed, reordered or repeated; a late failure never       *)
(* overtakes the success, and nothing is recorded as running that the      *)
(* current agent never activated.                                          *)
EveryNodeDesiresCurrent ==
  /\ [](scene = "reported" => /\ Reported!EveryNodeDesiresCurrent /\ Reported!HistoryMatchesTarget
                              /\ Reported!ConfigFailuresAreCurrent)
  /\ [](scene = "many" => Many!EveryNodeDesiresCurrent)
  /\ [](scene = "moved" => /\ Moved!TypeOK /\ Moved!EveryNodeDesiresCurrent /\ Moved!DisabledHasNoOpenTarget
                           /\ Moved!HistoryMatchesTarget)
  /\ [][/\ scene = "reported" => Reported!IgnoresLateFailure /\ Reported!RecordsWhatRan
        /\ scene = "moved" => Moved!IgnoresLateFailure /\ Moved!RecordsWhatRan]_MCvars
=============================================================================
