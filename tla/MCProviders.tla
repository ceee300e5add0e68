----------------------------- MODULE MCProviders -----------------------------
(* The workers that call DNS providers and certificate authorities, side   *)
(* by side: the quota they share, a zone and a certificate.                *)
EXTENDS RateLimit, TLC

CONSTANT Scenes    \* of the run

VARIABLES
  scene,   \* the component that moves, with its instance
  projected, zone, marker, fails, remote, nextId, hosted, wk, late, web, left, clean, quiet,
  recorded,   \* DnsSync
  cert, task, dns, prov, orders, att, edits, faults   \* CertificateIssuance

\* A budget shared by all requests and one of each account.
MCCapacity == ("global" :> 2) @@ ("account" :> 1)
MCPeriod == ("global" :> 3) @@ ("account" :> 2)
MCUses == ("api" :> {"global", "account"}) @@ ("other" :> {"global"})

\* What the user may add in the provider's console: an address at the cluster's access name, a
\* record where the website wants its CNAME, and an ordinary one.
UserRecord(type, host) == [type |-> type, host |-> host, content |-> <<"user", "x">>]
Console(site) == {UserRecord("A", "edge"), UserRecord("A", site), UserRecord("CNAME", site), UserRecord("TXT", site)}

Zone == INSTANCE DnsSync WITH
  Provider <- "cloudflare", Endpoints <- {"e1"}, SiteName <- "www",
  ConsoleRecords <- Console("www"), MaxRevision <- 3, MaxConsole <- 1, MaxFaults <- 1,
  MaxManaged <- 0
Managed == INSTANCE DnsSync WITH
  Provider <- "aliyun", Endpoints <- {"e1"}, SiteName <- "@", ConsoleRecords <- Console("@"),
  MaxRevision <- 2, MaxConsole <- 1, MaxFaults <- 1, MaxManaged <- 1
Removal == INSTANCE DnsSync WITH
  Provider <- "cloudflare", Endpoints <- {"e1"}, SiteName <- "www", ConsoleRecords <- {},
  MaxRevision <- 3, MaxConsole <- 0, MaxFaults <- 1, MaxManaged <- 0
dnsVars == <<projected, zone, marker, fails, remote, nextId, hosted, wk, late, web, left,
             clean, quiet, recorded>>

Issuance == INSTANCE CertificateIssuance WITH
  Workers <- {1, 2}, MaxRev <- 1, MaxOrders <- 2, MaxEdits <- 1, MaxFaults <- 1,
  Events <- {"reply", "lease", "zone", "conflict", "server"}
Renewal == INSTANCE CertificateIssuance WITH
  Workers <- {1}, MaxRev <- 2, MaxOrders <- 3, MaxEdits <- 0, MaxFaults <- 1,
  Events <- {"request", "problem", "lease", "crash", "remove"}
certVars == <<cert, task, dns, prov, orders, att, edits, faults>>

MCvars == <<scene, vars, dnsVars, certVars>>

MCInit ==
  /\ scene \in Scenes
  /\ Init
  /\ IF scene = "zone" THEN Zone!Init ELSE IF scene = "managed" THEN Managed!Init ELSE Removal!Init
  /\ IF scene = "issuance" THEN Issuance!Init ELSE Renewal!Init

\* The components that do not move keep their state.
Still(own) ==
  /\ UNCHANGED scene
  /\ IF own = "vars" THEN TRUE ELSE UNCHANGED vars
  /\ IF own = "dnsVars" THEN TRUE ELSE UNCHANGED dnsVars
  /\ IF own = "certVars" THEN TRUE ELSE UNCHANGED certVars

MCNext ==
  \/ scene = "quota" /\ Next /\ Still("vars")
  \/ scene = "zone" /\ Zone!Next /\ Still("dnsVars")
  \/ scene = "managed" /\ Managed!Next /\ Still("dnsVars")
  \/ scene = "removal" /\ Removal!Next /\ Still("dnsVars")
  \/ scene = "issuance" /\ Issuance!Next /\ Still("certVars")
  \/ scene = "renewal" /\ Renewal!Next /\ Still("certVars")

MCSpec == MCInit /\ [][MCNext]_MCvars

ASSUME Zone!ProviderAssumption /\ Zone!BoundsAssumption /\ Managed!ProviderAssumption
ASSUME Issuance!BoundsAssumption /\ Renewal!BoundsAssumption

(* A settled zone serves every desired record under the remote id its      *)
(* runtime names, and the access name resolves to the projected endpoints  *)
(* and nothing else; when the task of a removed zone is gone, no record    *)
(* the zone persisted as its own is left; a user's record at another name  *)
(* or type is changed only from the console or the management API, and an  *)
(* attempt never replaces observed records by an older observation.        *)
SyncedIsServed ==
  /\ [](scene = "zone" => Zone!TypeOK /\ Zone!SyncedIsServed /\ Zone!AccessNameIsOwned)
  /\ [](scene = "managed" => Managed!SyncedIsServed)
  /\ [](scene = "removal" => Removal!SyncedIsServed)
  /\ []Zone!RemovalLeavesNothing
  /\ [][/\ scene = "zone" => Zone!KeepsUserRecords /\ Zone!KeepsNewerConfig
        /\ scene = "managed" => Managed!KeepsUserRecords /\ Managed!KeepsNewerConfig]_MCvars

(* "The cluster owns A/AAAA records at its access hostname", at Aliyun.    *)
AccessNameIsOwned == scene = "managed" => Managed!AccessNameIsOwned

(* The key that finalize progress stores is the one the order was          *)
(* finalized with, and attempts that registered an account at once go on   *)
(* with the stored one; the challenge records published in the zone are    *)
(* those stored progress waits on, an issuance that ended leaves none, and *)
(* the server is told to validate only what the zone serves.               *)
StoredKeyIsTheOrders ==
  /\ [](scene = "issuance" => /\ Issuance!TypeOK /\ Issuance!StoredKeyIsTheOrders /\ Issuance!AccountsConverge
                              /\ Issuance!RecordsFollowProgress /\ Issuance!NothingLeftPublished)
  /\ [](scene = "renewal" => /\ Renewal!StoredKeyIsTheOrders /\ Renewal!RenewalIsFresh
                             /\ Renewal!RecordsFollowProgress /\ Renewal!NothingLeftPublished)
  /\ [][/\ scene = "issuance" => Issuance!AnswersServed
        /\ scene = "renewal" => Renewal!AnswersServed]_MCvars
=============================================================================
