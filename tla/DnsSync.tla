------------------------------ MODULE DnsSync ------------------------------
(***************************************************************************)
(* Synchronisation of one hosted DNS zone with its provider                *)
(* (service/features/dns_sync, service/features/dns).  The zone row keeps  *)
(* the desired revision, the runtime (which remote record stands for which *)
(* projected record) and the last observation of the ordinary records.  A  *)
(* worker holding the lease of the zone's task lists the remote zone,      *)
(* deletes what the system no longer wants, writes what it wants record by *)
(* record and persists; the management API writes ordinary records inside  *)
(* its own transaction; the user edits the zone in the provider's console. *)
(*                                                                         *)
(* A request to the provider is sent under a fresh lease renewal and lands *)
(* later.  An attempt that loses its lease sends nothing more, but the     *)
(* request it had in flight may still land: it becomes a late one.         *)
(* A record's TTL, priority and proxy flag are reduced to `tuned`, whether *)
(* they are the desired ones; only the default resolution line is modelled.*)
(***************************************************************************)
EXTENDS Integers, FiniteSets

CONSTANTS Provider,       \* "cloudflare" or "aliyun"
          Endpoints,      \* node endpoints the zone's cluster may project
          SiteName,       \* the website's host name: "www", or "@" for the apex
          ConsoleRecords, \* [type, host, content] the user may add in the console
          MaxRevision,    \* bound: desired revisions
          MaxConsole,     \* bound: console edits
          MaxFaults,      \* bound: lost leases, crashes and failed requests
          MaxManaged      \* bound: management requests

ProviderAssumption == Provider \in {"cloudflare", "aliyun"}
BoundsAssumption == {MaxRevision, MaxConsole, MaxFaults, MaxManaged} \subseteq Nat

VARIABLES projected, \* the cluster's status and what its endpoints and website project
          zone,      \* the sys_dns_zone row
          marker,    \* the zone's task: queued, running, done or gone
          fails,     \* its failure count
          remote,    \* the provider's records
          nextId,    \* the id the provider gives to the next record
          hosted,    \* whether the provider still hosts the zone
          wk,        \* the attempt holding the lease
          late,      \* in-flight requests of attempts that lost their lease
          web,       \* the management request holding the zone's row lock
          left,      \* remaining console edits, faults and management requests
          clean,     \* ghost: nobody else touched the zone since the listing
          quiet,     \* ghost: nobody else touched it since the last persist
          recorded   \* ghost: remote ids ever persisted as managed

provider == <<remote, nextId>>
ghosts == <<clean, quiet, recorded>>
vars == <<projected, zone, marker, fails, provider, hosted, wk, late, web, left, ghosts>>

-----------------------------------------------------------------------------
(* Records.                                                                *)

Cluster == "cluster"
Website == "site"
Challenge == "acme"
Locals == Endpoints \cup {Website, Challenge}

(* record_name_policy::remote_record_name: Cloudflare names its records    *)
(* fully qualified, Aliyun relative to the zone.                           *)
RemoteName(host) == <<IF Provider = "cloudflare" THEN "full" ELSE "relative", host>>

(* queue.h record_hostname: always fully qualified.                        *)
RecordHostname(host) == <<"full", host>>

(* load_projected_records_by_zone and the challenges of the runtime: an    *)
(* endpoint's address at the cluster's access name, the website's CNAME at *)
(* its own, a DNS-01 TXT.  No two endpoints share an address.              *)
Projection(l, content) ==
    CASE l \in Endpoints -> [type |-> "A", name |-> RemoteName("edge"), content |-> <<l, content>>]
      [] l = Website -> [type |-> "CNAME", name |-> RemoteName(SiteName), content |-> <<l, content>>]
      [] l = Challenge -> [type |-> "TXT", name |-> RemoteName("_acme"), content |-> <<l, content>>]

(* load_projected_records: nothing while the cluster is disabled or gone.  *)
ProjectedLocals ==
    {l \in Endpoints \cup {Website} : projected[Cluster] # "off" /\ projected[l] # "off"}

(* The desired records, by local id.                                       *)
DesiredWith(challenges) ==
    [l \in ProjectedLocals \cup challenges |->
        Projection(l, IF l = Challenge THEN "token" ELSE projected[l])]
Desired == DesiredWith(zone.challenges)

(* load_cluster_hostnames: those of the enabled clusters.                  *)
ClusterHostnames == IF projected[Cluster] = "off" THEN {} ELSE {RecordHostname("edge")}

(* client::same_identity and matches_desired.                              *)
SameIdentity(r, d) == r.type = d.type /\ r.name = d.name /\ r.content = d.content
MatchesDesired(r, d) == SameIdentity(r, d) /\ r.tuned

(* coexists_with_cname, for a name that holds or wants a CNAME.            *)
CoexistsWithCname(type, name) == name[2] = "@" /\ type \in {"MX", "TXT"}

(* A write that no longer names a record: nothing to do.                   *)
NoWrite == [kind |-> "none", id |-> 0, by |-> "system", record |-> Projection(Challenge, "token")]

(* plan_record_reconciliation: the known record by its id, else the one    *)
(* with the same identity; reused when it needs no change.  (The provider  *)
(* keeps no two identical records, so the ambiguous case cannot arise.)    *)
Plan(listing, id, d, who) ==
    LET known == {r \in listing : r.id = id}
        twins == IF known # {} THEN known ELSE {r \in listing : SameIdentity(r, d)}
    IN IF twins = {} THEN [kind |-> "create", id |-> 0, by |-> who, record |-> d]
       ELSE LET r == CHOOSE r \in twins : TRUE
            IN [kind |-> IF MatchesDesired(r, d) THEN "reuse" ELSE "update",
                id |-> r.id, by |-> who, record |-> d]

-----------------------------------------------------------------------------
(* The provider.  It refuses a second identical record and a CNAME beside  *)
(* records that cannot share its name.                                     *)

NameConflict(d, id) ==
    \E o \in remote :
        /\ o.id # id
        /\ o.name = d.name
        /\ "CNAME" \in {o.type, d.type}
        /\ ~CoexistsWithCname(o.type, o.name)
        /\ ~CoexistsWithCname(d.type, d.name)

Twins(d, id) == {o \in remote : o.id # id /\ SameIdentity(o, d)}

Save(d, id, who) ==
    [remote |-> {r \in remote : r.id # id}
                \cup {[id |-> id, type |-> d.type, name |-> d.name, content |-> d.content,
                       tuned |-> TRUE, by |-> who]},
     reply |-> "ok", id |-> id]

Refuse(reason) == [remote |-> remote, reply |-> reason, id |-> 0]

(* update_record of both clients.                                          *)
UpdateRecord(w) ==
    IF \A r \in remote : r.id # w.id THEN Refuse("failed")
    ELSE IF Twins(w.record, w.id) # {} THEN Refuse("record_conflict")
    ELSE IF NameConflict(w.record, w.id) THEN Refuse("record_name_conflict")
    ELSE Save(w.record, w.id, w.by)

(* cloudflare_client::create_record takes over an identical record.        *)
CloudflareCreate(w) ==
    LET twins == Twins(w.record, 0)
    IN IF twins # {} THEN Save(w.record, (CHOOSE o \in twins : TRUE).id, w.by)
       ELSE IF NameConflict(w.record, 0) THEN Refuse("record_name_conflict")
       ELSE Save(w.record, nextId, w.by)

(* aliyun_client::create_record posts and lets the provider refuse it.     *)
AliyunCreate(w) ==
    IF Twins(w.record, 0) # {} THEN Refuse("record_conflict")
    ELSE IF NameConflict(w.record, 0) THEN Refuse("record_name_conflict")
    ELSE Save(w.record, nextId, w.by)

(* delete_record: a record that is already gone counts as deleted.         *)
DeleteRecord(w) == [remote |-> {r \in remote : r.id # w.id}, reply |-> "ok", id |-> w.id]

Outcome(w) ==
    CASE w.kind = "delete" -> DeleteRecord(w)
      [] w.kind = "update" -> UpdateRecord(w)
      [] w.kind = "create" -> IF Provider = "cloudflare" THEN CloudflareCreate(w) ELSE AliyunCreate(w)
      [] OTHER -> [remote |-> remote, reply |-> "ok", id |-> w.id]

Land(result) ==
    /\ remote' = result.remote
    /\ nextId' = IF result.id = nextId THEN nextId + 1 ELSE nextId

Disturb == clean' = FALSE /\ quiet' = FALSE /\ UNCHANGED recorded

-----------------------------------------------------------------------------
Idle == [pc |-> "idle"]

Init ==
    /\ \E status \in {"off", "a"} :
        projected = [l \in Endpoints \cup {Website, Cluster} |-> IF l = Cluster THEN status ELSE "off"]
    /\ zone = [desired |-> 1, synced |-> 0, status |-> "pending", revision |-> 1,
               states |-> {}, challenges |-> {}, config |-> {}, deleted |-> FALSE]
    /\ marker = "queued"
    /\ fails = 0
    /\ remote = {} /\ nextId = 1 /\ hosted = TRUE
    /\ wk = Idle /\ late = {} /\ web = Idle
    /\ left = [console |-> MaxConsole, faults |-> MaxFaults, managed |-> MaxManaged]
    /\ clean = FALSE /\ quiet = FALSE /\ recorded = {}

(* What an attempt without its lease leaves behind: the request in flight. *)
InFlight == IF wk.pc \in {"deleting", "recording"} /\ wk.write.kind \notin {"none", "reuse"}
            THEN {wk.write} ELSE {}

RowUnlocked == web.pc = "idle"

(* advance_zone_revision: the one writer of the desired revision.  The     *)
(* newer task version takes the lease from a running attempt.              *)
AdvanceZoneRevision(challenges, deleted) ==
    /\ RowUnlocked
    /\ ~zone.deleted /\ zone.desired < MaxRevision
    /\ zone' = [zone EXCEPT !.desired = @ + 1, !.status = "pending",
                            !.challenges = challenges, !.deleted = deleted,
                            !.revision = IF deleted THEN @ + 1 ELSE @]
    /\ marker' = "queued" /\ fails' = 0
    /\ wk' = Idle /\ late' = late \cup InFlight
    /\ UNCHANGED <<provider, hosted, web, left, ghosts>>

(* The cluster, its endpoints or the website changed, or the user asked    *)
(* for a sync: mark_zone_dirty, mark_cluster_zone_dirty, request_sync.     *)
MarkZoneDirty ==
    /\ \E l \in DOMAIN projected, content \in {"off", "a", "b"} :
        /\ l = Cluster => content # "b"
        /\ projected' = [projected EXCEPT ![l] = content]
    /\ AdvanceZoneRevision(zone.challenges, FALSE)

(* replace_challenge_records by a certificate.                             *)
ReplaceChallengeRecords ==
    /\ AdvanceZoneRevision({Challenge} \ zone.challenges, FALSE)
    /\ UNCHANGED projected

(* dns_zone_command_service::remove: refused while the zone is in use.     *)
RemoveZone ==
    /\ \A l \in DOMAIN projected : projected[l] = "off"
    /\ zone.challenges = {}
    /\ AdvanceZoneRevision({}, TRUE)
    /\ UNCHANGED projected

-----------------------------------------------------------------------------
(* The attempt.                                                            *)

Start(inspection) ==
    wk' = [pc |-> "load", inspection |-> inspection]

Claim ==
    /\ wk = Idle /\ marker = "queued"
    /\ marker' = "running"
    /\ Start(FALSE)
    /\ UNCHANGED <<projected, zone, fails, provider, hosted, late, web, left, ghosts>>

(* claim_due_check: a settled task lends its lease to an inspection.       *)
ClaimDueCheck ==
    /\ wk = Idle /\ marker = "done" /\ ~zone.deleted
    /\ Start(TRUE)
    /\ UNCHANGED <<projected, zone, marker, fails, provider, hosted, late, web, left, ghosts>>

(* load_zone_sync_state: the zone's row first.                             *)
LoadZoneSyncState ==
    /\ wk.pc = "load"
    /\ wk' = [pc |-> "project", inspection |-> wk.inspection, base |-> zone.revision,
              version |-> zone.desired, challenges |-> zone.challenges]
    /\ UNCHANGED <<projected, zone, marker, fails, provider, hosted, late, web, left, ghosts>>

(* Then, in statements of their own, what the cluster and the websites     *)
(* project; whoever changes that between the two also takes the lease.     *)
LoadProjectedRecords ==
    /\ wk.pc = "project"
    /\ wk' = [pc |-> "list", inspection |-> wk.inspection, base |-> wk.base,
              version |-> wk.version, desired |-> DesiredWith(wk.challenges),
              hostnames |-> ClusterHostnames]
    /\ UNCHANGED <<projected, zone, marker, fails, provider, hosted, late, web, left, ghosts>>

(* The state row of a managed record; 0 stands for no remote id.           *)
StateOf(l) == {s \in zone.states : s.l = l}
StoredId(l) == IF StateOf(l) = {} THEN 0 ELSE (CHOOSE s \in StateOf(l) : TRUE).id

(* sync_zone: the remote id of a desired record is the one of its runtime  *)
(* state; a website without one adopts the single CNAME at its name.       *)
KnownRemoteId(l, d) ==
    LET candidates == {r \in remote : r.type = "CNAME" /\ r.name = d.name}
    IN IF StoredId(l) # 0 THEN StoredId(l)
       ELSE IF d.type = "CNAME" /\ Cardinality(candidates) = 1
       THEN (CHOOSE r \in candidates : TRUE).id
       ELSE 0

(* obsolete_system_record_ids: records of states that are no longer        *)
(* wanted, and addresses at a cluster's access name that nobody projects.  *)
ObsoleteIds(desired) ==
    LET Of(ls) == {s.id : s \in {s \in zone.states : s.l \in ls}} \ {0}
        owned == {r \in remote : r.type \in {"A", "AAAA"} /\ r.name \in wk.hostnames}
        expected == {r \in owned : \E l \in DOMAIN desired : SameIdentity(r, desired[l])}
        foreign == owned \ expected
    IN (Of(Locals \ DOMAIN desired) \cup {r.id : r \in foreign})
       \ (Of(DOMAIN desired) \cup {r.id : r \in expected})

(* list_records of both clients; the pages are read as one observation.    *)
ListRecords == remote

(* load_remote_zone_data and the decisions taken on the listing.           *)
LoadRemoteZoneData ==
    /\ wk.pc = "list" /\ hosted
    /\ wk' = [pc |-> "delete", inspection |-> wk.inspection, base |-> wk.base,
              version |-> wk.version, desired |-> wk.desired, listing |-> ListRecords,
              known |-> [l \in DOMAIN wk.desired |-> KnownRemoteId(l, wk.desired[l])],
              obsolete |-> ObsoleteIds(wk.desired) \cap {r.id : r \in remote},
              todo |-> DOMAIN wk.desired, got |-> {}, write |-> NoWrite, changed |-> FALSE,
              old |-> FALSE]
    /\ clean' = TRUE
    /\ UNCHANGED <<projected, zone, marker, fails, provider, hosted, late, web, left, quiet, recorded>>

(* delete_obsolete_remote_records: one record, under a renewed lease.      *)
DeleteObsolete ==
    /\ wk.pc = "delete" /\ wk.obsolete # {}
    /\ \E id \in wk.obsolete :
        wk' = [wk EXCEPT !.pc = "deleting", !.obsolete = @ \ {id},
                         !.write = [NoWrite EXCEPT !.kind = "delete", !.id = id]]
    /\ UNCHANGED <<projected, zone, marker, fails, provider, hosted, late, web, left, ghosts>>

ObsoleteDeleted ==
    /\ wk.pc = "deleting"
    /\ Land(Outcome(wk.write))
    /\ wk' = [wk EXCEPT !.pc = "delete", !.changed = TRUE, !.write = NoWrite,
                        !.listing = {r \in @ : r.id # wk.write.id}]
    /\ UNCHANGED <<projected, zone, marker, fails, hosted, late, web, left, ghosts>>

(* Desired records are taken in projection order: endpoints, websites,     *)
(* challenges.                                                             *)
NextRecords ==
    IF wk.todo \cap Endpoints # {} THEN wk.todo \cap Endpoints
    ELSE IF Website \in wk.todo THEN {Website} ELSE wk.todo

(* find_blocked_website_records over the desired records and the remote    *)
(* ones no desired record stands for.                                      *)
Blocked(l) ==
    LET d == wk.desired[l]
        managed == {wk.known[x] : x \in DOMAIN wk.desired}
        observed == {[type |-> r.type, name |-> r.name, content |-> r.content] :
                        r \in {r \in wk.listing : r.id \notin managed}}
                    \cup {wk.desired[x] : x \in DOMAIN wk.desired \ {l}}
    IN /\ l = Website
       /\ \E o \in observed :
            /\ o.name = d.name
            /\ ~CoexistsWithCname(o.type, o.name)
            /\ ~(o.type = "CNAME" /\ o.content = d.content)

State(l, id, status, rev) == [l |-> l, id |-> id, status |-> status, rev |-> rev]

(* previous_synced_revision.                                               *)
PreviousRevision(l) == IF StateOf(l) = {} THEN 0 ELSE (CHOOSE s \in StateOf(l) : TRUE).rev

(* The state of a desired record the attempt leaves unpushed.              *)
Unsynced(l) == State(l, wk.known[l], "failed", PreviousRevision(l))

(* reconcile_zone_records: a blocked record is reported, another one is    *)
(* planned and, unless it can be reused, written under a renewed lease.    *)
ReconcileRecord ==
    /\ wk.pc = "delete" /\ wk.obsolete = {}
    /\ \E l \in NextRecords :
        wk' = IF Blocked(l)
              THEN [wk EXCEPT !.todo = @ \ {l}, !.got = @ \cup {Unsynced(l)}]
              ELSE [wk EXCEPT !.pc = "recording", !.todo = @ \ {l},
                              !.write = Plan(wk.listing, wk.known[l], wk.desired[l], "system")]
    /\ UNCHANGED <<projected, zone, marker, fails, provider, hosted, late, web, left, ghosts>>

(* The request's reply.  A name conflict fails the record only; any other  *)
(* refusal ends the attempt.                                               *)
RecordReconciled ==
    /\ wk.pc = "recording"
    /\ LET result == Outcome(wk.write)
           l == CHOOSE l \in DOMAIN wk.desired : wk.desired[l] = wk.write.record
           seen == [id |-> result.id, type |-> wk.write.record.type, name |-> wk.write.record.name,
                    content |-> wk.write.record.content, tuned |-> TRUE, by |-> "system"]
       IN /\ result.reply \in {"ok", "record_name_conflict"}
          /\ Land(result)
          /\ wk' = IF result.reply = "ok"
                   THEN [wk EXCEPT !.pc = "delete", !.write = NoWrite,
                                   !.got = @ \cup {State(l, result.id, "synced", wk.version)},
                                   !.changed = @ \/ wk.write.kind # "reuse",
                                   !.listing = {r \in @ : r.id # result.id} \cup {seen}]
                   ELSE [wk EXCEPT !.pc = "delete", !.write = NoWrite, !.got = @ \cup {Unsynced(l)}]
    /\ UNCHANGED <<projected, zone, marker, fails, hosted, late, web, left, ghosts>>

(* capture_zone_snapshot: ordinary records are an observation.             *)
Snapshot(listing, states) ==
    {[id |-> r.id, type |-> r.type, name |-> r.name, content |-> r.content] :
        r \in {r \in listing : \A s \in states : s.id # r.id}}

RunningOrDone == IF wk.inspection THEN "done" ELSE "queued"

(* Mutant: a record left unpushed does not fail the zone.                  *)
PersistAlwaysSynced ==
    /\ zone' = [zone EXCEPT !.config = Snapshot(wk.listing, wk.got), !.states = wk.got,
                            !.synced = wk.version, !.status = "synced"]
    /\ marker' = IF zone.deleted THEN "gone" ELSE "done"
    /\ fails' = 0
    /\ quiet' = clean
    /\ recorded' = recorded \cup ({s.id : s \in wk.got} \ {0})

(* persist_synced_zone: a zone whose configuration moved since it was      *)
(* loaded is left to the next attempt; an inspection that found nothing    *)
(* only schedules the next check.                                          *)
Persist ==
    LET config == Snapshot(wk.listing, wk.got)
        status == IF \E s \in wk.got : s.status = "failed" THEN "failed" ELSE "synced"
        result == [zone EXCEPT !.config = config, !.states = wk.got, !.synced = wk.version,
                               !.status = status]
    IN IF zone.desired # wk.version \/ zone.revision # wk.base
       THEN marker' = RunningOrDone /\ UNCHANGED <<zone, fails, quiet, recorded>>
       ELSE /\ zone' = IF wk.inspection /\ ~wk.changed /\ result = zone THEN zone
                       ELSE [result EXCEPT !.revision = IF config # zone.config THEN @ + 1 ELSE @]
            /\ marker' = IF zone.deleted THEN "gone" ELSE "done"
            /\ fails' = 0
            /\ quiet' = clean
            /\ recorded' = recorded \cup ({s.id : s \in wk.got} \ {0})

PersistSyncedZone ==
    /\ wk.pc = "delete" /\ wk.obsolete = {} /\ wk.todo = {}
    /\ RowUnlocked
    /\ Persist
    /\ wk' = Idle
    /\ UNCHANGED <<projected, provider, hosted, late, web, left, clean>>

(* finish_deleted_zone_without_remote.                                     *)
FinishDeletedZone ==
    /\ wk.pc = "list" /\ ~hosted /\ zone.deleted
    /\ RowUnlocked
    /\ zone' = [zone EXCEPT !.synced = zone.desired, !.status = "synced"]
    /\ marker' = "gone"
    /\ wk' = Idle
    /\ UNCHANGED <<projected, fails, provider, hosted, late, web, left, ghosts>>

(* fail_dns_task: the third failure in a row, or a permanent one, settles  *)
(* the task as failed; otherwise it is retried.                            *)
FailDnsTask(permanent) ==
    LET terminal == permanent \/ (~wk.inspection /\ fails >= 2)
    IN /\ RowUnlocked
       /\ marker' = IF terminal THEN "done" ELSE "queued"
       /\ fails' = IF wk.inspection THEN 1 ELSE IF fails < 3 THEN fails + 1 ELSE 3
       /\ zone' = [zone EXCEPT !.status = IF terminal THEN "failed" ELSE "pending"]
       /\ wk' = Idle

(* The provider refused a record, or no longer hosts the zone.             *)
AttemptRefused ==
    /\ \/ wk.pc = "list" /\ ~hosted /\ ~zone.deleted
       \/ wk.pc = "recording" /\ Outcome(wk.write).reply \in {"failed", "record_conflict"}
    /\ FailDnsTask(wk.pc = "list" \/ Outcome(wk.write).reply = "record_conflict")
    /\ UNCHANGED <<projected, provider, hosted, late, web, left, ghosts>>

(* A request got no reply: it may have landed all the same.                *)
RequestLost ==
    /\ wk.pc \in {"list", "deleting", "recording"} /\ left.faults > 0
    /\ left' = [left EXCEPT !.faults = @ - 1]
    /\ \/ UNCHANGED provider
       \/ wk.pc \in {"deleting", "recording"} /\ Land(Outcome(wk.write))
    /\ FailDnsTask(FALSE)
    /\ UNCHANGED <<projected, hosted, late, web, ghosts>>

(* The worker crashed or outlived its lease; recovery reopens the task.    *)
LoseLease ==
    /\ wk # Idle /\ left.faults > 0
    /\ left' = [left EXCEPT !.faults = @ - 1]
    /\ marker' = "queued"
    /\ fails' = IF fails < 3 THEN fails + 1 ELSE 3
    /\ wk' = Idle /\ late' = late \cup InFlight
    /\ UNCHANGED <<projected, zone, provider, hosted, web, ghosts>>

LateRequest ==
    \E w \in late :
        /\ late' = late \ {w}
        /\ \/ Land(Outcome(w)) /\ Disturb
           \/ UNCHANGED <<provider, ghosts>>
        /\ UNCHANGED <<projected, zone, marker, fails, hosted, wk, web, left>>

-----------------------------------------------------------------------------
(* The user: the provider's console and the management API.                *)

ConsoleEdit ==
    /\ left.console > 0 /\ hosted
    /\ left' = [left EXCEPT !.console = @ - 1]
    /\ \/ \E c \in ConsoleRecords :
            LET d == [type |-> c.type, name |-> RemoteName(c.host), content |-> c.content]
            IN /\ ~NameConflict(d, 0) /\ Twins(d, 0) = {}
               /\ Land(Save(d, nextId, "user"))
               /\ UNCHANGED hosted
       \/ \E r \in remote :
            /\ \/ remote' = remote \ {r}
               \/ remote' = (remote \ {r}) \cup {[r EXCEPT !.tuned = FALSE]}
            /\ UNCHANGED <<nextId, hosted>>
       \/ remote' = {} /\ hosted' = FALSE /\ UNCHANGED nextId
    /\ Disturb
    /\ UNCHANGED <<projected, zone, marker, fails, wk, late, web>>

(* validate_system_managed_records.                                        *)
SystemManaged(d) ==
    \/ d.type \in {"A", "AAAA", "CNAME"}
       /\ \/ projected[Cluster] # "off" /\ d.name = RemoteName("edge")
          \/ Website \in ProjectedLocals /\ d.name = RemoteName(SiteName)
    \/ d.type = "TXT" /\ zone.challenges # {} /\ d.name = RemoteName("_acme")

Note(content) == [type |-> "TXT", name |-> RemoteName("note"), content |-> <<"note", content>>]

(* dns_zone_command_service::update_config, up to the listing: the zone's  *)
(* row stays locked.  plan_record_changes yields one write or removal.     *)
UpdateConfig ==
    /\ RowUnlocked /\ hosted /\ ~zone.deleted /\ left.managed > 0
    /\ left' = [left EXCEPT !.managed = @ - 1]
    /\ \/ \E r \in zone.config :
            /\ ~SystemManaged(r)
            /\ web' = [pc |-> "write", listing |-> remote,
                       write |-> IF \E o \in remote : o.id = r.id
                                 THEN [NoWrite EXCEPT !.kind = "delete", !.id = r.id] ELSE NoWrite]
       \/ \E id \in {0} \cup {r.id : r \in {r \in zone.config : r.name = Note("a").name}} :
            web' = [pc |-> "write", listing |-> remote,
                    write |-> Plan(remote, id, Note(IF id = 0 THEN "a" ELSE "b"), "user")]
    /\ UNCHANGED <<projected, zone, marker, fails, provider, hosted, wk, late, ghosts>>

(* reconcile_remote_zone_records: a failure rolls the transaction back and *)
(* leaves what was already written to the next observation.                *)
ManagedWrite ==
    LET result == Outcome(web.write) IN
    /\ web.pc = "write"
    /\ Land(result)
    /\ IF result.reply # "ok" THEN web' = Idle
       ELSE web' = [pc |-> "commit",
                    listing |-> {r \in web.listing : r.id # result.id}
                                \cup IF web.write.kind \in {"none", "delete"} THEN {}
                                     ELSE {r \in result.remote : r.id = result.id}]
    /\ Disturb
    /\ UNCHANGED <<projected, zone, marker, fails, hosted, wk, late, left>>

ManagedCommit ==
    /\ web.pc = "commit"
    /\ web' = Idle
    /\ zone' = [zone EXCEPT !.config = Snapshot(web.listing, zone.states), !.revision = @ + 1]
    /\ wk' = IF "old" \in DOMAIN wk THEN [wk EXCEPT !.old = TRUE] ELSE wk
    /\ UNCHANGED <<projected, marker, fails, provider, hosted, late, left, ghosts>>

ManagedRollback ==
    /\ web.pc \in {"write", "commit"} /\ left.faults > 0
    /\ left' = [left EXCEPT !.faults = @ - 1]
    /\ web' = Idle
    /\ UNCHANGED <<projected, zone, marker, fails, provider, hosted, wk, late, ghosts>>

-----------------------------------------------------------------------------
Attempt ==
    \/ Claim \/ ClaimDueCheck \/ LoadZoneSyncState \/ LoadProjectedRecords \/ LoadRemoteZoneData
    \/ DeleteObsolete \/ ObsoleteDeleted \/ ReconcileRecord \/ RecordReconciled
    \/ PersistSyncedZone \/ FinishDeletedZone \/ AttemptRefused

Next ==
    \/ MarkZoneDirty \/ ReplaceChallengeRecords \/ RemoveZone
    \/ Attempt \/ RequestLost \/ LoseLease \/ LateRequest
    \/ ConsoleEdit \/ UpdateConfig \/ ManagedWrite \/ ManagedCommit \/ ManagedRollback

Spec == Init /\ [][Next]_vars

(* The worker loop keeps running, a request ends within its timeout, a     *)
(* management request ends.                                                *)
Fairness == WF_vars(Attempt) /\ WF_vars(LateRequest) /\ WF_vars(ManagedWrite \/ ManagedCommit)

FairSpec == Spec /\ Fairness

-----------------------------------------------------------------------------
(* Properties.                                                             *)

(* The zone row and the attempt stay well formed; a task that is gone      *)
(* belongs to a removed zone whose row says so (remove()).                 *)
TypeOK ==
    /\ projected \in [Endpoints \cup {Website, Cluster} -> {"off", "a", "b"}]
    /\ zone.desired \in 1 .. MaxRevision /\ zone.synced \in 0 .. zone.desired
    /\ zone.status \in {"pending", "synced", "failed"}
    /\ \A s \in zone.states : s.l \in Locals /\ s.rev <= zone.synced
    /\ Cardinality({s.l : s \in zone.states}) = Cardinality(zone.states)
    /\ marker \in {"queued", "running", "done", "gone"} /\ fails \in 0 .. 3
    /\ marker = "gone" => zone.deleted /\ zone.synced = zone.desired
    /\ \A r, o \in remote : r.id = o.id => r = o
    /\ \A r \in remote : r.id < nextId

(* What an attempt, late or not, may claim of the user's: addresses at the *)
(* access name and a CNAME where the website wants its own.                *)
Claimable(r) ==
    \/ r.type \in {"A", "AAAA"} /\ r.name = RemoteName("edge")
    \/ r.type = "CNAME" /\ r.name = RemoteName(SiteName)

UserRecords == {r \in remote : r.by = "user"}

(* "Ordinary records at other names and types are never candidates for     *)
(* automatic removal": whatever attempts, lost leases and late requests    *)
(* do, a user's record is changed only from the console or through the     *)
(* management API (obsolete_system_record_ids, plan_record_reconciliation).*)
KeepsUserRecords ==
    left'.console = left.console /\ web' = web =>
        \A r \in UserRecords : ~Claimable(r) => r \in remote'

(* The strict reading of find_blocked_website_records' comment: the        *)
(* website's CNAME is held back rather than replacing a user's record.     *)
UserCnameKept ==
    [][left'.console = left.console /\ web' = web =>
        \A r \in UserRecords : r.type = "CNAME" => r \in remote']_vars

(* The zone reports its desired revision as synced, and nobody else wrote  *)
(* to the remote zone since the attempt listed it.                         *)
Settled ==
    /\ zone.status = "synced" /\ zone.synced = zone.desired
    /\ quiet /\ wk = Idle /\ ~zone.deleted

(* After any history of faults, a settled zone serves every desired record *)
(* under the remote id its runtime names (persist_synced_zone).            *)
SyncedIsServed ==
    Settled => \A l \in DOMAIN Desired : \E s \in zone.states, r \in remote :
        s.l = l /\ s.status = "synced" /\ r.id = s.id /\ MatchesDesired(r, Desired[l])

(* "The cluster owns A/AAAA records at its access hostname": while it is   *)
(* enabled, a settled zone resolves the name to the projected endpoints    *)
(* and to nothing else, not even to what a crashed attempt or the console  *)
(* left there.                                                             *)
AccessNameIsOwned ==
    Settled /\ projected[Cluster] # "off" => \A r \in remote :
        r.type = "A" /\ r.name = RemoteName("edge") =>
            \E l \in DOMAIN Desired : SameIdentity(r, Desired[l])

(* A certificate that retired its challenge leaves no TXT record of the    *)
(* system behind once the zone is synced (replace_challenge_records).      *)
RetiredChallengesLeave ==
    Settled /\ zone.challenges = {} => \A r \in remote : ~(r.by = "system" /\ r.type = "TXT")

(* An attempt never replaces the observed records by an older observation  *)
(* than the management API committed (the revision fence).                 *)
KeepsNewerConfig == wk # Idle /\ wk' = Idle /\ zone'.config # zone.config => ~wk.old

(* When the task of a removed zone is gone, no record the zone ever        *)
(* persisted as its own is left at the provider.                           *)
RemovalLeavesNothing ==
    marker = "gone" => \A r \in remote : r.id \in recorded => r.by = "user"

Served(l) == \E r \in remote : SameIdentity(r, Desired[l]) /\ r.tuned

(* A record the runtime does not hold for l occupies its name: the user's, *)
(* or the leftover of a late request, which nothing adopts while the       *)
(* runtime still names another id.                                         *)
Obstructed(l) ==
    \E r \in remote :
        /\ r.name = Desired[l].name /\ r.id # StoredId(l)
        /\ "CNAME" \in {r.type, Desired[l].type}

(* Once the edits and the faults stop, every desired record of a hosted    *)
(* zone is served, unless a foreign record occupies its name: retries,     *)
(* inspections and the planning from the listing repair what crashed       *)
(* attempts and late requests left (claim_due_check, sync_zone).           *)
Converges ==
    \A l \in Locals :
        []<>(\/ ~hosted \/ zone.deleted \/ l \notin DOMAIN Desired
             \/ Served(l) \/ Obstructed(l))

=============================================================================
