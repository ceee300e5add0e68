------------------------ MODULE CertificateIssuance ------------------------
(***************************************************************************)
(* One certificate's way through src/service/features/certificate: the     *)
(* attempts of worker.h, what they persist (persistence.h,                 *)
(* issuance_state.h), the exchanges with the ACME server (acme.h,          *)
(* acme_account.h), the DNS-01 records they hand to the zone's own         *)
(* synchronisation and wait for, and the commands that renew or remove the *)
(* certificate or change its provider meanwhile.                           *)
(*                                                                         *)
(* The marker is reduced to its version, its state and the attempt that    *)
(* holds the lease; SyncRuntime models the rest.  An attempt that lost its *)
(* lease keeps running until a fenced write refuses it or its renewal loop *)
(* notices.  An order has one authorization.  Zero stands for no order, no *)
(* key and no account.                                                     *)
(***************************************************************************)
EXTENDS Naturals, Sequences, FiniteSets

CONSTANTS
  Workers,     \* attempts that may run at once
  MaxRev,      \* bound: issuance revisions
  MaxOrders,   \* bound: orders the server ever creates
  MaxEdits,    \* bound: edits of the zone and changes of the provider
  MaxFaults,   \* bound: faults
  Events       \* the faults and the commands of this instance

BoundsAssumption ==
  /\ 0 \notin Workers /\ IsFiniteSet(Workers)
  /\ {MaxRev, MaxOrders, MaxEdits, MaxFaults} \subseteq Nat /\ MaxRev > 0

VARIABLES
  cert,    \* the sys_certificate row
  task,    \* its marker
  dns,     \* the zone: revisions, challenge records, its own marker
  prov,    \* the certificate provider: revision, status, stored ACME account
  orders,  \* the orders the ACME server holds
  att,     \* the attempts
  edits,   \* edits so far
  faults   \* faults so far

vars == <<cert, task, dns, prov, orders, att, edits, faults>>

Phases == {"idle", "load", "await", "account", "register", "adopt", "start", "order", "authorize", "publish", "respond",
           "poll", "enter", "finalize", "submit", "wait", "download", "persist", "failing"}
Dispositions == {"resume_order", "restart_order", "terminal"}

\* The progress an attempt stores: serialize_issuance_progress.
NoProgress == [phase |-> "none", rev |-> 0, acct |-> 0, order |-> 0, dns |-> 0, key |-> 0]
Idle == [pc |-> "idle", rev |-> 0, prov |-> 0, acct |-> 0, progress |-> NoProgress, order |-> 0, key |-> 0,
         how |-> "restart_order"]

Init ==
  /\ cert = [rev |-> 1, issued |-> 0, progress |-> NoProgress, material |-> 0, deleted |-> FALSE]
  /\ task = [version |-> 1, state |-> "queued", holder |-> 0, dep |-> 0]
  /\ dns = [desired |-> 1, synced |-> 1, chal |-> 0, applied |-> FALSE, served |-> 0, task |-> "ok"]
  /\ prov = [rev |-> 1, verified |-> TRUE, acct |-> 0]
  /\ orders = <<>>
  /\ att = [w \in Workers |-> Idle]
  /\ edits = 0 /\ faults = 0

(* -- What every step is made of ----------------------------------------- *)

Spend(kind) == kind \in Events /\ faults < MaxFaults /\ faults' = faults + 1

\* The lease as the database sees it: renew_running_lease, running_result_writer::record.
Held(w) == task.state = "running" /\ task.holder = w /\ task.version = att[w].rev

\* WHERE issuance_revision = $n AND deleted_at IS NULL
Current(w) == cert.rev = att[w].rev /\ ~cert.deleted

Goto(w, pc) == att' = [att EXCEPT ![w].pc = pc]
End(w) == att' = [att EXCEPT ![w] = Idle]

\* An exception on its way to process_task's handler.
Throw(w, how) == att' = [att EXCEPT ![w].pc = "failing", ![w].how = how]

\* writer.quiet(release): nothing is recorded; a lease still held is given up.
Release(w) == task' = IF Held(w) THEN [task EXCEPT !.state = "queued", !.holder = 0] ELSE task

\* Smallest identity nobody knows yet: a generated key, a registered account.
Unused(used) == CHOOSE n \in 1..(Cardinality(used) + 1) : n \notin used /\ \A k \in 1..(n - 1) : k \in used
Keys == {orders[o].csr : o \in DOMAIN orders} \cup {att[w].key : w \in Workers} \cup {cert.progress.key}
Accounts == {orders[o].acct : o \in DOMAIN orders} \cup {att[w].acct : w \in Workers} \cup {prov.acct, cert.progress.acct}

\* replace_challenge_records: nothing to remove and nothing to add leaves the zone alone.
ReplaceChallengeRecords(order) ==
  IF dns.chal = 0 /\ order = 0 THEN dns
  ELSE [dns EXCEPT !.chal = order, !.applied = FALSE, !.desired = @ + 1, !.task = "queued"]

(* -- The attempt: claim, load, wait for the zone ------------------------ *)

Claim(w) ==
  /\ att[w].pc = "idle" /\ task.state = "queued"
  /\ task' = [task EXCEPT !.state = "running", !.holder = w, !.dep = 0]
  /\ att' = [att EXCEPT ![w] = [Idle EXCEPT !.pc = "load", !.rev = task.version]]
  /\ UNCHANGED <<cert, dns, prov, orders, edits, faults>>

\* parse_issuance_progress: progress of another revision is none.
ParseIssuanceProgress(stored, rev) == IF stored.rev = rev THEN stored ELSE NoProgress

LoadWork(w) ==
  /\ att[w].pc = "load"
  /\ IF ~Current(w) THEN Throw(w, "terminal")
     ELSE IF ~prov.verified THEN Throw(w, "restart_order")
     ELSE att' = [att EXCEPT ![w].pc = "await", ![w].prov = prov.rev,
                             ![w].progress = ParseIssuanceProgress(cert.progress, att[w].rev)]
  /\ UNCHANGED <<cert, task, dns, prov, orders, edits, faults>>

\* load_challenge_dns: the zone and every challenge record reached the revision.
ChallengeSynced(p) == dns.synced >= p.dns /\ dns.chal # 0 /\ dns.applied

AwaitChallengeDns(w) ==
  /\ att[w].pc = "await"
  /\ \/ /\ att[w].progress.phase # "validation" \/ ChallengeSynced(att[w].progress)
        /\ Goto(w, "account") /\ UNCHANGED task
     \/ /\ att[w].progress.phase = "validation" /\ ~ChallengeSynced(att[w].progress)
        /\ IF dns.task # "queued" THEN Throw(w, "terminal") /\ UNCHANGED task
           ELSE IF ~Held(w) THEN Throw(w, "restart_order") /\ UNCHANGED task
           ELSE /\ task' = [task EXCEPT !.state = "waiting", !.holder = 0, !.dep = att[w].progress.dns]
                /\ End(w)
  /\ UNCHANGED <<cert, dns, prov, orders, edits, faults>>

(* -- The ACME account: ensure_acme_account ------------------------------ *)

LoadAccount(w) ==
  /\ att[w].pc = "account"
  /\ IF prov.rev # att[w].prov THEN Throw(w, "restart_order")
     ELSE att' = [att EXCEPT ![w].pc = IF prov.acct = 0 THEN "register" ELSE "adopt", ![w].acct = prov.acct]
  /\ UNCHANGED <<cert, task, dns, prov, orders, edits, faults>>

RegisterAccount(w) ==
  /\ att[w].pc = "register"
  /\ att' = [att EXCEPT ![w].pc = "adopt", ![w].acct = Unused(Accounts \cup {0})]
  /\ UNCHANGED <<cert, task, dns, prov, orders, edits, faults>>

\* The account an attempt goes on with: one stored meanwhile wins.
AdoptedAccount(w) == IF prov.acct # 0 THEN prov.acct ELSE att[w].acct

\* issuance::run: progress of another account's order is dropped.
Resumed(w, acct) == IF att[w].progress.acct = acct THEN att[w].progress ELSE NoProgress

\* continue_order, or start_order without progress.
Continue(p) == CASE p.phase = "validation" -> "respond" [] p.phase = "finalize" -> "finalize" [] OTHER -> "start"

AdoptAccount(w) ==
  /\ att[w].pc = "adopt"
  /\ IF prov.rev # att[w].prov THEN Throw(w, "restart_order") /\ UNCHANGED prov
     ELSE LET acct == AdoptedAccount(w)  p == Resumed(w, acct) IN
          /\ prov' = [prov EXCEPT !.acct = acct]
          /\ att' = [att EXCEPT ![w].pc = Continue(p), ![w].acct = acct, ![w].progress = p,
                                ![w].order = p.order, ![w].key = p.key]
  /\ UNCHANGED <<cert, task, dns, orders, edits, faults>>

(* -- A new order: start_order ------------------------------------------- *)

MarkIssuanceStarted(w) ==
  /\ att[w].pc = "start"
  /\ IF ~Current(w) THEN Release(w) /\ End(w)
     ELSE UNCHANGED task /\ IF Held(w) THEN Goto(w, "order") ELSE Throw(w, "restart_order")
  /\ UNCHANGED <<cert, dns, prov, orders, edits, faults>>

\* The server may still hold a valid authorization of this account.
NewOrder(w, authz) ==
  [acct |-> att[w].acct, rev |-> att[w].rev, authz |-> authz, csr |-> 0,
   status |-> IF authz = "valid" THEN "ready" ELSE "pending"]
Offered(w) == {"pending"} \cup
  IF \E o \in DOMAIN orders : orders[o].acct = att[w].acct /\ orders[o].authz = "valid" THEN {"valid"} ELSE {}

CreateOrder(w) ==
  /\ att[w].pc = "order" /\ Len(orders) < MaxOrders
  /\ \E authz \in Offered(w) : orders' = Append(orders, NewOrder(w, authz))
  /\ \/ att' = [att EXCEPT ![w].pc = "authorize", ![w].order = Len(orders) + 1] /\ UNCHANGED faults
     \/ Spend("reply") /\ Throw(w, "resume_order")
  /\ UNCHANGED <<cert, task, dns, prov, edits>>

\* new_certificate_key
Authorize(w) ==
  /\ att[w].pc = "authorize"
  /\ CASE orders[att[w].order].authz = "valid"   -> att' = [att EXCEPT ![w].pc = "enter", ![w].key = Unused(Keys \cup {0})]
       [] orders[att[w].order].authz = "invalid" -> Throw(w, "restart_order")
       [] OTHER                                  -> Goto(w, "publish")
  /\ UNCHANGED <<cert, task, dns, prov, orders, edits, faults>>

Progress(w, phase, rev) ==
  [phase |-> phase, rev |-> att[w].rev, acct |-> att[w].acct, order |-> att[w].order, dns |-> rev, key |-> att[w].key]

PublishChallenges(w) ==
  /\ att[w].pc = "publish"
  /\ \/ ~Current(w) /\ Release(w) /\ End(w) /\ UNCHANGED <<cert, dns>>
     \/ Current(w) /\ ~Held(w) /\ Throw(w, "restart_order") /\ UNCHANGED <<cert, task, dns>>
     \/ /\ Current(w) /\ Held(w)
        /\ dns' = ReplaceChallengeRecords(att[w].order)
        /\ cert' = [cert EXCEPT !.progress = Progress(w, "validation", dns'.desired)]
        /\ task' = [task EXCEPT !.state = "waiting", !.holder = 0, !.dep = dns'.desired]
        /\ End(w)
  /\ UNCHANGED <<prov, orders, edits, faults>>

(* -- Validation and finalization ---------------------------------------- *)

\* validate, first loop: a pending authorization is answered.
RespondChallenge(w) ==
  /\ att[w].pc = "respond"
  /\ orders' = IF orders[att[w].order].authz = "pending" THEN [orders EXCEPT ![att[w].order].authz = "answered"] ELSE orders
  /\ Goto(w, "poll")
  /\ UNCHANGED <<cert, task, dns, prov, edits, faults>>

\* Still undecided at the deadline: acme_pending.
WaitForAuthorization(w) ==
  /\ att[w].pc = "poll"
  /\ CASE orders[att[w].order].authz = "valid"   -> att' = [att EXCEPT ![w].pc = "enter", ![w].key = Unused(Keys \cup {0})]
       [] orders[att[w].order].authz = "invalid" -> Throw(w, "restart_order")
       [] OTHER                                  -> Throw(w, "resume_order")
  /\ UNCHANGED <<cert, task, dns, prov, orders, edits, faults>>

\* Mutant: the key is stored without asking for the lease.
EnterFinalizeUnfenced(w) ==
  /\ att[w].pc = "enter"
  /\ \/ ~Current(w) /\ Release(w) /\ End(w) /\ UNCHANGED <<cert, dns>>
     \/ /\ Current(w)
        /\ cert' = [cert EXCEPT !.progress = Progress(w, "finalize", att[w].progress.dns)]
        /\ dns' = ReplaceChallengeRecords(0)
        /\ Goto(w, "finalize") /\ UNCHANGED task
  /\ UNCHANGED <<prov, orders, edits, faults>>

EnterFinalize(w) ==
  /\ att[w].pc = "enter"
  /\ \/ ~Current(w) /\ Release(w) /\ End(w) /\ UNCHANGED <<cert, dns>>
     \/ Current(w) /\ ~Held(w) /\ Throw(w, "restart_order") /\ UNCHANGED <<cert, task, dns>>
     \/ /\ Current(w) /\ Held(w)
        /\ cert' = [cert EXCEPT !.progress = Progress(w, "finalize", att[w].progress.dns)]
        /\ dns' = ReplaceChallengeRecords(0)
        /\ Goto(w, "finalize") /\ UNCHANGED task
  /\ UNCHANGED <<prov, orders, edits, faults>>

\* finalize, up to load_order's answer.
LoadOrder(w) ==
  /\ att[w].pc = "finalize"
  /\ CASE orders[att[w].order].status = "invalid" -> Throw(w, "restart_order")
       [] orders[att[w].order].status = "ready"   -> Goto(w, "submit")
       [] OTHER                                   -> Goto(w, "wait")
  /\ UNCHANGED <<cert, task, dns, prov, orders, edits, faults>>

\* finalize_order: an order that is no longer ready refuses (no permanent problem).
FinalizeOrder(w) ==
  /\ att[w].pc = "submit"
  /\ IF orders[att[w].order].status # "ready" THEN Throw(w, "restart_order") /\ UNCHANGED <<orders, faults>>
     ELSE /\ orders' = [orders EXCEPT ![att[w].order].status = "processing", ![att[w].order].csr = att[w].key]
          /\ \/ Goto(w, "wait") /\ UNCHANGED faults
             \/ Spend("reply") /\ Throw(w, "resume_order")
  /\ UNCHANGED <<cert, task, dns, prov, edits>>

WaitForOrder(w) ==
  /\ att[w].pc = "wait"
  /\ CASE orders[att[w].order].status = "valid"   -> Goto(w, "download")
       [] orders[att[w].order].status = "invalid" -> Throw(w, "terminal")
       [] OTHER                                   -> Throw(w, "resume_order")
  /\ UNCHANGED <<cert, task, dns, prov, orders, edits, faults>>

\* inspect_certificate: a certificate of another key is refused.
InspectCertificate(w) == orders[att[w].order].csr = att[w].key

DownloadCertificate(w) ==
  /\ att[w].pc = "download"
  /\ IF InspectCertificate(w) THEN Goto(w, "persist") ELSE Throw(w, "terminal")
  /\ UNCHANGED <<cert, task, dns, prov, orders, edits, faults>>

PersistIssuedCertificate(w) ==
  /\ att[w].pc = "persist"
  /\ \/ ~Current(w) /\ Release(w) /\ End(w) /\ UNCHANGED cert
     \/ Current(w) /\ ~Held(w) /\ Throw(w, "restart_order") /\ UNCHANGED <<cert, task>>
     \/ /\ Current(w) /\ Held(w)
        /\ cert' = [cert EXCEPT !.issued = att[w].rev, !.material = att[w].order, !.progress = NoProgress]
        /\ task' = [task EXCEPT !.state = "done", !.holder = 0]
        /\ End(w)
  /\ UNCHANGED <<dns, prov, orders, edits, faults>>

(* -- Failures ----------------------------------------------------------- *)

\* Phases in which a request to the ACME server is under way.
Requesting == {"register", "order", "authorize", "respond", "poll", "finalize", "submit", "wait", "download"}

\* acme_problem_error, permanent_problem: what a problem document does to the order.
ProblemDispositions == {"restart_order", "terminal"}

\* signed_post: no answer resumes the order; a problem document restarts it or ends the task (permanent_problem).
RequestFails(w) ==
  /\ att[w].pc \in Requesting
  /\ \/ Spend("request") /\ Throw(w, "resume_order")
     \/ Spend("problem") /\ \E how \in ProblemDispositions : Throw(w, how)
  /\ UNCHANGED <<cert, task, dns, prov, orders, edits>>

\* fail_certificate_task: which failures retire the progress and the records.
Retires(how) == how # "resume_order"

\* fail_certificate_task: nothing happens unless the result is recorded.
FailCertificateTask(w) ==
  /\ att[w].pc = "failing"
  /\ IF ~Held(w) THEN UNCHANGED <<cert, task, dns>>
     ELSE /\ task' = [task EXCEPT !.state = IF att[w].how = "terminal" THEN "failed" ELSE "queued", !.holder = 0]
          /\ cert' = IF Current(w) /\ Retires(att[w].how) THEN [cert EXCEPT !.progress = NoProgress] ELSE cert
          /\ dns' = IF Retires(att[w].how) THEN ReplaceChallengeRecords(0) ELSE dns
  /\ End(w)
  /\ UNCHANGED <<prov, orders, edits, faults>>

\* maintain_lease: a renewal that finds the lease gone cancels the attempt.
LeaseLost(w) ==
  /\ att[w].pc # "idle" /\ ~Held(w)
  /\ End(w)
  /\ UNCHANGED <<cert, task, dns, prov, orders, edits, faults>>

\* The worker stops or its process dies: nothing is recorded.
Crash(w) ==
  /\ att[w].pc # "idle" /\ Spend("crash") /\ End(w)
  /\ UNCHANGED <<cert, task, dns, prov, orders, edits>>

\* The lease runs out; the attempt, if it lives, does not know yet.
LeaseExpires ==
  /\ task.state = "running"
  /\ \/ att[task.holder].pc = "idle" /\ UNCHANGED faults
     \/ att[task.holder].pc # "idle" /\ Spend("lease")
  /\ task' = [task EXCEPT !.state = "queued", !.holder = 0]
  /\ UNCHANGED <<cert, dns, prov, orders, att, edits>>

(* -- Commands ----------------------------------------------------------- *)

\* enqueue_certificate_revision
Enqueued(rev) == [version |-> rev, state |-> "queued", holder |-> 0, dep |-> 0]

\* renew: the progress and the records of the old revision stay where they are.
Renew ==
  /\ ~cert.deleted /\ cert.rev < MaxRev
  /\ cert' = [cert EXCEPT !.rev = @ + 1]
  /\ task' = Enqueued(cert.rev + 1)
  /\ UNCHANGED <<dns, prov, orders, att, edits, faults>>

Remove ==
  /\ ~cert.deleted /\ "remove" \in Events
  /\ cert' = [cert EXCEPT !.deleted = TRUE, !.material = 0]
  /\ dns' = ReplaceChallengeRecords(0)
  /\ task' = [task EXCEPT !.state = "removed", !.holder = 0]
  /\ UNCHANGED <<prov, orders, att, edits, faults>>

\* certificate_provider_service::update, with or without changed credentials.
UpdateProvider ==
  /\ edits < MaxEdits /\ edits' = edits + 1
  /\ \E changed \in BOOLEAN :
       prov' = IF changed THEN [rev |-> prov.rev + 1, verified |-> FALSE, acct |-> 0] ELSE [prov EXCEPT !.rev = @ + 1]
  /\ UNCHANGED <<cert, task, dns, orders, att, faults>>

VerifyProvider ==
  /\ ~prov.verified
  /\ prov' = [prov EXCEPT !.verified = TRUE]
  /\ UNCHANGED <<cert, task, dns, orders, att, edits, faults>>

(* -- The zone's synchronisation and the ACME server, as these files see them *)

\* A result resumes the marker that waits for its revision.
Resume(revision) == IF task.state = "waiting" /\ task.dep <= revision THEN [task EXCEPT !.state = "queued"] ELSE task

\* sync_zone, persist_synced_zone: all records pushed; or a challenge record held back by a name
\* conflict, which fails the record and not the task; or the task failed for good.
SyncZone ==
  /\ dns.task = "queued"
  /\ \/ /\ dns' = [dns EXCEPT !.synced = dns.desired, !.applied = (dns.chal # 0), !.served = dns.chal, !.task = "ok"]
        /\ UNCHANGED faults
     \/ /\ Spend("conflict") /\ dns.chal # 0
        /\ dns' = [dns EXCEPT !.synced = dns.desired, !.applied = FALSE, !.task = "ok",
                              !.served = IF @ = dns.chal THEN @ ELSE 0]
     \/ Spend("zone") /\ dns' = [dns EXCEPT !.task = "failed"]
  /\ task' = Resume(dns.desired)
  /\ UNCHANGED <<cert, prov, orders, att, edits>>

\* Somebody edits the zone, or retries a failed synchronisation.
EditZone ==
  /\ edits < MaxEdits /\ edits' = edits + 1
  /\ dns' = [dns EXCEPT !.desired = @ + 1, !.task = "queued"]
  /\ UNCHANGED <<cert, task, prov, orders, att, faults>>
RetryZone ==
  /\ dns.task = "failed" /\ dns' = [dns EXCEPT !.task = "queued"]
  /\ UNCHANGED <<cert, task, prov, orders, att, edits, faults>>

ServerValidates(o) ==
  /\ orders[o].authz = "answered"
  /\ orders' = IF dns.served = o THEN [orders EXCEPT ![o].authz = "valid", ![o].status = "ready"]
               ELSE [orders EXCEPT ![o].authz = "invalid", ![o].status = "invalid"]
  /\ UNCHANGED <<cert, task, dns, prov, att, edits, faults>>

ServerIssues(o) ==
  /\ orders[o].status = "processing"
  /\ orders' = [orders EXCEPT ![o].status = "valid"]
  /\ UNCHANGED <<cert, task, dns, prov, att, edits, faults>>

ServerInvalidates(o) ==
  /\ orders[o].status \in {"pending", "ready", "processing"} /\ Spend("server")
  /\ orders' = [orders EXCEPT ![o].status = "invalid", ![o].authz = IF @ = "valid" THEN @ ELSE "invalid"]
  /\ UNCHANGED <<cert, task, dns, prov, att, edits>>

(* -- Specification ------------------------------------------------------ *)

\* One step of a live attempt.
Run(w) ==
  \/ LoadWork(w) \/ AwaitChallengeDns(w) \/ LoadAccount(w) \/ RegisterAccount(w) \/ AdoptAccount(w)
  \/ MarkIssuanceStarted(w) \/ CreateOrder(w) \/ Authorize(w) \/ PublishChallenges(w) \/ RespondChallenge(w)
  \/ WaitForAuthorization(w) \/ EnterFinalize(w) \/ LoadOrder(w) \/ FinalizeOrder(w) \/ WaitForOrder(w)
  \/ DownloadCertificate(w) \/ PersistIssuedCertificate(w) \/ FailCertificateTask(w)

Next ==
  \/ \E w \in Workers : Claim(w) \/ Run(w) \/ RequestFails(w) \/ LeaseLost(w) \/ Crash(w)
  \/ LeaseExpires \/ Renew \/ Remove \/ UpdateProvider \/ VerifyProvider
  \/ SyncZone \/ EditZone \/ RetryZone
  \/ \E o \in DOMAIN orders : ServerValidates(o) \/ ServerIssues(o) \/ ServerInvalidates(o)

Spec == Init /\ [][Next]_vars

\* Workers run, leases run out, the zone's worker and the server get to their work.
Fairness ==
  /\ \A w \in Workers : WF_vars(Run(w)) /\ WF_vars(Claim(w))
  /\ WF_vars(LeaseExpires) /\ WF_vars(SyncZone) /\ WF_vars(VerifyProvider)
  /\ \A o \in 1..MaxOrders : WF_vars(o \in DOMAIN orders /\ ServerValidates(o))
                             /\ WF_vars(o \in DOMAIN orders /\ ServerIssues(o))
FairSpec == Spec /\ Fairness

(* -- Properties --------------------------------------------------------- *)

(* The rows, the marker and the attempts keep their shape, and only an     *)
(* attempt that exists holds the lease.                                    *)
TypeOK ==
  /\ cert.rev \in 1..MaxRev /\ cert.issued \in 0..cert.rev /\ cert.material \in 0..Len(orders)
  /\ cert.deleted \in BOOLEAN /\ cert.progress.phase \in {"none", "validation", "finalize"}
  /\ cert.progress.order \in 0..Len(orders) /\ (cert.progress.phase = "none") = (cert.progress.order = 0)
  /\ task.state \in {"queued", "running", "waiting", "done", "failed", "removed"}
  /\ task.version = cert.rev /\ (task.state = "running") = (task.holder \in Workers)
  /\ dns.synced <= dns.desired /\ dns.chal \in 0..Len(orders) /\ dns.served \in 0..Len(orders)
  /\ dns.task \in {"queued", "ok", "failed"}
  /\ \A w \in Workers : att[w].pc \in Phases /\ att[w].how \in Dispositions /\ att[w].rev \in 0..cert.rev
  /\ \A o \in DOMAIN orders : /\ orders[o].status \in {"pending", "ready", "processing", "valid", "invalid"}
                              /\ orders[o].authz \in {"pending", "answered", "valid", "invalid"}

(* The key that finalize progress stores is the key the order was          *)
(* finalized with, however many attempts work on the order: otherwise the  *)
(* certificate that comes back matches no key (enter_finalize's fence).    *)
StoredKeyIsTheOrders ==
  LET p == cert.progress IN p.phase = "finalize" /\ orders[p.order].csr # 0 => orders[p.order].csr = p.key

(* The records published in the zone are those of the order that stored    *)
(* progress waits on, and nothing else is published: an order resumed at   *)
(* validation finds its records, one past it left none.                    *)
RecordsFollowProgress ==
  ~cert.deleted => dns.chal = IF cert.progress.phase = "validation" THEN cert.progress.order ELSE 0

(* A finished, failed or removed issuance leaves no challenge record in    *)
(* the zone (fail_certificate_task, enter_finalize, remove).               *)
NothingLeftPublished == task.state \in {"done", "failed", "removed"} => dns.chal = 0

(* The material of a revision comes from an order created for that         *)
(* revision: a renewal never persists what an older order delivers.        *)
RenewalIsFresh == cert.material # 0 => orders[cert.material].rev = cert.issued /\ orders[cert.material].status = "valid"

(* Attempts that registered an account at the same time go on with the     *)
(* stored one, so that what one starts the other can resume.               *)
AccountsConverge ==
  \A w \in Workers :
    att[w].pc \in Phases \ {"idle", "load", "await", "account", "register", "adopt", "failing"} =>
      att[w].acct = prov.acct \/ att[w].prov # prov.rev

(* The attempt that holds the lease tells the server to validate only what *)
(* the zone serves: "A resumed task must verify actual publication before  *)
(* any ACME operation."                                                    *)
AnswersServed ==
  \A w \in Workers : RespondChallenge(w) /\ Held(w) /\ orders' # orders => dns.served = att[w].order

(* Faults stop sooner or later; then the certificate is issued, removed,   *)
(* or its task failed for good: no marker waits for a result that is gone. *)
Settles == <>[](cert.issued = cert.rev \/ cert.deleted \/ task.state = "failed")
=============================================================================
