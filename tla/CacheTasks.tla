----------------------------- MODULE CacheTasks -----------------------------
(***************************************************************************)
(* One cache operation (refresh, clean or prewarm) on its way from the     *)
(* console to every node and back: the task row and its targets            *)
(* (src/service/domains/cache/cache_operation_service.h), the workers that *)
(* lease it (src/service/features/cache_tasks/worker.h), the commands in   *)
(* Redis (transport.h), the node that runs them (src/node/control,         *)
(* src/node/data) and the reports that come back through the report queue. *)
(*                                                                         *)
(* next_attempt_at and the sleeps only delay a step.  A lease is live or   *)
(* lapsed.  Attempt identifiers are numbers, as random tokens never repeat.*)
(***************************************************************************)
EXTENDS Naturals, FiniteSets

CONSTANTS
  TaskWorkers,  \* task workers, with the lease owner each of them is
  Nodes,        \* nodes of the operation
  MaxCreates,   \* bound: operations and retries asked for on the console
  MaxFaults,    \* bound: faults
  MaxFailures,  \* failure_count at which an attempt is the last (2)
  Faults,       \* the faults of this instance
  Old,          \* nodes that start without response_cache_protocol
  None

ASSUME CacheTasksAssumption ==
  MaxCreates \in Nat /\ MaxFaults \in Nat /\ MaxFailures \in Nat /\ Old \subseteq Nodes /\ None \notin TaskWorkers

VARIABLES
  task,      \* sys_cache_task
  target,    \* sys_cache_task_target of the task's generation
  worker,    \* what each run_one has in hand
  redis,     \* flexedge:cache-commands, by node
  node,      \* the command a node executes, and the results it remembers
  reports,   \* results on their way through the report queue
  supports,  \* nodes with response_cache_protocol >= 1
  attempts, creates, faults,
  executed   \* history: generations a node has carried out

tasksVars == <<task, target, worker, redis, node, reports, supports, attempts, creates, faults, executed>>

IdleWorker == [pc |-> "idle", gen |-> 0, todo |-> {}, old |-> {}, sent |-> {}, send |-> {}]
Resting == [running |-> None, results |-> {}]
NewTarget == [status |-> "pending", attempt |-> 0]

TasksInit ==
  /\ task = [gen |-> 1, status |-> "queued", owner |-> None, live |-> FALSE, failures |-> 0]
  /\ target = [n \in Nodes |-> NewTarget]
  /\ worker = [w \in TaskWorkers |-> IdleWorker]
  /\ redis = [n \in Nodes |-> None] /\ node = [n \in Nodes |-> Resting] /\ reports = {}
  /\ supports = Nodes \ Old
  /\ attempts = 0 /\ creates = 0 /\ faults = 0 /\ executed = [n \in Nodes |-> {}]

Spend(kind) == kind \in Faults /\ faults < MaxFaults /\ faults' = faults + 1

(* -- The console -------------------------------------------------------- *)

\* create: the same object and operation again is a new generation with fresh targets.
Create ==
  /\ creates < MaxCreates /\ creates' = creates + 1
  /\ task' = [task EXCEPT !.gen = @ + 1, !.status = "queued", !.owner = None, !.live = FALSE, !.failures = 0]
  /\ target' = [n \in Nodes |-> NewTarget]
  /\ UNCHANGED <<worker, redis, node, reports, supports, attempts, faults, executed>>

\* retry
RetryTask ==
  /\ creates < MaxCreates /\ creates' = creates + 1
  /\ task.status \in {"failed", "retrying"} /\ ~task.live
  /\ task' = [task EXCEPT !.status = "queued", !.failures = 0, !.owner = None]
  /\ UNCHANGED <<target, worker, redis, node, reports, supports, attempts, faults, executed>>

(* -- The worker --------------------------------------------------------- *)

\* run_one: the claim.
ClaimTask(w) ==
  /\ worker[w].pc = "idle"
  /\ task.status \in {"queued", "running", "retrying"} /\ ~task.live
  /\ task' = [task EXCEPT !.owner = w, !.live = TRUE, !.status = "running"]
  /\ worker' = [worker EXCEPT ![w] = [IdleWorker EXCEPT !.pc = "select", !.gen = task.gen]]
  /\ UNCHANGED <<target, redis, node, reports, supports, attempts, creates, faults, executed>>

\* The rows of this generation; those of an earlier one are gone.
Unfinished(w) == IF task.gen = worker[w].gen THEN {n \in Nodes : target[n].status # "completed"} ELSE {}

Select(w) ==
  /\ worker[w].pc = "select"
  /\ worker' = [worker EXCEPT ![w].pc = "stage", ![w].todo = Unfinished(w), ![w].old = Nodes \ supports]
  /\ UNCHANGED <<task, target, redis, node, reports, supports, attempts, creates, faults, executed>>

\* The fence of staging, renewal and the end: generation and lease owner.
OwnsTask(w) == task.gen = worker[w].gen /\ task.owner = w

\* One target: refused for an old node, else a new attempt under the fence.
Stage(w, n) ==
  /\ worker[w].pc = "stage" /\ n \in worker[w].todo
  /\ \/ /\ n \in worker[w].old
        /\ target' = IF task.gen = worker[w].gen THEN [target EXCEPT ![n].status = "failed"] ELSE target
        /\ worker' = [worker EXCEPT ![w].todo = @ \ {n}] /\ UNCHANGED attempts
     \/ /\ n \notin worker[w].old /\ OwnsTask(w)
        /\ attempts' = attempts + 1
        /\ target' = [target EXCEPT ![n] = [status |-> "sent", attempt |-> attempts + 1]]
        /\ worker' = [worker EXCEPT ![w].pc = "enqueue", ![w].todo = @ \ {n},
                                    ![w].send = {[node |-> n, gen |-> worker[w].gen, attempt |-> attempts + 1]}]
     \/ /\ n \notin worker[w].old /\ ~OwnsTask(w)
        /\ worker' = [worker EXCEPT ![w].todo = @ \ {n}] /\ UNCHANGED <<target, attempts>>
  /\ UNCHANGED <<task, redis, node, reports, supports, creates, faults, executed>>

Staged(w) ==
  /\ worker[w].pc = "stage" /\ worker[w].todo = {}
  /\ worker' = [worker EXCEPT ![w].pc = "wait"]
  /\ UNCHANGED <<task, target, redis, node, reports, supports, attempts, creates, faults, executed>>

\* enqueue: HSET by task, so a command replaces the one before.
EnqueueCommand(w) ==
  /\ worker[w].pc \in {"enqueue", "resend"}
  /\ \E c \in worker[w].send :
       /\ redis' = [redis EXCEPT ![c.node] = c]
       /\ worker' = [worker EXCEPT ![w].send = @ \ {c}, ![w].sent = @ \cup {c},
                                   ![w].pc = IF worker[w].send # {c} THEN @ ELSE IF @ = "enqueue" THEN "stage" ELSE "wait"]
  /\ UNCHANGED <<task, target, node, reports, supports, attempts, creates, faults, executed>>

\* Redis or the database fails: the attempt ends here, its lease stays until it lapses.
Throw(w) ==
  /\ worker[w].pc # "idle" /\ Spend("throw")
  /\ worker' = [worker EXCEPT ![w] = IdleWorker]
  /\ UNCHANGED <<task, target, redis, node, reports, supports, attempts, creates, executed>>

\* The targets still waited for, with the attempt they wait for.
Pending(w) ==
  IF task.gen # worker[w].gen THEN {}
  ELSE {<<n, target[n].attempt>> : n \in {m \in Nodes : target[m].status \in {"pending", "sent"}}}

\* One turn of the loop: done, out of time, or on to the renewal.
Poll(w) ==
  /\ worker[w].pc = "wait"
  /\ \/ Pending(w) = {} /\ worker' = [worker EXCEPT ![w].pc = "finish"] /\ UNCHANGED faults
     \/ Pending(w) # {} /\ Spend("deadline") /\ worker' = [worker EXCEPT ![w].pc = "finish"]
     \/ /\ Pending(w) # {} /\ UNCHANGED faults
        /\ worker' = [worker EXCEPT ![w].pc = "renew", ![w].send = {c \in worker[w].sent : <<c.node, c.attempt>> \in Pending(w)}]
  /\ UNCHANGED <<task, target, redis, node, reports, supports, attempts, creates, executed>>

\* The renewal; then the commands still waited for go out once more.
Renew(w) ==
  /\ worker[w].pc = "renew"
  /\ IF OwnsTask(w)
     THEN /\ task' = [task EXCEPT !.live = TRUE]
          /\ worker' = [worker EXCEPT ![w].pc = IF worker[w].send = {} THEN "wait" ELSE "resend"]
     ELSE worker' = [worker EXCEPT ![w] = IdleWorker] /\ UNCHANGED task
  /\ UNCHANGED <<target, redis, node, reports, supports, attempts, creates, faults, executed>>

AllCompleted == \A n \in Nodes : target[n].status = "completed"

Outcome(ok) == IF ok THEN "completed" ELSE IF task.failures >= MaxFailures THEN "failed" ELSE "retrying"

\* The end of an attempt, in one transaction.
Finish(w) ==
  /\ worker[w].pc = "finish"
  /\ task' = IF ~OwnsTask(w) THEN task
             ELSE [task EXCEPT !.status = Outcome(AllCompleted), !.failures = IF AllCompleted THEN 0 ELSE @ + 1,
                               !.owner = None, !.live = FALSE]
  /\ worker' = [worker EXCEPT ![w] = IdleWorker]
  /\ UNCHANGED <<target, redis, node, reports, supports, attempts, creates, faults, executed>>

\* lease_until has passed: a worker that stalls, or that is gone.
Lapse ==
  /\ task.live /\ task' = [task EXCEPT !.live = FALSE]
  /\ IF task.owner # None /\ worker[task.owner].pc = "idle" THEN UNCHANGED faults ELSE Spend("stall")
  /\ UNCHANGED <<target, worker, redis, node, reports, supports, attempts, creates, executed>>

(* -- The node ----------------------------------------------------------- *)

\* A heartbeat answer carries the command; process_cache runs one at a time.
Deliver(n) ==
  /\ redis[n] # None /\ n \in supports /\ node[n].running = None
  /\ node' = [node EXCEPT ![n].running = redis[n]]
  /\ UNCHANGED <<task, target, worker, redis, reports, supports, attempts, creates, faults, executed>>

\* The result names the command it answers.
ResultOf(n, c, ok) == [node |-> n, gen |-> c.gen, attempt |-> c.attempt, ok |-> ok]

\* execute_cache: a remembered result, or the operation once; then the report.
Execute(n) ==
  /\ node[n].running # None
  /\ LET c == node[n].running  known == {r \in node[n].results : r.attempt = c.attempt} IN
     \/ /\ known # {} /\ reports' = reports \cup known
        /\ node' = [node EXCEPT ![n].running = None] /\ UNCHANGED <<executed, faults>>
     \/ /\ known = {} /\ UNCHANGED faults
        /\ reports' = reports \cup {ResultOf(n, c, TRUE)}
        /\ node' = [node EXCEPT ![n].running = None, ![n].results = @ \cup {ResultOf(n, c, TRUE)}]
        /\ executed' = [executed EXCEPT ![n] = @ \cup {c.gen}]
     \/ /\ known = {} /\ Spend("fail")
        /\ reports' = reports \cup {ResultOf(n, c, FALSE)}
        /\ node' = [node EXCEPT ![n].running = None, ![n].results = @ \cup {ResultOf(n, c, FALSE)}]
        /\ UNCHANGED executed
  /\ UNCHANGED <<task, target, worker, redis, supports, attempts, creates>>

\* The connection ends before the report is sent; the operation itself goes on.
Disconnect(n) ==
  /\ node[n].running # None /\ Spend("disconnect")
  /\ LET c == node[n].running  r == ResultOf(n, c, TRUE) IN
     /\ node' = [node EXCEPT ![n].running = None,
                             ![n].results = IF \E k \in @ : k.attempt = c.attempt THEN @ ELSE @ \cup {r}]
     /\ executed' = [executed EXCEPT ![n] = IF \E k \in node[n].results : k.attempt = c.attempt THEN @ ELSE @ \cup {c.gen}]
  /\ UNCHANGED <<task, target, worker, redis, reports, supports, attempts, creates>>

\* The process restarts: results are remembered in memory only.
Restart(n) ==
  /\ Spend("restart") /\ node[n] # Resting
  /\ node' = [node EXCEPT ![n] = Resting]
  /\ UNCHANGED <<task, target, worker, redis, reports, supports, attempts, creates, executed>>

Upgrade(n) ==
  /\ n \notin supports /\ supports' = supports \cup {n}
  /\ UNCHANGED <<task, target, worker, redis, node, reports, attempts, creates, faults, executed>>

(* -- The report --------------------------------------------------------- *)

\* Mutant: any report of the node answers a target that was sent.
MatchesSent(r) == target[r.node].status = "sent"

\* record_result: this generation, this attempt, still waited for.
Matches(r) == r.gen = task.gen /\ target[r.node].attempt = r.attempt /\ target[r.node].status = "sent"

\* record_result in the report's transaction; acknowledge takes back the command it answers.
Report(r) ==
  /\ r \in reports /\ reports' = reports \ {r}
  /\ target' = IF Matches(r) THEN [target EXCEPT ![r.node].status = IF r.ok THEN "completed" ELSE "failed"] ELSE target
  /\ redis' = IF redis[r.node] # None /\ redis[r.node].attempt = r.attempt THEN [redis EXCEPT ![r.node] = None] ELSE redis
  /\ UNCHANGED <<task, worker, node, supports, attempts, creates, faults, executed>>

\* Redis loses a command, or its time is over.
LoseCommand(n) ==
  /\ redis[n] # None /\ Spend("redis")
  /\ redis' = [redis EXCEPT ![n] = None]
  /\ UNCHANGED <<task, target, worker, node, reports, supports, attempts, creates, executed>>

(* -- Specification ------------------------------------------------------ *)

WorkerStep(w) ==
  \/ ClaimTask(w) \/ Select(w) \/ Staged(w) \/ EnqueueCommand(w) \/ Poll(w) \/ Renew(w) \/ Finish(w)
  \/ \E n \in Nodes : Stage(w, n)

TasksNext ==
  \/ Create \/ RetryTask \/ Lapse
  \/ \E w \in TaskWorkers : WorkerStep(w) \/ Throw(w)
  \/ \E n \in Nodes : Deliver(n) \/ Execute(n) \/ Disconnect(n) \/ Restart(n) \/ Upgrade(n) \/ LoseCommand(n)
  \/ \E r \in reports : Report(r)

TasksSpec == TasksInit /\ [][TasksNext]_tasksVars

\* Workers and nodes run, reports are persisted, a lease nobody renews lapses.  A node sees each
\* command again with every heartbeat, however often it was replaced meanwhile.
TasksFairness ==
  /\ \A w \in TaskWorkers : WF_tasksVars(WorkerStep(w))
  /\ WF_tasksVars(Lapse)
  /\ \A n \in Nodes : SF_tasksVars(Deliver(n)) /\ WF_tasksVars(Execute(n)) /\ WF_tasksVars(\E r \in reports : r.node = n /\ Report(r))
FairTasksSpec == TasksSpec /\ TasksFairness

(* -- Properties --------------------------------------------------------- *)

TasksTypeOK ==
  /\ task.status \in {"queued", "running", "retrying", "failed", "completed"}
  /\ task.failures \in 0..(MaxFailures + 1) /\ (task.live => task.owner \in TaskWorkers)
  /\ \A n \in Nodes : target[n].status \in {"pending", "sent", "failed", "completed"} /\ target[n].attempt <= attempts

DoneEverywhere == task.status = "completed" => \A n \in DOMAIN target : task.gen \in executed[n]
EndsByItsOwner ==
  /\ (task.status \in {"completed", "failed"} /\ task'.status # task.status => task'.status = "queued")
  /\ (task.owner # None /\ task'.owner = None => task'.status = "queued" \/ worker[task.owner].pc = "finish")

(* What the console shows as completed was carried out by every node, for  *)
(* the operation as it was last asked for: no late report of an earlier    *)
(* generation or attempt and no stalled worker completes it.  A task that  *)
(* ended stays as it is until someone asks for it again, and only its      *)
(* lease owner ends it.                                                    *)
CompletedMeansDone == [](TasksTypeOK /\ DoneEverywhere) /\ [][EndsByItsOwner]_tasksVars

(* Every operation ends, completed or failed.                              *)
Settles == task.status \in {"queued", "running", "retrying"} ~> task.status \in {"completed", "failed"}
=============================================================================
