------------------------------ MODULE MCReports ------------------------------
(* What nodes report and the service asks of them, side by side: the       *)
(* report queue, and the cache operations whose results travel through it. *)
EXTENDS ReportQueue, CacheTasks, TLC

CONSTANTS
  w1, w2,   \* loops of the report queue
  Scenes    \* of the run

VARIABLE scene   \* the component that moves

LoopsAlike == Permutations({w1, w2})

\* Two nodes, one of which has to be upgraded first.
Fleet == INSTANCE CacheTasks WITH
  TaskWorkers <- {"a"}, Nodes <- {"n1", "n2"}, MaxCreates <- 0, Old <- {"n2"}

MCvars == <<scene, vars, tasksVars>>

MCInit ==
  /\ scene \in Scenes
  /\ Init
  /\ IF scene = "cache_task_fleet" THEN Fleet!TasksInit ELSE TasksInit

\* The components that do not move keep their state.
Still(own) ==
  /\ UNCHANGED scene
  /\ IF own = "vars" THEN TRUE ELSE UNCHANGED vars
  /\ IF own = "tasksVars" THEN TRUE ELSE UNCHANGED tasksVars

MCNext ==
  \/ scene = "reports" /\ Next /\ Still("vars")
  \/ scene = "cache_task" /\ TasksNext /\ Still("tasksVars")
  \/ scene = "cache_task_fleet" /\ Fleet!TasksNext /\ Still("tasksVars")

MCSpec == MCInit /\ [][MCNext]_MCvars

ASSUME Fleet!CacheTasksAssumption
=============================================================================
