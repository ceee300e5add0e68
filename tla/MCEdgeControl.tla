---------------------------- MODULE MCEdgeControl ----------------------------
(* The control plane of a node, side by side: the replacement of its own   *)
(* binary, and the activation of configurations by its data workers.       *)
EXTENDS SelfUpdate, TLC

CONSTANTS
  w1, w2,   \* data workers
  Scenes    \* of the run

VARIABLES
  scene,   \* the component that moves, with its instance
  directory, source, wanted, session, op, sequence, committed, expired, stopping, failed,
  retired, worker, loop, inbox, results, acked, spoiled, crashes   \* ConfigActivation

Alike == Permutations({w1, w2})

FourImages == 1..4
\* Image 3 cannot load what the others persisted, and they cannot load its.
Incompatible == [i \in FourImages |-> IF i = 3 THEN {3} ELSE {1, 2, 4}]

Lossy == INSTANCE ConfigActivation WITH
  Workers <- {w1, w2}, MaxRevision <- 2, Invalid <- {}, MaxSequence <- 2, MaxCrashes <- 0,
  MayLose <- TRUE, MayRetire <- FALSE, MayStop <- FALSE, MayFailDisk <- FALSE,
  MaySpoil <- FALSE, disk <- directory, desired <- wanted
Faulty == INSTANCE ConfigActivation WITH
  Workers <- {w1, w2}, MaxRevision <- 2, Invalid <- {}, MaxSequence <- 2, MaxCrashes <- 0,
  MayLose <- FALSE, MayRetire <- TRUE, MayStop <- TRUE, MayFailDisk <- FALSE,
  MaySpoil <- FALSE, disk <- directory, desired <- wanted
Crashing == INSTANCE ConfigActivation WITH
  Workers <- {w1, w2}, MaxRevision <- 2, Invalid <- {}, MaxSequence <- 2, MaxCrashes <- 1,
  MayLose <- FALSE, MayRetire <- FALSE, MayStop <- FALSE, MayFailDisk <- TRUE,
  MaySpoil <- TRUE, disk <- directory, desired <- wanted
activationVars == <<directory, source, wanted, session, op, sequence, committed, expired,
                    stopping, failed, retired, worker, loop, inbox, results, acked, spoiled,
                    crashes>>

MCvars == <<scene, vars, activationVars>>

MCInit ==
  /\ scene \in Scenes
  /\ Init
  /\ IF scene = "lossy" THEN Lossy!Init ELSE IF scene = "faults" THEN Faulty!Init ELSE Crashing!Init

\* The components that do not move keep their state.
Still(own) ==
  /\ UNCHANGED scene
  /\ IF own = "vars" THEN TRUE ELSE UNCHANGED vars
  /\ IF own = "activationVars" THEN TRUE ELSE UNCHANGED activationVars

MCNext ==
  \/ scene = "update" /\ Next /\ Still("vars")
  \/ scene = "lossy" /\ Lossy!Next /\ Still("activationVars")
  \/ scene = "faults" /\ Faulty!Next /\ Still("activationVars")
  \/ scene = "crash" /\ Crashing!Next /\ Still("activationVars")

MCSpec == MCInit /\ [][MCNext]_MCvars

ASSUME Lossy!ActivationAssumption /\ Faulty!ActivationAssumption /\ Crashing!ActivationAssumption

(* Once an operation is over no worker serves another configuration than   *)
(* the committed one and the disk holds what the workers serve; what was   *)
(* reported as applied survives failed applies, failed writes and crashes, *)
(* and a running process never goes back to an older configuration.        *)
ServesCommitted ==
  /\ [](scene = "lossy" => Lossy!TypeOK /\ Lossy!ServesCommitted /\ Lossy!DiskFollows)
  /\ [](scene = "faults" => Faulty!ServesCommitted /\ Faulty!DiskFollows)
  /\ [](scene = "crash" => Crashing!AckedSurvives /\ Crashing!Loadable)
  /\ [][/\ scene = "lossy" => Lossy!GoesForward
        /\ scene = "crash" => Crashing!GoesForward]_MCvars
=============================================================================
