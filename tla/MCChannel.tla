------------------------------ MODULE MCChannel ------------------------------
(* The channel between the service and a node, side by side: the node      *)
(* projection in Redis, a session that serves a node from it, and the      *)
(* presence derived from heartbeats.                                       *)
EXTENDS NodeProjection, NodePresence, TLC

CONSTANTS
  r1, r2,          \* refreshers
  n1, n2, w1, w2,  \* nodes and workers of the presence
  Scenes           \* of the run

VARIABLES
  scene,   \* the component that moves, with its instance
  projection, announced, requested, catalog, phase, purpose, co, woken, lane, stopped, known,
  dispatched, transfer, reports, inbox, node, log, sent, breaks   \* NodeSession

Alike == Permutations({r1, r2}) \cup Permutations({w1, w2})

Watch == INSTANCE NodeSession WITH
  MaxConfig <- 2, MaxMessages <- 3, MaxFaults <- 1, Chunks <- 2,
  Kinds <- {"probe", "apply", "failed"}, repair <- requested, faults <- breaks
Messages == INSTANCE NodeSession WITH
  MaxConfig <- 1, MaxMessages <- 3, MaxFaults <- 1, Chunks <- 2,
  Kinds <- {"objects", "logs", "binary", "cache", "beat", "bad"}, repair <- requested,
  faults <- breaks
sessionVars == <<projection, announced, requested, catalog, phase, purpose, co, woken, lane,
                 stopped, known, dispatched, transfer, reports, inbox, node, log, sent, breaks>>

\* Two nodes that are disabled, inspected one at a time; they are
\* interchangeable, and the properties are those of n1.
Fleet == INSTANCE NodePresence WITH
  WatchedNodes <- {n1, n2}, Worker <- {w1}, MaxTime <- 4, MaxOutages <- 0, MaxToggles <- 1, MaxOutbox <- 1

MCvars == <<scene, vars, sessionVars, presenceVars>>

MCInit ==
  /\ scene \in Scenes
  /\ Init
  /\ IF scene = "watch" THEN Watch!Init ELSE Messages!Init
  /\ IF scene = "fleet" THEN Fleet!PresenceInit ELSE PresenceInit

\* The components that do not move keep their state.
Still(own) ==
  /\ UNCHANGED scene
  /\ IF own = "vars" THEN TRUE ELSE UNCHANGED vars
  /\ IF own = "sessionVars" THEN TRUE ELSE UNCHANGED sessionVars
  /\ IF own = "presenceVars" THEN TRUE ELSE UNCHANGED presenceVars

MCNext ==
  \/ scene = "projection" /\ Next /\ Still("vars")
  \/ scene = "watch" /\ Watch!Next /\ Still("sessionVars")
  \/ scene = "messages" /\ Messages!Next /\ Still("sessionVars")
  \/ scene = "presence" /\ PresenceNext /\ Still("presenceVars")
  \/ scene = "fleet" /\ Fleet!PresenceNext /\ Still("presenceVars")

MCSpec == MCInit /\ [][MCNext]_MCvars

ASSUME Watch!SessionAssumption /\ Messages!SessionAssumption
ASSUME Fleet!PresenceAssumption

(* What a session told the node: nothing is acknowledged that was not      *)
(* stored, the frames of one answer describe one configuration, a download *)
(* never mixes binaries, no release is missed between the read and the     *)
(* wait, and a configuration is fetched only for the current agent.        *)
SessionTellsTruth ==
  /\ [](scene = "watch" => /\ Watch!OneWriter /\ Watch!FramesAgree /\ Watch!NoMissedRelease
                           /\ Watch!DispatchTimesOnce /\ Watch!EndedAlone)
  /\ [](scene = "messages" => /\ Messages!TypeOK /\ Messages!AcknowledgedIsStored
                              /\ Messages!ChunksOfOneBinary)
  /\ [][scene = "watch" => Watch!FetchesForCurrent]_MCvars
=============================================================================
