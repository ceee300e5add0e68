----------------------------- MODULE SelfUpdate -----------------------------
(***************************************************************************)
(* How a node replaces its own binary: the chunked transfer and the        *)
(* install of src/node/runtime/self_updater.h, the process that checks a   *)
(* candidate (upgrade_candidate.h), the record and the hard link that a    *)
(* rollback needs (upgrade_record.h, binary_install.h), the listening      *)
(* sockets handed to the next image (listener_handoff.h) and the startup,  *)
(* restart and rollback paths of src/node/main.cpp.                        *)
(*                                                                         *)
(* An image stands for a binary and its digest.  What survives a crash is  *)
(* binary, previous, record and state; sockets survive an exec and not a   *)
(* crash.  An I/O error, a crash, a lost connection, a changed worker      *)
(* count: each spends one of MaxFaults.                                    *)
(***************************************************************************)
EXTENDS Naturals, FiniteSets

CONSTANTS
  Images,      \* binaries the node may ever hold
  Original,    \* the one it was installed with
  Checked,     \* images that answer --check-upgrade with exit 0 and their version
  Reads,       \* Reads[i]: the images whose persisted state image i can load
  Chunks,      \* chunks of a release
  Workers,     \* worker counts a process may find when it starts
  MaxFaults,   \* bound: faults
  MaxReleases, \* bound: changes of the advertised release
  FaultKinds,  \* the faults of this instance
  None, Junk   \* no file; bytes that are no image

ASSUME ImagesAssumption ==
  /\ Original \in Images \cap Checked /\ Checked \subseteq Images
  /\ Reads \in [Images -> SUBSET Images] /\ \A i \in Images : i \in Reads[i]
  /\ Chunks \in Nat \ {0} /\ MaxFaults \in Nat /\ MaxReleases \in Nat
  /\ Workers \subseteq Nat \ {0} /\ \E w \in Workers : \A v \in Workers : v <= w
  /\ None \notin Images /\ Junk \notin Images

VARIABLES
  binary,    \* the binary path
  previous,  \* the hard link beside it
  record,    \* target digest of state/pending-upgrade
  state,     \* the image that wrote state/active
  desired,   \* the release the control plane advertises
  run,       \* the process: pc, image, workers, upgrade (startup_upgrade_), confirmed
  transfer,  \* digest, written chunks, sound bytes, record_written
  sockets,   \* the TCP listeners: phase, and per endpoint how many
  served,    \* history: this chain of execs has accepted connections
  losses,    \* history: faults that cost the node listeners, or the link to fall back on
  proven,    \* history: images that restored the local state once
  faults, releases

vars == <<binary, previous, record, state, desired, run, transfer, sockets, served, losses, proven, faults, releases>>
disk == <<binary, previous, record>>
bounds == <<desired, losses, faults, releases>>

Pcs == {"down", "start", "assembled", "restore", "confirm", "retire", "session", "transfer", "check", "preserve",
        "write", "install", "undoPrevious", "undoInstall", "undoRecord", "drain", "execFailed", "execRecord",
        "failed", "rolledBack"}
NoTransfer == [digest |-> None, written |-> 0, sound |-> TRUE, recorded |-> FALSE]
Closed == [phase |-> "closed", per |-> 0]

At(pc) == run.pc = pc
Goto(pc) == run' = [run EXCEPT !.pc = pc]

\* Faults with which the code gives up listeners of a running chain of execs, and
\* the one with which it gives up the image it could fall back on.
Unbinding == {"workers", "assembly", "activation"}
Remembered == Unbinding \cup {"undo"}
Fault(kind) ==
  /\ kind \in FaultKinds /\ faults < MaxFaults /\ faults' = faults + 1
  /\ losses' = losses \cup ({kind} \cap Remembered) /\ UNCHANGED <<desired, releases>>

Process == [pc : Pcs, image : Images \cup {None, Junk}, workers : Workers, upgrade : BOOLEAN, confirmed : BOOLEAN]
Transfer == [digest : Images \cup {None}, written : 0..Chunks, sound : BOOLEAN, recorded : BOOLEAN]
Listeners == [phase : {"closed", "inherited", "queued", "accepting", "released"}, per : Nat]

TypeOK ==
  /\ binary \in Images \cup {Junk} /\ previous \in Images \cup {None} /\ record \in Images \cup {None}
  /\ state \in Images \cup {None, Junk} /\ proven \subseteq Images
  /\ run \in Process /\ transfer \in Transfer /\ sockets \in Listeners /\ served \in BOOLEAN /\ losses \subseteq Remembered
  /\ desired \in Images /\ faults \in 0..MaxFaults /\ releases \in 0..MaxReleases

Init ==
  /\ binary = Original /\ previous = None /\ record = None
  /\ state = Original /\ desired = Original
  /\ run = [pc |-> "down", image |-> None, workers |-> CHOOSE w \in Workers : \A v \in Workers : v <= w,
            upgrade |-> FALSE, confirmed |-> FALSE]
  /\ transfer = NoTransfer /\ sockets = Closed /\ served = FALSE /\ losses = {}
  /\ proven = {Original} /\ faults = 0 /\ releases = 0

-----------------------------------------------------------------------------
(* main: a process begins, takes over the listeners and restores its state *)

\* A record counts only for the image that is running.
ReadPendingUpgradeRecord(pending) == pending = binary

\* main begins with the worker count and the record it finds.
Begin(workers, pending) ==
  run' = [pc |-> "start", image |-> binary, workers |-> workers,
          upgrade |-> ReadPendingUpgradeRecord(pending), confirmed |-> FALSE]

\* The supervisor starts whatever the binary path holds.
Boot ==
  /\ At("down") /\ binary # Junk
  /\ Begin(run.workers, record)
  /\ UNCHANGED <<disk, bounds, state, transfer, sockets, served, proven>>

\* The listed descriptors are all TCP listeners of the process, one per worker
\* and endpoint.  A refused handoff closes every one of them.
HandoffValid == sockets.phase = "inherited" => sockets.per = run.workers

ConsumeListenerHandoff ==
  /\ At("start")
  /\ IF HandoffValid
       THEN /\ Goto("assembled")
            /\ sockets' = IF sockets.phase = "inherited" THEN [sockets EXCEPT !.phase = "queued"] ELSE sockets
       ELSE Goto("failed") /\ sockets' = Closed
  /\ UNCHANGED <<disk, bounds, state, transfer, served, proven>>

\* An exception of main before the channel runs destroys the queued listeners.
AssemblyFails ==
  /\ At("assembled") /\ Fault("assembly")
  /\ Goto("failed") /\ sockets' = Closed
  /\ UNCHANGED <<disk, state, transfer, served, proven>>

Assembled ==
  /\ At("assembled") /\ Goto("restore")
  /\ UNCHANGED <<disk, bounds, state, transfer, sockets, served, proven>>

StartupPending == run.upgrade /\ ~run.confirmed

\* Mutant: a failed startup lets go of the listeners as a shutdown does.
KeptClosing == Closed
Kept == IF sockets.phase = "closed" THEN sockets ELSE [sockets EXCEPT !.phase = "released"]

\* Every worker activates its listeners, adopted or bound anew.
Accept ==
  /\ sockets' = [phase |-> "accepting", per |-> run.workers]
  /\ served' = TRUE /\ losses' = losses \ Unbinding /\ UNCHANGED <<desired, faults, releases>>

\* A failed activation: listeners that were adopted for it and not activated
\* are closed with it, and those of the workers that took none stay.
ActivationFails(phase) ==
  /\ Fault("activation")
  /\ \E left \in 0..sockets.per :
       sockets' = IF sockets.phase # "queued" THEN sockets
                  ELSE IF left = 0 THEN Closed ELSE [phase |-> phase, per |-> left]

\* Persisted state this image cannot load fails an unconfirmed upgrade, and is
\* set aside otherwise; the channel then runs with nothing activated.  State
\* that loads and does not activate fails one as well, or the session.
RestorePersistedState ==
  /\ At("restore")
  /\ \/ /\ state # None /\ state \in Reads[run.image]
        /\ \/ Goto("confirm") /\ Accept
           \/ /\ IF StartupPending THEN ActivationFails("released") /\ Goto("failed")
                                  ELSE ActivationFails("queued") /\ UNCHANGED run
              /\ UNCHANGED served
        /\ UNCHANGED state
     \/ state = None /\ Goto("confirm") /\ UNCHANGED <<sockets, served, bounds, state>>
     \/ /\ state # None /\ state \notin Reads[run.image]
        /\ IF StartupPending
             THEN Goto("failed") /\ sockets' = Kept /\ UNCHANGED state
             ELSE Goto("confirm") /\ state' = None /\ UNCHANGED sockets
        /\ UNCHANGED <<served, bounds>>
  /\ UNCHANGED <<disk, transfer, proven>>

\* confirm_startup, first the record, then the link it protects
ConfirmStartup ==
  /\ At("confirm")
  /\ proven' = proven \cup {run.image}
  /\ \/ /\ run' = [run EXCEPT !.pc = "retire", !.confirmed = TRUE]
        /\ record' = IF run.upgrade THEN None ELSE record
        /\ UNCHANGED bounds
     \/ /\ run.upgrade /\ Fault("io")
        /\ run' = [run EXCEPT !.pc = "session", !.confirmed = TRUE] /\ UNCHANGED record
  /\ UNCHANGED <<binary, previous, state, transfer, sockets, served>>

RetirePrevious ==
  /\ At("retire")
  /\ \/ run' = [run EXCEPT !.pc = "session", !.upgrade = FALSE] /\ previous' = None /\ UNCHANGED bounds
     \/ previous # None /\ Fault("io") /\ Goto("session") /\ UNCHANGED previous
  /\ UNCHANGED <<binary, record, state, transfer, sockets, served, proven>>

-----------------------------------------------------------------------------
(* The control session: desired state, and the transfer of a release       *)

\* Another release is advertised.
Advertise(image) ==
  /\ releases < MaxReleases /\ image # desired
  /\ desired' = image /\ releases' = releases + 1
  /\ UNCHANGED <<disk, state, run, transfer, sockets, served, losses, proven, faults>>

\* A desired state is staged and activated in this image's format, or rolled back.
ApplyDesiredState ==
  /\ run.pc \in {"session", "transfer"} /\ state # run.image
  /\ \/ state' = run.image /\ Accept
     \/ ActivationFails("queued") /\ UNCHANGED <<state, served>>
  /\ UNCHANGED <<disk, run, transfer, proven>>

\* start_node_release and self_updater::begin
StartNodeRelease ==
  /\ At("session") /\ desired # run.image
  /\ Goto("transfer") /\ transfer' = [NoTransfer EXCEPT !.digest = desired]
  /\ UNCHANGED <<disk, bounds, state, sockets, served, proven>>

\* The session ends, its transfer is discarded, and the next session begins by
\* restoring and confirming again.
EndSession == Goto("restore") /\ transfer' = NoTransfer

\* accept_chunk: a chunk of the same release at the offset written so far
AcceptChunk ==
  /\ At("transfer") /\ transfer.written < Chunks
  /\ \/ transfer' = [transfer EXCEPT !.written = @ + 1] /\ UNCHANGED bounds
     \/ Fault("bytes") /\ transfer' = [transfer EXCEPT !.written = @ + 1, !.sound = FALSE]
  /\ UNCHANGED <<disk, state, run, sockets, served, proven>>

\* A chunk of another release or offset, or a lost connection.
LoseSession ==
  /\ run.pc \in {"session", "transfer"} /\ Fault("session") /\ EndSession
  /\ UNCHANGED <<disk, state, sockets, served, proven>>

Complete == At("transfer") /\ transfer.written = Chunks

Commit ==
  /\ Complete /\ Goto("check")
  /\ UNCHANGED <<disk, bounds, state, transfer, sockets, served, proven>>

\* The digest of the file, then the candidate's own answer.
CandidateReady == transfer.sound /\ transfer.digest \in Checked

CheckCandidate ==
  /\ At("check")
  /\ \/ CandidateReady /\ Goto("preserve") /\ UNCHANGED <<transfer, bounds>>
     \/ ~CandidateReady /\ EndSession /\ UNCHANGED bounds
     \/ Fault("check") /\ EndSession
  /\ UNCHANGED <<disk, state, sockets, served, proven>>

-----------------------------------------------------------------------------
(* commit: the installation, one file operation per step                   *)

\* create_hard_link fails on a link that exists.
Preserve ==
  /\ At("preserve")
  /\ \/ previous = None /\ previous' = binary /\ Goto("write") /\ UNCHANGED <<transfer, bounds>>
     \/ previous # None /\ EndSession /\ UNCHANGED <<previous, bounds>>
     \/ Fault("io") /\ EndSession /\ UNCHANGED previous
  /\ UNCHANGED <<binary, record, state, sockets, served, proven>>

\* Mutant: a record that cannot be written does not stop the installation.
WriteRecordIgnored ==
  /\ At("write")
  /\ \/ /\ record' = transfer.digest /\ Goto("install")
        /\ transfer' = [transfer EXCEPT !.recorded = TRUE] /\ UNCHANGED bounds
     \/ Fault("io") /\ Goto("install") /\ UNCHANGED <<record, transfer>>
  /\ UNCHANGED <<binary, previous, state, sockets, served, proven>>
\* write_secure_file_atomic replaces the record or leaves it.
WriteRecord ==
  /\ At("write")
  /\ \/ /\ record' = transfer.digest /\ Goto("install")
        /\ transfer' = [transfer EXCEPT !.recorded = TRUE] /\ UNCHANGED bounds
     \/ Fault("io") /\ Goto("undoPrevious") /\ UNCHANGED <<record, transfer>>
  /\ UNCHANGED <<binary, previous, state, sockets, served, proven>>

\* The rename, and the restart it asks for: admission stops, the listeners are
\* kept.  A restart that cannot be asked for undoes the rename.
Install ==
  /\ At("install")
  /\ \/ /\ binary' = (IF transfer.sound THEN transfer.digest ELSE Junk)
        /\ \/ Goto("drain") /\ transfer' = NoTransfer /\ sockets' = Kept /\ UNCHANGED bounds
           \/ Fault("restart") /\ Goto("undoInstall") /\ UNCHANGED <<transfer, sockets>>
     \/ Fault("io") /\ Goto("undoPrevious") /\ UNCHANGED <<binary, transfer, sockets>>
  /\ UNCHANGED <<previous, record, state, served, proven>>

\* The handler of a failed commit; a removal that fails skips the rest.
UndoPrevious ==
  /\ At("undoPrevious")
  /\ \/ /\ previous' = None /\ UNCHANGED bounds
        /\ IF transfer.recorded THEN Goto("undoRecord") /\ UNCHANGED transfer ELSE EndSession
     \/ Fault("io") /\ EndSession /\ UNCHANGED previous
  /\ UNCHANGED <<binary, record, state, sockets, served, proven>>

\* restore_node_binary renames the link back over the binary.
RestoreNodeBinary == binary' = previous /\ previous' = None

UndoInstall ==
  /\ At("undoInstall")
  /\ \/ RestoreNodeBinary /\ Goto("undoRecord") /\ UNCHANGED <<transfer, bounds>>
     \/ Fault("undo") /\ EndSession /\ UNCHANGED <<binary, previous>>
  /\ UNCHANGED <<record, state, sockets, served, proven>>

UndoRecord ==
  /\ At("undoRecord") /\ EndSession
  /\ \/ record' = None /\ UNCHANGED bounds
     \/ Fault("io") /\ UNCHANGED record
  /\ UNCHANGED <<binary, previous, state, sockets, served, proven>>

-----------------------------------------------------------------------------
(* exec, and the two ways back to the previous image                       *)

\* Every TCP listener is left open for the next image and named in the marker.
Inherited == IF sockets.phase = "closed" THEN sockets ELSE [sockets EXCEPT !.phase = "inherited"]

\* The image, and with a fault the worker count it finds
ReexecWithListeners(pending) ==
  /\ sockets' = Inherited
  /\ \/ Begin(run.workers, pending) /\ UNCHANGED bounds
     \/ Fault("workers") /\ \E w \in Workers \ {run.workers} : Begin(w, pending)

Die == Goto("down") /\ sockets' = Closed /\ served' = FALSE

Drain ==
  /\ At("drain")
  /\ \/ ReexecWithListeners(record)
     \/ Fault("exec") /\ Goto("execFailed") /\ UNCHANGED sockets
  /\ UNCHANGED <<disk, state, transfer, served, proven>>

ExecRestore ==
  /\ At("execFailed")
  /\ \/ /\ RestoreNodeBinary /\ Goto("execRecord")
        /\ UNCHANGED <<bounds, sockets, served>>
     \/ Fault("io") /\ Die /\ UNCHANGED <<binary, previous>>
  /\ UNCHANGED <<record, state, transfer, proven>>

\* main's handler: only an unconfirmed upgrade with a link is rolled back.
RollbackStartup ==
  /\ At("failed")
  /\ IF StartupPending /\ previous # None
       THEN \/ RestoreNodeBinary /\ Goto("rolledBack") /\ UNCHANGED <<bounds, sockets, served>>
            \/ Fault("io") /\ Die /\ UNCHANGED <<binary, previous>>
       ELSE Die /\ UNCHANGED <<binary, previous, bounds>>
  /\ UNCHANGED <<record, state, transfer, proven>>

\* Both ways end by removing the record and executing the restored image.
ReexecRestored ==
  /\ run.pc \in {"execRecord", "rolledBack"}
  /\ \/ record' = None /\ ReexecWithListeners(None) /\ UNCHANGED served
     \/ record' = None /\ Fault("exec") /\ Die
     \/ Fault("io") /\ Die /\ UNCHANGED record
  /\ UNCHANGED <<binary, previous, state, transfer, proven>>

\* The process is killed, or stops after a signal; files stay as they are.
Crash ==
  /\ ~At("down") /\ Fault("crash") /\ Die /\ transfer' = NoTransfer
  /\ UNCHANGED <<disk, state, proven>>

\* The persisted state is damaged from outside.
SpoilState ==
  /\ state # Junk /\ Fault("state") /\ state' = Junk
  /\ UNCHANGED <<disk, run, transfer, sockets, served, proven>>

-----------------------------------------------------------------------------
Step == \/ Boot \/ ConsumeListenerHandoff \/ Assembled \/ AssemblyFails \/ RestorePersistedState
        \/ ConfirmStartup \/ RetirePrevious \/ ApplyDesiredState \/ StartNodeRelease \/ AcceptChunk
        \/ Commit \/ CheckCandidate \/ Preserve \/ WriteRecord \/ Install \/ UndoPrevious \/ UndoInstall
        \/ UndoRecord \/ Drain \/ ExecRestore \/ RollbackStartup \/ ReexecRestored

Next == Step \/ LoseSession \/ Crash \/ SpoilState \/ \E i \in Images : Advertise(i)

Spec == Init /\ [][Next]_vars

\* A process that can take a step takes one, a supervisor restarts a dead one.
Fairness == WF_vars(Step)
FairSpec == Spec /\ Fairness

-----------------------------------------------------------------------------
\* The binary path always names an image that passed its check: no order of
\* crashes and failed file operations leaves half a release there.
OnlyCheckedBinary == binary \in Checked

\* A binary that never restored this node's state can always be rolled back:
\* its record says so and the link holds an image that did.  The exception is
\* an installed binary that could not be renamed back: the process goes on, and
\* its next session removes the link it would have needed.
FallbackKept == "undo" \notin losses
UnprovenHasFallback ==
  FallbackKept /\ binary \notin proven => record = binary /\ previous \in proven

\* A process that believes it is an unconfirmed upgrade never falls back to itself.
PendingFallsElsewhere ==
  FallbackKept /\ StartupPending /\ run.pc \notin {"down", "rolledBack", "execRecord"} => previous \notin {None, run.image}

\* Once a chain of execs accepts connections, its sockets stay open through
\* restart, failed exec and rollback, unless the worker count changed under it,
\* main could not assemble the process or an activation failed.
ListenersStay == served /\ losses \cap Unbinding = {} => sockets.phase # "closed"

\* tests/node_upgrade_transition.py: "listener disappeared during exec
\* transition".  Without the exceptions it does not hold: an activation that
\* fails closes the listeners it adopted, and a rollback starts without them.
ListenersNeverClose == served => sockets.phase # "closed"

\* Whatever release is advertised, the node is back in a session on a proven
\* image again and again.
AlwaysBack == []<>(At("session") /\ binary = run.image /\ binary \in proven)

\* Leftovers of crashed attempts never block a later one: the advertised
\* release, if it can be checked and started, is the binary in the end.
Upgrades == <>[](binary = desired)

\* listener_handoff.h: "No TCP listener may remain without an accept loop."
QueuedAccepted == sockets.phase = "queued" ~> sockets.phase # "queued"
=============================================================================
