----------------------------- MODULE NodeProofs -----------------------------
(***************************************************************************)
(* Proofs about two components of a node, for every value of their         *)
(* constants: the self update and the origin health of a data worker.      *)
(***************************************************************************)
EXTENDS SelfUpdate, OriginHealth, FiniteSetTheorems, TLAPS

(***************************************************************************)
(* The self update keeps its files usable at every point at which a crash, *)
(* a failed file operation or a failed exec may interrupt it, for every    *)
(* set of images, every number of faults and every sequence of advertised  *)
(* releases.                                                               *)
(*                                                                         *)
(* The argument is about three files.  While a process runs the binary it  *)
(* was started from, the record names that binary exactly as long as its   *)
(* startup is unconfirmed; whenever the record names the binary, the link  *)
(* is another image that restored this node's state before.                *)
(***************************************************************************)

(* Where the process still is the image at the binary path.                *)
RunningPcs == Pcs \ {"down", "undoInstall", "drain", "execFailed", "execRecord", "rolledBack"}

(* Where its startup has been confirmed.                                   *)
ConfirmedPcs == {"retire", "session", "transfer", "check", "preserve", "write", "install",
                 "undoPrevious", "undoInstall", "undoRecord", "drain", "execFailed"}

ConfirmedIsProven ==
  /\ run.confirmed => run.image \in proven
  /\ run.pc \in ConfirmedPcs => run.confirmed

CandidateIsOther ==
  /\ run.pc \in {"transfer", "check", "preserve", "write", "install", "undoInstall"} =>
       transfer.digest # run.image /\ transfer.digest \in Images
  /\ run.pc \in {"preserve", "write", "install"} => transfer.sound /\ transfer.digest \in Checked

(* What holds whatever fails: only checked images are found in the files,  *)
(* and the link is there when it is renamed back.                          *)
FilesUsable ==
  /\ binary \in Checked
  /\ previous # None => previous \in Checked
  /\ run.pc # "down" => run.image \in Images
  /\ run.pc \in {"write", "install", "undoPrevious", "undoInstall", "drain", "execFailed"} => previous # None

ImageRuns == run.pc \in RunningPcs => run.image = binary

(* A record that names the binary comes with a link to another image.      *)
RecordHasLink ==
  /\ record = binary => previous # None /\ previous # binary
  /\ previous # None => previous \in proven
  /\ binary \notin proven => record = binary

RecordIsPending ==
  run.pc \in RunningPcs =>
    /\ run.upgrade /\ ~run.confirmed => record = binary
    /\ ~run.upgrade \/ run.pc = "retire" => record # binary

(* The installation, file by file.                                         *)
InstallOrder ==
  /\ run.pc \in {"write", "install", "undoPrevious"} => previous = binary
  /\ run.pc = "install" => record = transfer.digest
  /\ run.pc = "undoInstall" => record = transfer.digest /\ previous = run.image
  /\ run.pc \in {"undoInstall", "drain", "execFailed"} => record = binary
  /\ run.pc \in {"execRecord", "rolledBack"} => binary \in proven /\ record # binary

(* What holds until an installed binary could not be renamed back.         *)
Linked == ImageRuns /\ RecordHasLink /\ RecordIsPending /\ InstallOrder

Always == ConfirmedIsProven /\ CandidateIsOther /\ FilesUsable

IInv == Always /\ (FallbackKept => Linked)

-----------------------------------------------------------------------------
(* The bounds of the constants, without the relation between images.       *)
LEMMA ConstantFacts ==
  /\ Original \in Images /\ Original \in Checked /\ Checked \subseteq Images
  /\ None \notin Images /\ Junk \notin Images
  /\ Chunks \in Nat /\ MaxFaults \in Nat /\ MaxReleases \in Nat
BY ImagesAssumption

(* What the steps do to a process, a transfer and the sockets keeps their  *)
(* types.                                                                  *)
LEMMA ProcessTypes ==
  ASSUME NEW r \in Process, NEW pc \in Pcs
  PROVE  /\ [r EXCEPT !.pc = pc] \in Process
         /\ [r EXCEPT !.pc = pc, !.confirmed = TRUE] \in Process
         /\ [r EXCEPT !.pc = pc, !.upgrade = FALSE] \in Process
         /\ r.workers \in Workers /\ r.image \in Images \cup {None, Junk}
BY DEF Process

(* A process that starts.                                                  *)
LEMMA BeginTypes ==
  ASSUME NEW b \in Images \cup {Junk}, NEW w \in Workers, NEW u \in BOOLEAN
  PROVE  [pc |-> "start", image |-> b, workers |-> w, upgrade |-> u, confirmed |-> FALSE] \in Process
BY DEF Process, Pcs

(* What a chunk does to a transfer.                                        *)
LEMMA TransferTypes ==
  /\ NoTransfer \in Transfer
  /\ \A d \in Images : [NoTransfer EXCEPT !.digest = d] \in Transfer
  /\ \A t \in Transfer : [t EXCEPT !.recorded = TRUE] \in Transfer /\ t.digest \in Images \cup {None}
  /\ \A t \in Transfer : t.written < Chunks =>
       /\ [t EXCEPT !.written = @ + 1] \in Transfer
       /\ [t EXCEPT !.written = @ + 1, !.sound = FALSE] \in Transfer
<1>1. NoTransfer \in Transfer BY ConstantFacts DEF Transfer, NoTransfer
<1>2. ASSUME NEW t \in Transfer, NEW d \in Images
      PROVE  [t EXCEPT !.digest = d] \in Transfer
  BY <1>2 DEF Transfer
<1>3. ASSUME NEW t \in Transfer
      PROVE  [t EXCEPT !.recorded = TRUE] \in Transfer /\ t.digest \in Images \cup {None}
  BY <1>3 DEF Transfer
<1>4. ASSUME NEW t \in Transfer, t.written < Chunks
      PROVE  /\ [t EXCEPT !.written = @ + 1] \in Transfer
             /\ [t EXCEPT !.written = @ + 1, !.sound = FALSE] \in Transfer
  <2>1. t.written + 1 \in 0..Chunks BY <1>4, ConstantFacts DEF Transfer
  <2> QED BY <1>4, <2>1 DEF Transfer
<1> QED BY <1>1, <1>2, <1>3, <1>4

(* The listeners' phases and counts.                                       *)
LEMMA ListenerTypes ==
  /\ Closed \in Listeners
  /\ \A s \in Listeners, ph \in {"inherited", "queued", "released"} : [s EXCEPT !.phase = ph] \in Listeners
  /\ \A w \in Workers : [phase |-> "accepting", per |-> w] \in Listeners
  /\ \A s \in Listeners : \A n \in 0..s.per, ph \in {"queued", "released"} :
       [phase |-> ph, per |-> n] \in Listeners
BY ImagesAssumption DEF Listeners, Closed

(* The files, the process, its transfer, its sockets and the bounds have   *)
(* their types; Boolean and integer variables apart from the rest.         *)
FilesTyped ==
  /\ binary \in Images \cup {Junk} /\ previous \in Images \cup {None} /\ record \in Images \cup {None}
  /\ state \in Images \cup {None, Junk} /\ proven \subseteq Images
  /\ run \in Process /\ transfer \in Transfer /\ sockets \in Listeners
BoundsTyped == desired \in Images /\ losses \subseteq Remembered /\ faults \in 0..MaxFaults /\ releases \in 0..MaxReleases

(* The type invariant, split by the files on disk and what they bound.     *)
LEMMA TypeParts == TypeOK <=> FilesTyped /\ BoundsTyped /\ served \in BOOLEAN
BY Zenon DEF TypeOK, FilesTyped, BoundsTyped

(* The files of a first start.                                             *)
LEMMA TypeInit == Init => TypeOK
<1> SUFFICES ASSUME Init PROVE TypeOK OBVIOUS
<1> DEFINE most == CHOOSE w \in Workers : \A v \in Workers : v <= w
<1>1. most \in Workers BY ImagesAssumption
<1>2. run = [pc |-> "down", image |-> None, workers |-> most, upgrade |-> FALSE, confirmed |-> FALSE]
  BY DEF Init
<1> HIDE DEF most
<1>3. run \in Process BY <1>1, <1>2 DEF Process, Pcs
<1>4. transfer \in Transfer /\ sockets \in Listeners BY TransferTypes, ListenerTypes DEF Init
<1>5. FilesTyped BY <1>3, <1>4, ConstantFacts DEF Init, FilesTyped
<1>6. BoundsTyped BY ConstantFacts DEF Init, BoundsTyped
<1>7. served \in BOOLEAN BY Zenon DEF Init
<1> QED BY <1>5, <1>6, <1>7, TypeParts

(* Whether connections were accepted stays a truth value.                  *)
LEMMA ServedStep ==
  ASSUME served \in BOOLEAN, [Next]_vars
  PROVE  served' \in BOOLEAN
<1> SUFFICES ASSUME Next PROVE served' \in BOOLEAN BY Zenon DEF vars
<1> QED
  BY Zenon DEF vars, bounds, Next, Step, Die, ReexecWithListeners, Accept, ActivationFails, Boot,
     ConsumeListenerHandoff, Assembled, AssemblyFails, RestorePersistedState, ConfirmStartup,
     RetirePrevious, ApplyDesiredState, StartNodeRelease, AcceptChunk, Commit, CheckCandidate,
     Preserve, WriteRecord, Install, UndoPrevious, UndoInstall, UndoRecord, Drain, ExecRestore,
     RollbackStartup, ReexecRestored, LoseSession, Crash, SpoilState, Advertise

(* A step spends a fault, advertises a release, accepts connections again, *)
(* or leaves the bounds alone.                                             *)
LEMMA BoundsMoves ==
  ASSUME [Next]_vars
  PROVE  UNCHANGED bounds \/ (\E kind : Fault(kind)) \/ Accept \/ \E i \in Images : Advertise(i)
BY Zenon DEF vars, bounds, Next, Step, ReexecWithListeners, ActivationFails, Boot,
   ConsumeListenerHandoff, Assembled, AssemblyFails, RestorePersistedState, ConfirmStartup,
   RetirePrevious, ApplyDesiredState, StartNodeRelease, AcceptChunk, Commit, CheckCandidate,
   Preserve, WriteRecord, Install, UndoPrevious, UndoInstall, UndoRecord, Drain, ExecRestore,
   RollbackStartup, ReexecRestored, LoseSession, Crash, SpoilState

(* The counters keep their types.                                          *)
LEMMA BoundsStep ==
  ASSUME BoundsTyped, [Next]_vars
  PROVE  BoundsTyped'
<1>1. CASE UNCHANGED bounds BY <1>1 DEF bounds, BoundsTyped
<1>2. CASE \E kind : Fault(kind) BY <1>2, ConstantFacts DEF Fault, BoundsTyped
<1>3. CASE Accept BY <1>3, ConstantFacts DEF Accept, BoundsTyped
<1>4. CASE \E i \in Images : Advertise(i) BY <1>4, ConstantFacts DEF Advertise, BoundsTyped
<1> QED BY <1>1, <1>2, <1>3, <1>4, BoundsMoves

(* A fallback that was given up stays given up.                            *)
LEMMA KeptStep ==
  ASSUME [Next]_vars, FallbackKept'
  PROVE  FallbackKept
<1>1. CASE UNCHANGED bounds BY <1>1 DEF bounds, FallbackKept
<1>2. CASE \E kind : Fault(kind) BY <1>2 DEF Fault, FallbackKept
<1>3. CASE Accept BY <1>3 DEF Accept, FallbackKept, Unbinding
<1>4. CASE \E i \in Images : Advertise(i) BY <1>4 DEF Advertise, FallbackKept
<1> QED BY <1>1, <1>2, <1>3, <1>4, BoundsMoves

(* Every step keeps the types of the files on disk.                        *)
LEMMA FilesStep ==
  ASSUME FilesTyped, desired \in Images, IInv, [Next]_vars
  PROVE  FilesTyped'
<1>a. /\ \A pc \in Pcs : /\ [run EXCEPT !.pc = pc] \in Process
                        /\ [run EXCEPT !.pc = pc, !.confirmed = TRUE] \in Process
                        /\ [run EXCEPT !.pc = pc, !.upgrade = FALSE] \in Process
      /\ run.workers \in Workers /\ run.image \in Images \cup {None, Junk}
  BY ProcessTypes DEF FilesTyped, Pcs
<1>b. /\ binary \in Images /\ (run.pc # "down" => run.image \in Images)
      /\ run.pc \in {"execFailed", "undoInstall"} => previous \in Images
      /\ run.pc = "install" => transfer.digest \in Images
  BY ConstantFacts DEF IInv, Always, FilesUsable, CandidateIsOther
<1>c. ASSUME NEW ph \in {"queued", "released"}, ActivationFails(ph)
      PROVE  sockets' \in Listeners
  BY <1>c, ListenerTypes DEF ActivationFails, FilesTyped
<1>d. ASSUME Accept PROVE sockets' \in Listeners
  BY <1>d, <1>a, ListenerTypes DEF Accept
<1> USE ConstantFacts, <1>a, TransferTypes, ListenerTypes DEF FilesTyped, Pcs
<1>e. ASSUME NEW pending, ReexecWithListeners(pending)
      PROVE  run' \in Process /\ sockets' \in Listeners
  <2>1. \E w \in Workers : Begin(w, pending) BY <1>e DEF ReexecWithListeners
  <2>2. PICK w \in Workers : Begin(w, pending) BY <2>1
  <2>3. run' \in Process BY <2>2, BeginTypes, FilesTyped DEF Begin, ReadPendingUpgradeRecord
  <2>4. sockets' \in Listeners BY <1>e, FilesTyped DEF ReexecWithListeners, Inherited
  <2> QED BY <2>3, <2>4
<1>1. CASE Boot
  BY <1>1, BeginTypes, FilesTyped DEF Boot, Begin, ReadPendingUpgradeRecord, At, disk
<1>2. CASE ConsumeListenerHandoff
  BY <1>2, FilesTyped DEF ConsumeListenerHandoff, HandoffValid, At, Goto, disk
<1>3. CASE Assembled
  BY <1>3, FilesTyped DEF Assembled, At, Goto, disk
<1>4. CASE AssemblyFails
  BY <1>4, FilesTyped DEF AssemblyFails, At, Goto, disk
<1>5. CASE RestorePersistedState
  BY <1>5, <1>c, <1>d, FilesTyped DEF RestorePersistedState, StartupPending, Kept, At, Goto, disk
<1>6. CASE ConfirmStartup
  BY <1>6, <1>b, FilesTyped DEF ConfirmStartup, At, Goto, disk
<1>7. CASE RetirePrevious
  BY <1>7, FilesTyped DEF RetirePrevious, At, Goto, disk
<1>8. CASE ApplyDesiredState
  BY <1>8, <1>b, <1>c, <1>d, FilesTyped DEF ApplyDesiredState, At, disk
<1>9. CASE StartNodeRelease
  BY <1>9, FilesTyped DEF StartNodeRelease, At, Goto, disk
<1>10. CASE AcceptChunk
  BY <1>10, FilesTyped DEF AcceptChunk, At, Goto, disk
<1>11. CASE Commit
  BY <1>11, FilesTyped DEF Commit, Complete, At, Goto, disk
<1>12. CASE CheckCandidate
  BY <1>12, FilesTyped DEF CheckCandidate, CandidateReady, EndSession, At, Goto, disk
<1>13. CASE Preserve
  BY <1>13, <1>b, FilesTyped DEF Preserve, EndSession, At, Goto, disk
<1>14. CASE WriteRecord
  BY <1>14, FilesTyped DEF WriteRecord, At, Goto, disk
<1>15. CASE Install
  BY <1>15, <1>b, FilesTyped DEF Install, Kept, At, Goto, disk
<1>16. CASE UndoPrevious
  BY <1>16, FilesTyped DEF UndoPrevious, EndSession, At, Goto, disk
<1>17. CASE UndoInstall
  BY <1>17, <1>b, FilesTyped DEF UndoInstall, RestoreNodeBinary, EndSession, At, Goto, disk
<1>18. CASE UndoRecord
  BY <1>18, FilesTyped DEF UndoRecord, EndSession, At, Goto, disk
<1>19. CASE Drain
  BY <1>19, <1>e, FilesTyped DEF Drain, At, Goto, disk
<1>20. CASE ExecRestore
  BY <1>20, <1>b, FilesTyped DEF ExecRestore, RestoreNodeBinary, Die, At, Goto, disk
<1>21. CASE RollbackStartup
  BY <1>21, FilesTyped DEF RollbackStartup, StartupPending, RestoreNodeBinary, Die, At, Goto, disk
<1>22. CASE ReexecRestored
  BY <1>22, <1>e, FilesTyped DEF ReexecRestored, Die, At, Goto, disk
<1>23. CASE LoseSession
  BY <1>23, FilesTyped DEF LoseSession, EndSession, At, Goto, disk
<1>24. CASE Crash
  BY <1>24, FilesTyped DEF Crash, Die, At, Goto, disk
<1>25. CASE SpoilState
  BY <1>25, FilesTyped DEF SpoilState, At, Goto, disk
<1>26. CASE \E i \in Images : Advertise(i)
  BY <1>26, FilesTyped DEF Advertise, disk
<1>27. CASE UNCHANGED vars
  BY <1>27, FilesTyped DEF vars
<1> QED
  BY <1>1, <1>2, <1>3, <1>4, <1>5, <1>6, <1>7, <1>8, <1>9, <1>10, <1>11, <1>12, <1>13, <1>14, <1>15,
     <1>16, <1>17, <1>18, <1>19, <1>20, <1>21, <1>22, <1>23, <1>24, <1>25, <1>26, <1>27 DEF Next,
     Step

(* Every step keeps the types.                                             *)
LEMMA TypeStep ==
  ASSUME TypeOK, IInv, [Next]_vars
  PROVE  TypeOK'
<1>1. FilesTyped /\ BoundsTyped /\ served \in BOOLEAN BY TypeParts
<1>2. desired \in Images BY <1>1 DEF BoundsTyped
<1>3. FilesTyped' /\ BoundsTyped' /\ served' \in BOOLEAN BY <1>1, <1>2, FilesStep, BoundsStep, ServedStep
<1> QED BY <1>3 DEF TypeOK, FilesTyped, BoundsTyped

-----------------------------------------------------------------------------
(* The inductive invariant.                                                *)
LEMMA InvInit == Init => IInv
BY ConstantFacts DEF Init, IInv, Always, Linked, ImageRuns, ConfirmedIsProven, FilesUsable, RecordHasLink,
   RecordIsPending, CandidateIsOther, InstallOrder, RunningPcs, ConfirmedPcs, Pcs, NoTransfer

(* The candidate, the confirmation and the files of every step.            *)
LEMMA AlwaysStep ==
  ASSUME TypeOK, Always, [Next]_vars
  PROVE  Always'
<1> USE ConstantFacts
<1> USE DEF Always, ConfirmedIsProven, CandidateIsOther, FilesUsable, ConfirmedPcs, Pcs
<1>1. CASE Boot
  BY <1>1, TypeOK, Always DEF Boot, Begin, ReadPendingUpgradeRecord, TypeOK, Process, Transfer, At,
     Goto, disk, bounds
<1>2. CASE ConsumeListenerHandoff
  BY <1>2, TypeOK, Always DEF ConsumeListenerHandoff, HandoffValid, TypeOK, Process, Transfer, At,
     Goto, disk, bounds
<1>3. CASE Assembled
  BY <1>3, TypeOK, Always DEF Assembled, TypeOK, Process, Transfer, At, Goto, disk, bounds
<1>4. CASE AssemblyFails
  BY <1>4, TypeOK, Always DEF AssemblyFails, TypeOK, Process, Transfer, At, Goto, disk, bounds
<1>5. CASE RestorePersistedState
  BY <1>5, TypeOK, Always DEF RestorePersistedState, StartupPending, Accept, ActivationFails, Kept,
     TypeOK, Process, Transfer, At, Goto, disk, bounds
<1>6. CASE ConfirmStartup
  <2>0. run.pc = "confirm" /\ proven' = proven \cup {run.image} /\ UNCHANGED <<binary, previous, transfer>>
    BY <1>6 DEF ConfirmStartup, At
  <2>1. CASE /\ run' = [run EXCEPT !.pc = "retire", !.confirmed = TRUE]
             /\ record' = IF run.upgrade THEN None ELSE record
    BY <2>0, <2>1, TypeOK, Always, SMTT(30) DEF TypeOK, Process, Transfer
  <2>2. CASE run' = [run EXCEPT !.pc = "session", !.confirmed = TRUE] /\ record' = record
    BY <2>0, <2>2, TypeOK, Always, SMTT(30) DEF TypeOK, Process, Transfer
  <2> QED BY <1>6, <2>1, <2>2 DEF ConfirmStartup
<1>7. CASE RetirePrevious
  <2>0. run.pc = "retire" /\ previous' \in {None, previous} /\ UNCHANGED <<binary, transfer, proven>>
    BY <1>7 DEF RetirePrevious, At
  <2>1. CASE run' = [run EXCEPT !.pc = "session", !.upgrade = FALSE]
    BY <2>0, <2>1, TypeOK, Always DEF TypeOK, Process
  <2>2. CASE Goto("session")
    BY <2>0, <2>2, TypeOK, Always DEF TypeOK, Process, Goto
  <2> QED BY <1>7, <2>1, <2>2 DEF RetirePrevious
<1>8. CASE ApplyDesiredState
  BY <1>8, TypeOK, Always DEF ApplyDesiredState, Accept, ActivationFails, TypeOK, Process, Transfer,
     At, Goto, disk, bounds
<1>9. CASE StartNodeRelease
  BY <1>9, TypeOK, Always DEF StartNodeRelease, NoTransfer, TypeOK, Process, Transfer, At, Goto,
     disk, bounds
<1>10. CASE AcceptChunk
  BY <1>10, TypeOK, Always DEF AcceptChunk, TypeOK, Process, Transfer, At, Goto, disk, bounds
<1>11. CASE Commit
  BY <1>11, TypeOK, Always DEF Commit, Complete, TypeOK, Process, Transfer, At, Goto, disk, bounds
<1>12. CASE CheckCandidate
  BY <1>12, TypeOK, Always DEF CheckCandidate, CandidateReady, EndSession, NoTransfer, TypeOK,
     Process, Transfer, At, Goto, disk, bounds
<1>13. CASE Preserve
  BY <1>13, TypeOK, Always DEF Preserve, EndSession, NoTransfer, TypeOK, Process, Transfer, At,
     Goto, disk, bounds
<1>14. CASE WriteRecord
  BY <1>14, TypeOK, Always DEF WriteRecord, TypeOK, Process, Transfer, At, Goto, disk, bounds
<1>15. CASE Install
  BY <1>15, TypeOK, Always DEF Install, NoTransfer, Kept, TypeOK, Process, Transfer, At, Goto, disk,
     bounds
<1>16. CASE UndoPrevious
  BY <1>16, TypeOK, Always DEF UndoPrevious, EndSession, NoTransfer, TypeOK, Process, Transfer, At,
     Goto, disk, bounds
<1>17. CASE UndoInstall
  BY <1>17, TypeOK, Always DEF UndoInstall, RestoreNodeBinary, EndSession, NoTransfer, TypeOK,
     Process, Transfer, At, Goto, disk, bounds
<1>18. CASE UndoRecord
  BY <1>18, TypeOK, Always DEF UndoRecord, EndSession, NoTransfer, TypeOK, Process, Transfer, At,
     Goto, disk, bounds
<1>19. CASE Drain
  BY <1>19, TypeOK, Always DEF Drain, ReexecWithListeners, Begin, ReadPendingUpgradeRecord,
     Inherited, TypeOK, Process, Transfer, At, Goto, disk, bounds
<1>20. CASE ExecRestore
  BY <1>20, TypeOK, Always DEF ExecRestore, RestoreNodeBinary, Die, TypeOK, Process, Transfer, At,
     Goto, disk, bounds
<1>21. CASE RollbackStartup
  BY <1>21, TypeOK, Always DEF RollbackStartup, StartupPending, RestoreNodeBinary, Die, TypeOK,
     Process, Transfer, At, Goto, disk, bounds
<1>22. CASE ReexecRestored
  <2>1. CASE record' = None /\ ReexecWithListeners(None)
    <3>1. PICK w \in Workers : Begin(w, None) BY <2>1, TypeOK DEF ReexecWithListeners, TypeOK, Process
    <3> QED BY <1>22, <2>1, <3>1, TypeOK, Always DEF ReexecRestored, Begin, ReadPendingUpgradeRecord, TypeOK
  <2>2. CASE Die /\ record' \in {None, record}
    BY <1>22, <2>2, TypeOK, Always DEF ReexecRestored, Die, TypeOK, Process, Goto
  <2> QED BY <1>22, <2>1, <2>2 DEF ReexecRestored
<1>23. CASE LoseSession
  BY <1>23, TypeOK, Always DEF LoseSession, EndSession, NoTransfer, TypeOK, Process, Transfer, At,
     Goto, disk, bounds
<1>24. CASE Crash
  BY <1>24, TypeOK, Always DEF Crash, Die, NoTransfer, TypeOK, Process, Transfer, At, Goto, disk,
     bounds
<1>25. CASE SpoilState
  BY <1>25, TypeOK, Always DEF SpoilState, TypeOK, Process, Transfer, At, Goto, disk, bounds
<1>26. CASE \E i \in Images : Advertise(i)
  BY <1>26, TypeOK, Always DEF Advertise, TypeOK, Process, Transfer, disk
<1>27. CASE UNCHANGED vars
  BY <1>27, Always DEF vars
<1> QED
  BY <1>1, <1>2, <1>3, <1>4, <1>5, <1>6, <1>7, <1>8, <1>9, <1>10, <1>11, <1>12, <1>13, <1>14, <1>15,
     <1>16, <1>17, <1>18, <1>19, <1>20, <1>21, <1>22, <1>23, <1>24, <1>25, <1>26, <1>27 DEF Next,
     Step

(* The record and the link, step by step, while the fallback is kept.      *)
LEMMA LinkedStep ==
  ASSUME TypeOK, Always, Linked, FallbackKept', [Next]_vars
  PROVE  Linked'
<1> USE ConstantFacts
<1> USE DEF Always, ConfirmedIsProven, CandidateIsOther, FilesUsable, Linked, ImageRuns, RecordHasLink,
            RecordIsPending, InstallOrder, RunningPcs, ConfirmedPcs, Pcs
<1>1. CASE Boot
  BY <1>1, TypeOK, Always, Linked DEF Boot, Begin, ReadPendingUpgradeRecord, TypeOK, Process,
     Transfer, At, Goto, disk, bounds
<1>2. CASE ConsumeListenerHandoff
  BY <1>2, TypeOK, Always, Linked DEF ConsumeListenerHandoff, HandoffValid, TypeOK, Process,
     Transfer, At, Goto, disk, bounds
<1>3. CASE Assembled
  BY <1>3, TypeOK, Always, Linked DEF Assembled, TypeOK, Process, Transfer, At, Goto, disk, bounds
<1>4. CASE AssemblyFails
  BY <1>4, TypeOK, Always, Linked DEF AssemblyFails, TypeOK, Process, Transfer, At, Goto, disk,
     bounds
<1>5. CASE RestorePersistedState
  BY <1>5, TypeOK, Always, Linked DEF RestorePersistedState, StartupPending, Accept,
     ActivationFails, Kept, TypeOK, Process, Transfer, At, Goto, disk, bounds
<1>6. CASE ConfirmStartup
  <2>0. run.pc = "confirm" /\ proven' = proven \cup {run.image} /\ UNCHANGED <<binary, previous, transfer>>
    BY <1>6 DEF ConfirmStartup, At
  <2>1. CASE /\ run' = [run EXCEPT !.pc = "retire", !.confirmed = TRUE]
             /\ record' = IF run.upgrade THEN None ELSE record
    BY <2>0, <2>1, TypeOK, Always, Linked, SMTT(30) DEF TypeOK, Process, Transfer
  <2>2. CASE run' = [run EXCEPT !.pc = "session", !.confirmed = TRUE] /\ record' = record
    BY <2>0, <2>2, TypeOK, Always, Linked, SMTT(30) DEF TypeOK, Process, Transfer
  <2> QED BY <1>6, <2>1, <2>2 DEF ConfirmStartup
<1>7. CASE RetirePrevious
  BY <1>7, TypeOK, Always, Linked DEF RetirePrevious, TypeOK, Process, Transfer, At, Goto, disk,
     bounds
<1>8. CASE ApplyDesiredState
  BY <1>8, TypeOK, Always, Linked DEF ApplyDesiredState, Accept, ActivationFails, TypeOK, Process,
     Transfer, At, Goto, disk, bounds
<1>9. CASE StartNodeRelease
  BY <1>9, TypeOK, Always, Linked DEF StartNodeRelease, NoTransfer, TypeOK, Process, Transfer, At,
     Goto, disk, bounds
<1>10. CASE AcceptChunk
  BY <1>10, TypeOK, Always, Linked DEF AcceptChunk, TypeOK, Process, Transfer, At, Goto, disk,
     bounds
<1>11. CASE Commit
  BY <1>11, TypeOK, Always, Linked DEF Commit, Complete, TypeOK, Process, Transfer, At, Goto, disk,
     bounds
<1>12. CASE CheckCandidate
  BY <1>12, TypeOK, Always, Linked DEF CheckCandidate, CandidateReady, EndSession, NoTransfer,
     TypeOK, Process, Transfer, At, Goto, disk, bounds
<1>13. CASE Preserve
  BY <1>13, TypeOK, Always, Linked DEF Preserve, EndSession, NoTransfer, TypeOK, Process, Transfer,
     At, Goto, disk, bounds
<1>14. CASE WriteRecord
  BY <1>14, TypeOK, Always, Linked DEF WriteRecord, TypeOK, Process, Transfer, At, Goto, disk,
     bounds
<1>15. CASE Install
  BY <1>15, TypeOK, Always, Linked DEF Install, NoTransfer, Kept, TypeOK, Process, Transfer, At,
     Goto, disk, bounds
<1>16. CASE UndoPrevious
  BY <1>16, TypeOK, Always, Linked DEF UndoPrevious, EndSession, NoTransfer, TypeOK, Process,
     Transfer, At, Goto, disk, bounds
<1>17. CASE UndoInstall
  <2>1. ~Fault("undo") BY DEF Fault, FallbackKept, Remembered
  <2> QED
    BY <1>17, <2>1, TypeOK, Always, Linked DEF UndoInstall, RestoreNodeBinary, TypeOK, Process, Transfer, At,
       Goto, bounds
<1>18. CASE UndoRecord
  BY <1>18, TypeOK, Always, Linked DEF UndoRecord, EndSession, NoTransfer, TypeOK, Process,
     Transfer, At, Goto, disk, bounds
<1>19. CASE Drain
  BY <1>19, TypeOK, Always, Linked DEF Drain, ReexecWithListeners, Begin, ReadPendingUpgradeRecord,
     Inherited, TypeOK, Process, Transfer, At, Goto, disk, bounds
<1>20. CASE ExecRestore
  BY <1>20, TypeOK, Always, Linked DEF ExecRestore, RestoreNodeBinary, Die, TypeOK, Process,
     Transfer, At, Goto, disk, bounds
<1>21. CASE RollbackStartup
  BY <1>21, TypeOK, Always, Linked DEF RollbackStartup, StartupPending, RestoreNodeBinary, Die,
     TypeOK, Process, Transfer, At, Goto, disk, bounds
<1>22. CASE ReexecRestored
  <2>1. CASE record' = None /\ ReexecWithListeners(None)
    <3>1. PICK w \in Workers : Begin(w, None) BY <2>1, TypeOK DEF ReexecWithListeners, TypeOK, Process
    <3> QED BY <1>22, <2>1, <3>1, TypeOK, Always, Linked DEF ReexecRestored, Begin, ReadPendingUpgradeRecord, TypeOK
  <2>2. CASE Die /\ record' \in {None, record}
    BY <1>22, <2>2, TypeOK, Always, Linked DEF ReexecRestored, Die, TypeOK, Process, Goto
  <2> QED BY <1>22, <2>1, <2>2 DEF ReexecRestored
<1>23. CASE LoseSession
  BY <1>23, TypeOK, Always, Linked DEF LoseSession, EndSession, NoTransfer, TypeOK, Process,
     Transfer, At, Goto, disk, bounds
<1>24. CASE Crash
  BY <1>24, TypeOK, Always, Linked DEF Crash, Die, NoTransfer, TypeOK, Process, Transfer, At, Goto,
     disk, bounds
<1>25. CASE SpoilState
  BY <1>25, TypeOK, Always, Linked DEF SpoilState, TypeOK, Process, Transfer, At, Goto, disk, bounds
<1>26. CASE \E i \in Images : Advertise(i)
  BY <1>26, TypeOK, Always, Linked DEF Advertise, TypeOK, Process, Transfer, disk
<1>27. CASE UNCHANGED vars
  BY <1>27, Linked DEF vars
<1> QED
  BY <1>1, <1>2, <1>3, <1>4, <1>5, <1>6, <1>7, <1>8, <1>9, <1>10, <1>11, <1>12, <1>13, <1>14, <1>15,
     <1>16, <1>17, <1>18, <1>19, <1>20, <1>21, <1>22, <1>23, <1>24, <1>25, <1>26, <1>27 DEF Next,
     Step

(* Every step keeps the inductive invariant.                               *)
LEMMA InvStep ==
  ASSUME TypeOK, IInv, [Next]_vars
  PROVE  IInv'
<1>1. Always' BY AlwaysStep DEF IInv
<1>2. FallbackKept' => Linked' BY KeptStep, LinkedStep DEF IInv
<1> QED BY <1>1, <1>2 DEF IInv

-----------------------------------------------------------------------------
(* The files, the process and its sockets keep their types: no rollback    *)
(* renames a link that is not there, no process runs what is no image.     *)
THEOREM UpdateTypeCorrect == Spec => []TypeOK
<1>1. Init => TypeOK /\ IInv BY TypeInit, InvInit
<1>2. TypeOK /\ IInv /\ [Next]_vars => (TypeOK /\ IInv)' BY TypeStep, InvStep
<1> QED BY <1>1, <1>2, PTL DEF Spec

(* The inductive invariant holds in every reachable state.                 *)
LEMMA InvHolds == Spec => []IInv
<1>1. Init => TypeOK /\ IInv BY TypeInit, InvInit
<1>2. TypeOK /\ IInv /\ [Next]_vars => (TypeOK /\ IInv)' BY TypeStep, InvStep
<1> QED BY <1>1, <1>2, PTL DEF Spec

(* A binary that never restored this node's state is named by the record   *)
(* and has a proven image in the link, whatever else fails and wherever    *)
(* the node crashes (self_updater::commit, rollback of main), unless an    *)
(* installed binary could not be renamed back.                             *)
THEOREM FallbackHolds == Spec => []UnprovenHasFallback
<1>1. IInv => UnprovenHasFallback BY DEF IInv, Linked, RecordHasLink, UnprovenHasFallback
<1> QED BY <1>1, InvHolds, PTL

(* Only images that answered --check-upgrade ever get to the binary path.  *)
THEOREM BinaryIsChecked == Spec => []OnlyCheckedBinary
<1>1. IInv => OnlyCheckedBinary BY DEF IInv, Always, FilesUsable, OnlyCheckedBinary
<1> QED BY <1>1, InvHolds, PTL

(* An unconfirmed upgrade never falls back to itself or to nothing.        *)
THEOREM PendingHasOther == Spec => []PendingFallsElsewhere
<1>1. TypeOK /\ IInv => PendingFallsElsewhere
  BY DEF IInv, Always, Linked, TypeOK, Process, Pcs, PendingFallsElsewhere, StartupPending, RunningPcs,
     ConfirmedPcs, ImageRuns, ConfirmedIsProven, RecordIsPending, RecordHasLink
<1> QED BY <1>1, UpdateTypeCorrect, InvHolds, PTL

(* Sockets handed on are one per worker of the process that gets them, as  *)
(* long as nothing cost the chain of execs a listener.                     *)
SocketsMatch ==
  losses \cap Unbinding = {} /\ sockets.phase # "closed" => sockets.per = run.workers

(* Every step of a running process keeps its worker count.                 *)
SameProcess ==
  \/ run' = run
  \/ \E pc : Goto(pc) \/ run' = [run EXCEPT !.pc = pc, !.confirmed = TRUE]
                     \/ run' = [run EXCEPT !.pc = pc, !.upgrade = FALSE]

(* What a step may do to the sockets.                                      *)
LEMMA SocketMoves ==
  ASSUME [Next]_vars
  PROVE  \/ Fault("assembly") \/ (\E ph : ActivationFails(ph)) \/ Die
         \/ ConsumeListenerHandoff \/ Boot
         \/ UNCHANGED served /\ \E pending : ReexecWithListeners(pending)
         \/ SameProcess /\ Accept
         \/ SameProcess /\ UNCHANGED served /\ sockets' \in {sockets, Kept}
BY Zenon DEF vars, SameProcess, Next, Step, Assembled, AssemblyFails, RestorePersistedState, ConfirmStartup,
   RetirePrevious, ApplyDesiredState, StartNodeRelease, AcceptChunk, Commit, CheckCandidate, Preserve,
   WriteRecord, Install, EndSession, UndoPrevious, UndoInstall, UndoRecord, Drain, ExecRestore,
   RollbackStartup, ReexecRestored, LoseSession, Crash, SpoilState, Advertise

(* A loss of listeners is forgotten only when connections are accepted.    *)
LEMMA LossesStep ==
  ASSUME [Next]_vars, losses' \cap Unbinding = {}
  PROVE  losses \cap Unbinding = {} \/ Accept
<1>1. CASE UNCHANGED bounds BY <1>1 DEF bounds
<1>2. CASE \E kind : Fault(kind) BY <1>2 DEF Fault
<1>3. CASE \E i \in Images : Advertise(i) BY <1>3 DEF Advertise
<1> QED BY <1>1, <1>2, <1>3, BoundsMoves

(* One step, without a fault that costs a listener.                        *)
LEMMA SocketsStep ==
  ASSUME TypeOK, SocketsMatch, ListenersStay, [Next]_vars
  PROVE  SocketsMatch' /\ ListenersStay'
<1> SUFFICES ASSUME losses' \cap Unbinding = {} PROVE SocketsMatch' /\ ListenersStay'
  BY Zenon DEF SocketsMatch, ListenersStay
<1>a. sockets \in Listeners /\ run \in Process BY Zenon DEF TypeOK
<1>b. ASSUME NEW kind \in Unbinding PROVE ~Fault(kind) BY <1>b DEF Fault, Remembered
<1>c. SameProcess => run'.workers = run.workers BY <1>a DEF SameProcess, Goto, Process
<1>d. ASSUME losses \cap Unbinding = {}, (served' => served), run'.workers = run.workers, sockets'.per = sockets.per,
             sockets'.phase = "closed" <=> sockets.phase = "closed"
      PROVE  SocketsMatch' /\ ListenersStay'
  <2>1. SocketsMatch' BY <1>d DEF SocketsMatch
  <2>2. ListenersStay' BY <1>d, Zenon DEF ListenersStay
  <2> QED BY <2>1, <2>2
<1>1. CASE Fault("assembly") BY <1>1, <1>b DEF Unbinding
<1>2. CASE \E ph : ActivationFails(ph) BY <1>2, <1>b DEF ActivationFails, Unbinding
<1>3. CASE Die
  <2>1. ~served' BY <1>3, Zenon DEF Die
  <2>2. sockets'.phase = "closed" BY <1>3 DEF Die, Closed
  <2> QED BY <2>1, <2>2, Zenon DEF SocketsMatch, ListenersStay
<1>4. CASE SameProcess /\ Accept
  <2>1. sockets'.phase = "accepting" /\ sockets'.per = run'.workers BY <1>4, <1>c DEF Accept
  <2>2. sockets'.phase # "closed" BY <2>1
  <2> QED BY <2>1, <2>2, Zenon DEF SocketsMatch, ListenersStay
<1>5. CASE ConsumeListenerHandoff
  <2>1. losses \cap Unbinding = {} BY <1>5 DEF ConsumeListenerHandoff, bounds
  <2>2. HandoffValid BY <2>1 DEF HandoffValid, SocketsMatch
  <2>3. (served' => served) /\ Goto("assembled") BY <1>5, <2>2, Zenon DEF ConsumeListenerHandoff
  <2>4. run'.workers = run.workers BY <2>3, <1>a DEF Goto, Process
  <2>5. sockets' = IF sockets.phase = "inherited" THEN [sockets EXCEPT !.phase = "queued"] ELSE sockets
    BY <1>5, <2>2, Zenon DEF ConsumeListenerHandoff
  <2>6. sockets'.per = sockets.per /\ (sockets'.phase = "closed" <=> sockets.phase = "closed")
    BY <2>5, <1>a DEF Listeners
  <2> QED BY <1>d, <2>1, <2>3, <2>4, <2>6
<1>6. CASE Boot
  <2>1. losses \cap Unbinding = {} BY <1>6 DEF Boot, bounds
  <2>2. (served' => served) /\ sockets' = sockets BY <1>6, Zenon DEF Boot
  <2>3. run'.workers = run.workers BY <1>6 DEF Boot, Begin
  <2> QED BY <1>d, <2>1, <2>2, <2>3
<1>7. CASE UNCHANGED served /\ \E pending : ReexecWithListeners(pending)
  <2>1. losses \cap Unbinding = {} BY <1>7 DEF ReexecWithListeners, Fault, bounds
  <2>2. sockets' = Inherited /\ (served' => served) BY <1>7, Zenon DEF ReexecWithListeners
  <2>3. \E pending : Begin(run.workers, pending) BY <1>7, <1>b DEF ReexecWithListeners, Unbinding
  <2>4. run'.workers = run.workers BY <2>3 DEF Begin
  <2>5. sockets'.per = sockets.per /\ (sockets'.phase = "closed" <=> sockets.phase = "closed")
    BY <2>2, <1>a DEF Inherited, Listeners
  <2> QED BY <1>d, <2>1, <2>2, <2>4, <2>5
<1>8. CASE ~Accept /\ SameProcess /\ UNCHANGED served /\ sockets' \in {sockets, Kept}
  <2>1. losses \cap Unbinding = {} BY <1>8, LossesStep
  <2>2. sockets'.per = sockets.per /\ (sockets'.phase = "closed" <=> sockets.phase = "closed")
    BY <1>8, <1>a DEF Kept, Listeners
  <2>3. served' => served BY <1>8, Zenon
  <2> QED BY <1>8, <1>c, <1>d, <2>1, <2>2, <2>3
<1> QED BY <1>1, <1>2, <1>3, <1>4, <1>5, <1>6, <1>7, <1>8, SocketMoves

(* Once a chain of execs has accepted connections, its listening sockets   *)
(* stay open through restart, failed exec and rollback: only a changed     *)
(* worker count, a process main could not assemble or a failed activation  *)
(* can cost it one.                                                        *)
THEOREM ListenersSurvive == Spec => []ListenersStay
<1>1. Init => SocketsMatch BY DEF Init, SocketsMatch, Closed
<1>2. Init => ListenersStay BY Zenon DEF Init, ListenersStay
<1>3. TypeOK /\ SocketsMatch /\ ListenersStay /\ [Next]_vars => (SocketsMatch /\ ListenersStay)' BY SocketsStep
<1> QED BY <1>1, <1>2, <1>3, UpdateTypeCorrect, PTL DEF Spec

(***************************************************************************)
(* The origin health of a data worker says what the outcomes say and       *)
(* belongs to the settings in force.                                       *)
(*                                                                         *)
(* An entry keeps only the last outcome and the length of the run it ends; *)
(* both are what the entry's history ends with, so one more outcome        *)
(* reaches its threshold exactly when the run in the history does.  A      *)
(* configuration, active, prepared or displaced, is paired with            *)
(* memberships made for its settings, so exchanging the two keeps every    *)
(* entry with its own settings, and the probes cancelled with the exchange *)
(* are the only ones that could have recorded under others.                *)
(***************************************************************************)

EntryType == [healthy : BOOLEAN, last : BOOLEAN, streak : Nat, checked : BOOLEAN, probed : BOOLEAN,
              version : Versions]
Given == [ok : BOOLEAN, version : Nat]

(* Whether the last r outcomes of h, and no more of them, are alike.       *)
IsRun(h, r) ==
  /\ r \in Nat /\ r <= Len(h) /\ (Len(h) # 0 => r # 0)
  /\ \A n \in (Len(h) + 1 - r)..Len(h) : h[n].ok = h[Len(h)].ok
  /\ r < Len(h) => h[Len(h) - r].ok # h[Len(h)].ok

Follows(e, h) ==
  /\ IsRun(h, e.streak)
  /\ e.last = IF h = <<>> THEN TRUE ELSE h[Len(h)].ok
  /\ Decided(h) # {} => \E m \in Decided(h) : \A n \in Decided(h) : n <= m
  /\ e.healthy = IF Decided(h) = {} THEN TRUE ELSE h[Max(Decided(h))].ok

(* -- What a list of outcomes decides ------------------------------------ *)

\* The length of the run that ends a list.
LEMMA RunIsEnding ==
    ASSUME NEW h \in Seq(Given), Len(h) # 0, NEW r, IsRun(h, r)
    PROVE  RunEnding(h, Len(h)) = r
<1> DEFINE i == Len(h)
           S == {j \in 1..i : \A n \in j..i : h[n].ok = h[i].ok}
           least == i + 1 - r
<1>0. i \in Nat /\ i # 0 OBVIOUS
<1>1. r \in Nat /\ r <= i /\ r # 0 BY DEF IsRun
<1>2. least \in 1..i BY <1>0, <1>1
<1>3. \A n \in least..i : h[n].ok = h[i].ok BY DEF IsRun
<1>4. least \in S BY <1>2, <1>3
<1>5. ASSUME NEW j \in S PROVE least <= j
  <2> SUFFICES ASSUME j < least PROVE FALSE BY <1>2, <1>0
  <2>1. i - r \in j..i /\ r < i BY <1>0, <1>1, <1>2
  <2>2. h[i - r].ok = h[i].ok BY <2>1
  <2> QED BY <2>1, <2>2 DEF IsRun
<1>6. Min(S) = least
  <2> HIDE DEF least
  <2>1. \A y \in S : y \in Nat BY <1>0
  <2> HIDE DEF S
  <2>2. \A x \in S : (\A y \in S : x <= y) => x = least BY <1>4, <1>5, <2>1
  <2> QED BY <1>4, <1>5, <2>1, <2>2 DEF Min
<1> QED BY <1>6, <1>0, <1>1 DEF RunEnding

\* The run one more outcome makes.
LEMMA RunGrows ==
    ASSUME NEW h \in Seq(Given), NEW x \in Given, NEW r, IsRun(h, r), NEW last \in BOOLEAN,
           last = IF h = <<>> THEN TRUE ELSE h[Len(h)].ok
    PROVE  IsRun(Append(h, x), IF x.ok = last THEN r + 1 ELSE 1)
<1> DEFINE g == Append(h, x)
           l == Len(h)
<1>0. l \in Nat /\ (h = <<>> <=> l = 0) OBVIOUS
<1>1. Len(g) = l + 1 /\ g[l + 1] = x /\ \A n \in 1..l : g[n] = h[n] OBVIOUS
<1>2. r \in Nat /\ r <= l /\ (l # 0 => r # 0) BY DEF IsRun
<1>3. l # 0 => last = h[l].ok BY <1>0
<1> HIDE DEF g, l
<1>4. CASE x.ok = last
  <2>1. ASSUME NEW n \in (l + 2 - (r + 1))..(l + 1) PROVE g[n].ok = g[l + 1].ok
    <3>1. n = l + 1 \/ (n \in (l + 1 - r)..l /\ n \in 1..l /\ l # 0) BY <1>0, <1>2
    <3>2. CASE n \in (l + 1 - r)..l /\ n \in 1..l /\ l # 0
      <4>1. h[n].ok = h[l].ok BY <3>2 DEF IsRun, l
      <4> QED BY <4>1, <3>2, <1>1, <1>3, <1>4
    <3> QED BY <3>1, <3>2
  <2>2. ASSUME r + 1 < l + 1 PROVE g[l - r].ok # g[l + 1].ok
    <3>1. l # 0 /\ l - r \in 1..l /\ r < l BY <1>0, <1>2, <2>2
    <3>2. h[l - r].ok # h[l].ok BY <3>1 DEF IsRun, l
    <3> QED BY <3>1, <3>2, <1>1, <1>3, <1>4
  <2>3. r + 1 \in Nat /\ r + 1 <= l + 1 /\ r + 1 # 0 BY <1>0, <1>2
  <2>4. IsRun(g, r + 1)
    <3>1. Len(g) + 1 - (r + 1) = l + 2 - (r + 1) BY <1>0, <1>1, <1>2
    <3>2. \A n \in (Len(g) + 1 - (r + 1))..Len(g) : g[n].ok = g[Len(g)].ok BY <2>1, <3>1, <1>1
    <3>3. ASSUME r + 1 < Len(g) PROVE g[Len(g) - (r + 1)].ok # g[Len(g)].ok
      <4>1. r + 1 < l + 1 /\ Len(g) = l + 1 BY <3>3, <1>1
      <4>2. g[l - r].ok # g[l + 1].ok BY <2>2, <4>1
      <4>3. Len(g) - (r + 1) = l - r BY <4>1, <1>0, <1>2
      <4> QED BY <4>1, <4>2, <4>3
    <3>4. r + 1 <= Len(g) BY <2>3, <1>1
    <3>5. Len(g) # 0 => r + 1 # 0 BY <2>3
    <3> QED BY <2>3, <3>2, <3>3, <3>4, <3>5 DEF IsRun
  <2> QED BY <2>4, <1>4 DEF g
<1>5. CASE x.ok # last
  <2>1. ASSUME 1 < l + 1 PROVE g[l].ok # g[l + 1].ok
    <3>1. l # 0 /\ l \in 1..l BY <1>0, <2>1
    <3>2. g[l] = h[l] BY <3>1, <1>1
    <3> QED BY <3>1, <3>2, <1>1, <1>3, <1>5
  <2>2. IsRun(g, 1)
    <3>1. Len(g) + 1 - 1 = l + 1 /\ Len(g) - 1 = l /\ 1 <= l + 1 BY <1>0, <1>1
    <3>2. \A n \in (l + 1)..(l + 1) : n = l + 1 BY <1>0
    <3> QED BY <2>1, <3>1, <3>2, <1>1 DEF IsRun
  <2> QED BY <2>2, <1>5 DEF g
<1> QED BY <1>4, <1>5

\* What was decided before one more outcome stays decided.
LEMMA DecidedGrows ==
    ASSUME NEW h \in Seq(Given), NEW x \in Given
    PROVE  Decided(Append(h, x)) =
             Decided(h) \cup {i \in {Len(h) + 1} : RunEnding(Append(h, x), i) >= Threshold(x.ok)}
<1> DEFINE g == Append(h, x)
           l == Len(h)
<1>1. l \in Nat /\ Len(g) = l + 1 /\ g[l + 1] = x /\ \A n \in 1..l : g[n] = h[n] OBVIOUS
<1>2. DOMAIN g = 1..(l + 1) /\ DOMAIN h = 1..l OBVIOUS
<1>3. ASSUME NEW i \in 1..l PROVE RunEnding(g, i) = RunEnding(h, i)
  <2>1. \A j \in 1..i : \A n \in j..i : n \in 1..l BY <1>1
  <2>2. {j \in 1..i : \A n \in j..i : g[n].ok = g[i].ok} = {j \in 1..i : \A n \in j..i : h[n].ok = h[i].ok}
    BY <1>1, <1>3, <2>1
  <2> QED BY <2>2 DEF RunEnding
<1> HIDE DEF g, l
<1>4. \A i \in 1..(l + 1) : i \in 1..l \/ i = l + 1 BY <1>1
<1> QED BY <1>1, <1>2, <1>3, <1>4 DEF Decided, g, l

LEMMA RecordFollows ==
    ASSUME NEW h \in Seq(Given), NEW x \in Given, NEW e \in EntryType, Follows(e, h)
    PROVE  Follows(Recorded(e, x.ok), Append(h, x)) /\ Recorded(e, x.ok) \in EntryType
             /\ Recorded(e, x.ok).version = e.version /\ Recorded(e, x.ok).checked = e.checked
<1> DEFINE g == Append(h, x)
           l == Len(h)
           length == IF x.ok = e.last THEN e.streak + 1 ELSE 1
           f == Recorded(e, x.ok)
<1>1. l \in Nat /\ Len(g) = l + 1 /\ g[l + 1] = x /\ (\A n \in 1..l : g[n] = h[n]) /\ g # <<>> OBVIOUS
<1>2. e.last \in BOOLEAN /\ e.streak \in Nat /\ x.ok \in BOOLEAN BY DEF EntryType, Given
<1>3. IsRun(g, length) BY RunGrows, <1>2 DEF Follows
<1>4. g \in Seq(Given) OBVIOUS
<1>5. RunEnding(g, l + 1) = length
  <2> HIDE DEF g, length, l
  <2> QED BY RunIsEnding, <1>1, <1>3, <1>4
<1>6. Threshold(x.ok) \in Nat BY HealthAssumption, <1>2 DEF Threshold
<1>7. length \in Nat BY <1>2
<1>8. Decided(g) = IF length >= Threshold(x.ok) THEN Decided(h) \cup {l + 1} ELSE Decided(h)
  <2>1. Decided(g) = Decided(h) \cup {i \in {l + 1} : RunEnding(g, i) >= Threshold(x.ok)} BY DecidedGrows
  <2> HIDE DEF g, length, l
  <2> QED BY <2>1, <1>5
<1>9. Decided(h) \subseteq 1..l BY DEF Decided
<1>10. f = [e EXCEPT !.last = x.ok, !.streak = length, !.healthy = IF length >= Threshold(x.ok) THEN x.ok ELSE @]
  BY DEF Recorded
<1>11. /\ f.last = x.ok /\ f.streak = length /\ f.version = e.version /\ f.checked = e.checked
       /\ f.healthy = (IF length >= Threshold(x.ok) THEN x.ok ELSE e.healthy) /\ f \in EntryType
  <2> HIDE DEF f, length, g, l
  <2> QED BY <1>10, <1>2, <1>7 DEF EntryType
<1> HIDE DEF f, length, g, l
<1>12. CASE length >= Threshold(x.ok)
  <2>1. Decided(g) = Decided(h) \cup {l + 1} BY <1>8, <1>12
  <2>2. l + 1 \in Decided(g) /\ \A n \in Decided(g) : n <= l + 1 /\ n \in Nat BY <2>1, <1>9, <1>1
  <2>3. \A n \in Decided(g) : (\A o \in Decided(g) : n >= o) => n = l + 1 BY <2>2, <1>1
  <2>4. Max(Decided(g)) = l + 1 BY <2>2, <2>3 DEF Max
  <2>5. f.healthy = g[Max(Decided(g))].ok BY <2>4, <1>1, <1>11, <1>12
  <2>6. Decided(g) # {} BY <2>2
  <2> QED BY <2>2, <2>5, <2>6, <1>1, <1>3, <1>11 DEF Follows, f, g
<1>13. CASE ~(length >= Threshold(x.ok))
  <2>1. Decided(g) = Decided(h) BY <1>8, <1>13
  <2>2. f.healthy = e.healthy BY <1>11, <1>13
  <2>3. ASSUME Decided(h) # {} PROVE g[Max(Decided(h))] = h[Max(Decided(h))]
    <3>1. PICK m \in Decided(h) : \A n \in Decided(h) : n <= m BY <2>3 DEF Follows
    <3>2. \A n \in Decided(h) : m >= n BY <3>1, <1>9, <1>1
    <3>3. Max(Decided(h)) \in Decided(h) BY <3>1, <3>2 DEF Max
    <3> QED BY <3>3, <1>1, <1>9
  <2>4. f.healthy = IF Decided(g) = {} THEN TRUE ELSE g[Max(Decided(g))].ok BY <2>1, <2>2, <2>3 DEF Follows
  <2>5. Decided(g) # {} => \E m \in Decided(g) : \A n \in Decided(g) : n <= m BY <2>1 DEF Follows
  <2> QED BY <2>4, <2>5, <1>1, <1>3, <1>11 DEF Follows, f, g
<1> QED BY <1>12, <1>13, <1>11 DEF f

LEMMA NewFollows == \A v : Follows(Entry(v), <<>>)
<1>1. Decided(<<>>) = {} BY DEF Decided
<1> QED BY <1>1 DEF Follows, IsRun, Entry

(* -- The inductive invariant -------------------------------------------- *)

Life == [started : BOOLEAN, stopped : BOOLEAN, timer : BOOLEAN, completed : BOOLEAN,
         waiter : {"none", "waiting", "resumed"}]
Shown == [id : Nat, healthy : BOOLEAN, checked : BOOLEAN]
ProbeType == [key : Keys \cup {0}, id : Nat, version : Versions \cup {0}, live : BOOLEAN, ops : Nat]
RequestType == [phase : {"idle", "routed", "connected"}, key : Keys \cup {0},
                version : Versions \cup {0}, id : Nat]
ReloadType == [phase : {"none", "prepared", "tentative"}, config : [Keys -> Versions \cup {0}],
               members : [Keys -> Nat]]

HealthTypes ==
  /\ config \in [Keys -> Versions \cup {0}] /\ members \in [Keys -> Nat]
  /\ ent \in Seq(EntryType) /\ hist \in Seq(Seq(Given)) /\ Len(hist) = Len(ent)
  /\ reload \in ReloadType
  /\ published \in [Keys -> Shown] /\ stale \in BOOLEAN
  /\ probe \in [Slots -> ProbeType]
  /\ req \in [Requests -> RequestType]
  /\ \A r \in Requests : req[r].phase # "idle" => req[r].key \in Keys
  /\ life \in Life

(* A configuration and the memberships that go with it: every origin it    *)
(* has is given an entry of its own, made for its settings.                *)
Paired(c, m) ==
  /\ \A k \in Keys : /\ m[k] \in 0..Len(ent) /\ (m[k] = 0 <=> c[k] = 0)
                     /\ m[k] # 0 => ent[m[k]].version = c[k]
  /\ \A j, k \in Keys : m[j] = m[k] /\ j # k => m[j] = 0

AllPaired == Paired(config, members) /\ Paired(reload.config, reload.members)

ProbesOwn ==
  \A s \in Slots : probe[s].live =>
    /\ probe[s].ops # 0 /\ probe[s].id # 0 /\ probe[s].key \in Keys
    /\ members[probe[s].key] = probe[s].id /\ config[probe[s].key] = probe[s].version

AllFollow == \A id \in 1..Len(ent) : Follows(ent[id], hist[id])

HealthInv ==
  /\ HealthTypes /\ AllPaired /\ ProbesOwn /\ AllFollow /\ SnapshotCurrent /\ StaysStopped
  /\ \A k \in Keys : published[k].id \in 0..Len(ent)

LEMMA SettingsAreNumbered == \A v \in Versions \cup {0} : v \in Nat
<1>1. Versions \subseteq Nat BY HealthAssumption, Zenon
<1> QED BY <1>1

(* -- What the steps are made of ----------------------------------------- *)

LEMMA BuildTypes ==
    ASSUME HealthTypes, AllPaired
    PROVE  Build(members, ent) \in [Keys -> Shown] /\ \A k \in Keys : Build(members, ent)[k].id \in 0..Len(ent)
<1>1. \A k \in Keys : members[k] \in 0..Len(ent) /\ (members[k] # 0 => ent[members[k]] \in EntryType)
  BY DEF HealthTypes, AllPaired, Paired
<1> QED BY <1>1 DEF HealthTypes, Build, Shown, EntryType

\* A snapshot shows of an entry its verdict and whether it was checked.
LEMMA BuildSame ==
    ASSUME NEW m, NEW d, NEW e, \A k \in Keys : m[k] # 0 => /\ d[m[k]].healthy = e[m[k]].healthy
                                                          /\ d[m[k]].checked = e[m[k]].checked
    PROVE  Build(m, d) = Build(m, e)
BY DEF Build

\* Cancelled probes only wait for their operations.
LEMMA CancelledProbes ==
    ASSUME HealthTypes, ProbesOwn
    PROVE  /\ Cancelled(probe) \in [Slots -> ProbeType]
           /\ \A s \in Slots : ~Cancelled(probe)[s].live /\ Cancelled(probe)[s].ops = probe[s].ops
           /\ \A s \in Slots : Cancelled(probe)[s].key = probe[s].key /\ Cancelled(probe)[s].id = probe[s].id
           /\ Busy(Cancelled(probe)) = Busy(probe)
<1>1. \A s \in Slots : probe[s] \in ProbeType BY DEF HealthTypes
<1>2. \A s \in Slots : /\ Cancelled(probe)[s] = [probe[s] EXCEPT !.live = FALSE]
                       /\ Cancelled(probe)[s] \in ProbeType
                       /\ ~Cancelled(probe)[s].live /\ Cancelled(probe)[s].ops = probe[s].ops
                       /\ Cancelled(probe)[s].key = probe[s].key /\ Cancelled(probe)[s].id = probe[s].id
  BY <1>1 DEF Cancelled, ProbeType
<1>3. Cancelled(probe) \in [Slots -> ProbeType] BY <1>2 DEF Cancelled
<1>4. ASSUME NEW s \in Slots
      PROVE  (probe[s].live \/ probe[s].ops > 0) <=> (Cancelled(probe)[s].live \/ Cancelled(probe)[s].ops > 0)
  <2>1. probe[s].ops \in Nat /\ probe[s].live \in BOOLEAN BY <1>1 DEF ProbeType
  <2>2. probe[s].live => probe[s].ops > 0 BY <2>1 DEF ProbesOwn
  <2> QED BY <1>2, <2>1, <2>2
<1> QED BY <1>2, <1>3, <1>4 DEF Busy

\* Waiters are told only of a stop that is complete.
LEMMA NotifyKeeps ==
    ASSUME NEW p, NEW l \in Life, l.completed => StopComplete(p, l)
    PROVE  /\ Notify(p, l) \in Life
           /\ Notify(p, l).completed => StopComplete(p, Notify(p, l))
           /\ Notify(p, l).stopped = l.stopped /\ Notify(p, l).timer = l.timer
<1>1. CASE StopComplete(p, l)
  <2>1. PICK w \in {"none", "waiting", "resumed"} : w = IF l.waiter = "waiting" THEN "resumed" ELSE l.waiter
    BY DEF Life
  <2>2. Notify(p, l) = [started |-> l.started, stopped |-> l.stopped, timer |-> l.timer, completed |-> TRUE, waiter |-> w]
    BY <2>1, <1>1 DEF Notify, Life
  <2>3. Notify(p, l) \in Life /\ Notify(p, l).stopped = l.stopped /\ Notify(p, l).timer = l.timer BY <2>2 DEF Life
  <2> QED BY <2>3, <1>1 DEF StopComplete
<1>2. CASE ~StopComplete(p, l)
  <2>1. Notify(p, l) = l BY <1>2 DEF Notify
  <2> QED BY <2>1
<1> QED BY <1>1, <1>2

\* Memberships stay paired while entries keep their settings and none goes.
LEMMA PairedKept ==
    ASSUME Len(ent) \in Nat, Len(ent') \in Nat, Len(ent) <= Len(ent'),
           \A id \in 1..Len(ent) : ent'[id].version = ent[id].version,
           NEW c, NEW m, NEW c1, NEW m1, c1 = c, m1 = m, Paired(c, m)
    PROVE  /\ \A k \in Keys : /\ m1[k] \in 0..Len(ent') /\ (m1[k] = 0 <=> c1[k] = 0)
                              /\ m1[k] # 0 => ent'[m1[k]].version = c1[k]
           /\ \A j, k \in Keys : m1[j] = m1[k] /\ j # k => m1[j] = 0
BY DEF Paired

\* One entry is given one outcome.
LEMMA EntryStep ==
    ASSUME HealthTypes, AllFollow, NEW id \in 1..Len(ent), NEW x \in Given, NEW f \in EntryType,
           Follows(f, Append(hist[id], x)), f.version = ent[id].version,
           ent' = [ent EXCEPT ![id] = f], hist' = [hist EXCEPT ![id] = Append(hist[id], x)]
    PROVE  /\ ent' \in Seq(EntryType) /\ hist' \in Seq(Seq(Given)) /\ Len(hist') = Len(ent')
           /\ Len(ent') = Len(ent) /\ AllFollow'
           /\ \A i \in 1..Len(ent) : ent'[i].version = ent[i].version
<1>1. Len(ent) \in Nat /\ ent \in [1..Len(ent) -> EntryType] BY DEF HealthTypes
<1>2. Len(hist) = Len(ent) /\ hist \in [1..Len(ent) -> Seq(Given)] BY DEF HealthTypes
<1>3. ent' \in [1..Len(ent) -> EntryType] BY <1>1
<1>4. hist' \in [1..Len(ent) -> Seq(Given)] BY <1>2
<1>5. ent' \in Seq(EntryType) /\ Len(ent') = Len(ent) BY <1>1, <1>3
<1>6. hist' \in Seq(Seq(Given)) /\ Len(hist') = Len(ent) BY <1>1, <1>4, SMTT(30)
<1>7. ent'[id] = f /\ hist'[id] = Append(hist[id], x) BY <1>1, <1>2
<1>8. \A i \in 1..Len(ent) : i # id => ent'[i] = ent[i] /\ hist'[i] = hist[i] BY <1>1, <1>2
<1>9. ASSUME NEW i \in 1..Len(ent) PROVE Follows(ent'[i], hist'[i]) /\ ent'[i].version = ent[i].version
  <2>1. CASE i = id BY <2>1, <1>7
  <2>2. CASE i # id BY <2>2, <1>8 DEF AllFollow
  <2> QED BY <2>1, <2>2
<1> QED BY <1>5, <1>6, <1>9 DEF AllFollow

\* What a record leaves of an entry's other fields, checked or not.
LEMMA CheckedFollows ==
    ASSUME NEW e \in EntryType, NEW h, Follows(e, h), NEW c \in BOOLEAN
    PROVE  LET f == [e EXCEPT !.checked = c]
           IN f \in EntryType /\ Follows(f, h) /\ f.version = e.version /\ f.checked = c
<1> DEFINE f == [e EXCEPT !.checked = c]
<1>1. f \in EntryType /\ f.version = e.version /\ f.checked = c /\ f.streak = e.streak /\ f.last = e.last /\ f.healthy = e.healthy
  BY DEF EntryType
<1> HIDE DEF f
<1>2. Follows(f, h) BY <1>1 DEF Follows
<1> QED BY <1>1, <1>2 DEF f

\* Everything but the snapshot, where entries and memberships stay.
LEMMA InvKept ==
    ASSUME HealthInv, HealthTypes', Len(ent') = Len(ent), UNCHANGED <<config, members, reload>>,
           \A i \in 1..Len(ent) : ent'[i].version = ent[i].version
    PROVE  AllPaired'
<1>1. Len(ent) \in Nat BY DEF HealthInv, HealthTypes
<1>2. Len(ent') \in Nat /\ Len(ent) <= Len(ent') BY <1>1
<1>3. Paired(config, members)'
  BY <1>1, <1>2, PairedKept DEF HealthInv, AllPaired, Paired
<1>4. Paired(reload.config, reload.members)'
  BY <1>1, <1>2, PairedKept DEF HealthInv, AllPaired, Paired
<1> QED BY <1>3, <1>4 DEF AllPaired

LEMMA HealthStarts == HealthInit => HealthInv
<1> SUFFICES ASSUME HealthInit PROVE HealthInv OBVIOUS
<1> USE DEF HealthInit
<1>1. config \in [Keys -> Versions \cup {0}] /\ members \in [Keys -> Nat] OBVIOUS
<1>2. ent \in Seq(EntryType) /\ hist \in Seq(Seq(Given)) /\ Len(ent) = 0 /\ Len(hist) = 0 OBVIOUS
<1>3. reload \in ReloadType BY DEF NoReload, ReloadType
<1>4. published \in [Keys -> Shown] /\ \A k \in Keys : published[k].id = 0 BY DEF Build, Shown
<1>5. probe \in [Slots -> ProbeType] BY DEF NoProbe, ProbeType
<1>6. req \in [Requests -> RequestType] /\ \A r \in Requests : req[r].phase = "idle" BY DEF NoRequest, RequestType
<1>7. life \in Life BY DEF Life
<1>8. HealthTypes BY <1>1, <1>2, <1>3, <1>4, <1>5, <1>6, <1>7 DEF HealthTypes
<1>9. AllPaired BY <1>2 DEF AllPaired, Paired, NoReload
<1>10. ProbesOwn BY DEF ProbesOwn, NoProbe
<1>11. AllFollow BY <1>2 DEF AllFollow
<1>12. SnapshotCurrent BY DEF SnapshotCurrent
<1>13. StaysStopped BY DEF StaysStopped
<1> QED BY <1>2, <1>4, <1>8, <1>9, <1>10, <1>11, <1>12, <1>13 DEF HealthInv

(* -- Requests keep it --------------------------------------------------- *)

\* A request that is routed or connected reads the snapshot, rebuilt if need be.
LEMMA ReadsKeep ==
    ASSUME HealthInv, published' = Refresh, stale' = FALSE, req' \in [Requests -> RequestType],
           \A r \in Requests : req'[r].phase # "idle" => req'[r].key \in Keys,
           UNCHANGED <<config, members, ent, reload, probe, life, hist>>
    PROVE  HealthInv'
<1>1. published' \in [Keys -> Shown] /\ \A k \in Keys : published'[k].id \in 0..Len(ent)
  BY BuildTypes DEF HealthInv, HealthTypes, Refresh
<1>2. HealthTypes' BY <1>1 DEF HealthInv, HealthTypes
<1>3. AllPaired' /\ ProbesOwn' /\ AllFollow' BY DEF HealthInv, AllPaired, Paired, ProbesOwn, AllFollow
<1>4. SnapshotCurrent'
  <2>1. CASE stale
    <3>1. published' = Build(members, ent)' BY <2>1 DEF Refresh, Build
    <3> QED BY <3>1 DEF SnapshotCurrent
  <2>2. CASE ~stale
    <3>1. published' = published BY <2>2 DEF Refresh
    <3> QED BY <3>1, <2>2 DEF HealthInv, SnapshotCurrent, Build
  <2> QED BY <2>1, <2>2
<1>5. StaysStopped' BY DEF HealthInv, StaysStopped, Busy
<1> QED BY <1>1, <1>2, <1>3, <1>4, <1>5 DEF HealthInv

LEMMA RouteKeeps == ASSUME HealthInv, NEW r \in Requests, Route(r) PROVE HealthInv'
<1>1. PICK k \in Keys : req' = [req EXCEPT ![r] = [phase |-> "routed", key |-> k, version |-> config[k], id |-> 0]]
  BY DEF Route
<1> DEFINE new == [phase |-> "routed", key |-> k, version |-> config[k], id |-> 0]
<1>2. new \in RequestType /\ new.key \in Keys BY DEF HealthInv, HealthTypes, RequestType
<1> HIDE DEF new
<1>3. req \in [Requests -> RequestType] /\ \A q \in Requests : req[q].phase # "idle" => req[q].key \in Keys
  BY DEF HealthInv, HealthTypes
<1>4. req' \in [Requests -> RequestType] /\ \A q \in Requests : req'[q].phase # "idle" => req'[q].key \in Keys
  <2>1. req' = [req EXCEPT ![r] = new] BY <1>1 DEF new
  <2> QED BY <2>1, <1>2, <1>3
<1> QED BY <1>4, ReadsKeep DEF Route

LEMMA ConnectKeeps == ASSUME HealthInv, NEW r \in Requests, Connect(r) PROVE HealthInv'
<1>1. req \in [Requests -> RequestType] /\ \A q \in Requests : req[q].phase # "idle" => req[q].key \in Keys
  BY DEF HealthInv, HealthTypes
<1>2. req[r].key \in Keys BY <1>1 DEF Connect
<1>3. published' \in [Keys -> Shown] BY BuildTypes DEF HealthInv, HealthTypes, Refresh, Connect
<1>4. PICK id \in Nat : id = published'[req[r].key].id BY <1>2, <1>3 DEF Shown
<1>5. req' = [req EXCEPT ![r].phase = "connected", ![r].id = id] BY <1>4 DEF Connect
<1>6. req' \in [Requests -> RequestType] BY <1>1, <1>5 DEF RequestType
<1>7. ASSUME NEW q \in Requests PROVE req'[q].phase # "idle" => req'[q].key \in Keys
  <2>1. CASE q = r
    <3>1. req'[r].key = req[r].key BY <1>1, <1>5 DEF RequestType
    <3> QED BY <2>1, <3>1, <1>2
  <2>2. CASE q # r BY <2>2, <1>1, <1>5
  <2> QED BY <2>1, <2>2
<1> QED BY <1>6, <1>7, ReadsKeep DEF Connect

\* A request that ends, with nothing recorded.
LEMMA EndKeeps ==
    ASSUME HealthInv, NEW r \in Requests, req' = [req EXCEPT ![r] = NoRequest],
           UNCHANGED <<config, members, ent, reload, published, stale, probe, life, hist>>
    PROVE  HealthInv'
<1>1. NoRequest \in RequestType /\ NoRequest.phase = "idle" BY DEF NoRequest, RequestType
<1>2. req' \in [Requests -> RequestType] /\ \A q \in Requests : req'[q].phase # "idle" => req'[q].key \in Keys
  BY <1>1 DEF HealthInv, HealthTypes
<1>3. HealthTypes' BY <1>2 DEF HealthInv, HealthTypes
<1>4. AllPaired' /\ ProbesOwn' /\ AllFollow' BY DEF HealthInv, AllPaired, Paired, ProbesOwn, AllFollow
<1>5. SnapshotCurrent' /\ StaysStopped' BY DEF HealthInv, SnapshotCurrent, StaysStopped, Build, Busy
<1> QED BY <1>3, <1>4, <1>5 DEF HealthInv

LEMMA OutcomeKeeps == ASSUME HealthInv, NEW r \in Requests, NEW ok \in BOOLEAN, Outcome(r, ok) PROVE HealthInv'
<1>1. CASE ~Counts(r) BY <1>1, EndKeeps DEF Outcome
<1>2. CASE Counts(r)
  <2>1. PICK k \in Keys : k = req[r].key BY DEF HealthInv, HealthTypes, Outcome
  <2>2. PICK id \in 1..Len(ent) : id = members[k]
    BY <2>1, <1>2 DEF Counts, HealthInv, HealthTypes, AllPaired, Paired
  <2>3. PICK x \in Given : x = [ok |-> ok, version |-> req[r].version]
    <3>1. req[r].version \in Versions \cup {0} BY DEF HealthInv, HealthTypes, RequestType
    <3>2. req[r].version \in Nat BY <3>1, SettingsAreNumbered
    <3> QED BY <3>2 DEF Given
  <2>4. x.ok = ok BY <2>3
  <2>5. ent[id] \in EntryType /\ hist[id] \in Seq(Given) /\ Follows(ent[id], hist[id])
    BY DEF HealthInv, HealthTypes, AllFollow
  <2>6. PICK f \in EntryType : f = Recorded(ent[id], ok) BY <2>4, <2>5, RecordFollows
  <2>7. Follows(f, Append(hist[id], x)) /\ f.version = ent[id].version /\ f.checked = ent[id].checked
    BY <2>4, <2>5, <2>6, RecordFollows
  <2>8. ent' = [ent EXCEPT ![id] = f] BY <2>1, <2>2, <2>6, <1>2 DEF Outcome
  <2>9. hist' = [hist EXCEPT ![id] = Append(hist[id], x)] BY <2>1, <2>2, <2>3, <1>2 DEF Outcome, Logged
  <2>10. stale' = (stale \/ ent'[id].healthy # ent[id].healthy) BY <2>1, <2>2, <1>2 DEF Outcome
  <2>11. UNCHANGED <<config, members, reload, published, probe, life>> /\ req' = [req EXCEPT ![r] = NoRequest]
    BY DEF Outcome
  <2>12. /\ ent' \in Seq(EntryType) /\ hist' \in Seq(Seq(Given)) /\ Len(hist') = Len(ent')
         /\ Len(ent') = Len(ent) /\ AllFollow' /\ \A i \in 1..Len(ent) : ent'[i].version = ent[i].version
    BY <2>7, <2>8, <2>9, EntryStep DEF HealthInv
  <2>13. HealthTypes'
    <3>1. NoRequest \in RequestType /\ NoRequest.phase = "idle" BY DEF NoRequest, RequestType
    <3>2. req' \in [Requests -> RequestType] /\ \A q \in Requests : req'[q].phase # "idle" => req'[q].key \in Keys
      BY <2>11, <3>1 DEF HealthInv, HealthTypes
    <3>3. stale' \in BOOLEAN BY <2>10 DEF HealthInv, HealthTypes
    <3> QED BY <2>11, <2>12, <3>2, <3>3 DEF HealthInv, HealthTypes
  <2>14. AllPaired' BY <2>11, <2>12, <2>13, InvKept
  <2>15. ProbesOwn' /\ StaysStopped' BY <2>11 DEF HealthInv, ProbesOwn, StaysStopped, Busy
  <2>16. SnapshotCurrent'
    <3>1. CASE stale' BY <3>1 DEF SnapshotCurrent
    <3>2. CASE ~stale'
      <4>1. ~stale /\ ent'[id].healthy = ent[id].healthy BY <3>2, <2>10
      <4>2. ent'[id] = f /\ \A i \in 1..Len(ent) : i # id => ent'[i] = ent[i] BY <2>8 DEF HealthInv, HealthTypes
      <4>3. \A i \in 1..Len(ent) : ent'[i].healthy = ent[i].healthy /\ ent'[i].checked = ent[i].checked
        BY <4>1, <4>2, <2>7
      <4>4. \A j \in Keys : members[j] # 0 => members[j] \in 1..Len(ent) BY DEF HealthInv, HealthTypes, AllPaired, Paired
      <4>5. Build(members, ent') = Build(members, ent) BY <4>3, <4>4, BuildSame
      <4>6. Build(members, ent)' = Build(members, ent) BY <4>5, <2>11 DEF Build
      <4> QED BY <4>1, <4>6, <2>11 DEF HealthInv, SnapshotCurrent
    <3> QED BY <3>1, <3>2
  <2> QED BY <2>11, <2>12, <2>13, <2>14, <2>15, <2>16 DEF HealthInv
<1> QED BY <1>1, <1>2

(* -- Probes keep it ----------------------------------------------------- *)

LEMMA CompleteProbeKeeps ==
    ASSUME HealthInv, NEW s \in Slots, NEW ok \in BOOLEAN, CompleteProbe(s, ok) PROVE HealthInv'
<1>1. UNCHANGED <<config, members, reload, published, stale, req, life>> /\ probe[s].live
  BY DEF CompleteProbe
<1>2. probe \in [Slots -> ProbeType] /\ probe[s] \in ProbeType BY DEF HealthInv, HealthTypes
<1>3. PICK id \in 1..Len(ent) : id = probe[s].id
  <2>1. probe[s].id # 0 /\ probe[s].key \in Keys /\ members[probe[s].key] = probe[s].id
    BY <1>1 DEF HealthInv, ProbesOwn
  <2> QED BY <2>1 DEF HealthInv, HealthTypes, AllPaired, Paired
<1>4. PICK x \in Given : x = [ok |-> ok, version |-> probe[s].version]
  <2>1. probe[s].version \in Versions \cup {0} BY <1>2 DEF ProbeType
  <2>2. probe[s].version \in Nat BY <2>1, SettingsAreNumbered
  <2> QED BY <2>2 DEF Given
<1>5. x.ok = ok BY <1>4
<1>6. ent[id] \in EntryType /\ hist[id] \in Seq(Given) /\ Follows(ent[id], hist[id])
  BY DEF HealthInv, HealthTypes, AllFollow
<1>7. PICK e \in EntryType : e = Recorded(ent[id], ok) BY <1>5, <1>6, RecordFollows
<1>8. Follows(e, Append(hist[id], x)) /\ e.version = ent[id].version BY <1>5, <1>6, <1>7, RecordFollows
<1>9. PICK f \in EntryType : f = [e EXCEPT !.checked = TRUE] BY <1>8, CheckedFollows
<1>10. Follows(f, Append(hist[id], x)) /\ f.version = ent[id].version BY <1>8, <1>9, CheckedFollows
<1>11. ent' = [ent EXCEPT ![id] = f] BY <1>3, <1>7, <1>9 DEF CompleteProbe
<1>12. hist' = [hist EXCEPT ![id] = Append(hist[id], x)] BY <1>3, <1>4 DEF CompleteProbe, Logged
<1>13. /\ ent' \in Seq(EntryType) /\ hist' \in Seq(Seq(Given)) /\ Len(hist') = Len(ent')
       /\ Len(ent') = Len(ent) /\ AllFollow' /\ \A i \in 1..Len(ent) : ent'[i].version = ent[i].version
  BY <1>10, <1>11, <1>12, EntryStep DEF HealthInv
<1>14. probe' = [probe EXCEPT ![s].live = FALSE] BY DEF CompleteProbe
<1>15. probe' \in [Slots -> ProbeType] BY <1>2, <1>14 DEF ProbeType
<1>16. ~probe'[s].live /\ probe'[s].ops = probe[s].ops BY <1>2, <1>14 DEF ProbeType
<1>17. \A t \in Slots : t # s => probe'[t] = probe[t] BY <1>2, <1>14
<1>18. HealthTypes' BY <1>1, <1>13, <1>15 DEF HealthInv, HealthTypes
<1>19. AllPaired' BY <1>1, <1>13, <1>18, InvKept
<1>20. ProbesOwn' BY <1>1, <1>16, <1>17 DEF HealthInv, ProbesOwn
<1>21. probe[s].ops \in Nat /\ probe[s].ops # 0 BY <1>1, <1>2 DEF HealthInv, ProbesOwn, ProbeType
<1>22. SnapshotCurrent' BY <1>16, <1>21 DEF SnapshotCurrent
<1>23. StaysStopped'
  <2>1. s \in Busy(probe) BY <1>1 DEF Busy
  <2>2. ~life.completed BY <2>1 DEF HealthInv, StaysStopped
  <2> QED BY <2>2, <1>1 DEF StaysStopped
<1> QED BY <1>1, <1>13, <1>18, <1>19, <1>20, <1>22, <1>23 DEF HealthInv

LEMMA OperationCompletedKeeps ==
    ASSUME HealthInv, NEW s \in Slots, OperationCompleted(s) PROVE HealthInv'
<1>1. UNCHANGED <<config, members, ent, reload, published, req, hist>> /\ ~probe[s].live /\ probe[s].ops > 0
  BY DEF OperationCompleted
<1>2. probe \in [Slots -> ProbeType] /\ probe[s] \in ProbeType BY DEF HealthInv, HealthTypes
<1>3. probe[s].ops \in Nat BY <1>2 DEF ProbeType
<1>4. PICK ops \in Nat : ops = probe[s].ops - 1 BY <1>1, <1>3
<1>5. PICK p : p = IF probe[s].ops = 1 THEN NoProbe ELSE [probe[s] EXCEPT !.ops = ops] OBVIOUS
<1>6. p \in ProbeType /\ ~p.live /\ (probe[s].ops # 1 => p.ops > 0)
  <2>1. NoProbe \in ProbeType /\ ~NoProbe.live BY DEF NoProbe, ProbeType
  <2>2. [probe[s] EXCEPT !.ops = ops] \in ProbeType /\ ~[probe[s] EXCEPT !.ops = ops].live
        /\ [probe[s] EXCEPT !.ops = ops].ops = ops BY <1>1, <1>2 DEF ProbeType
  <2> QED BY <2>1, <2>2, <1>1, <1>3, <1>4, <1>5
<1>7. probe' = [probe EXCEPT ![s] = p] BY <1>2, <1>4, <1>5 DEF OperationCompleted
<1>8. probe' \in [Slots -> ProbeType] /\ probe'[s] = p /\ \A t \in Slots : t # s => probe'[t] = probe[t]
  BY <1>2, <1>6, <1>7
<1>9. ~life.completed
  <2>1. s \in Busy(probe) BY <1>1 DEF Busy
  <2> QED BY <2>1 DEF HealthInv, StaysStopped
<1>10. life \in Life BY DEF HealthInv, HealthTypes
<1>11. AllPaired' /\ AllFollow' BY <1>1 DEF HealthInv, AllPaired, Paired, AllFollow
<1>12. ProbesOwn' BY <1>1, <1>6, <1>8 DEF HealthInv, ProbesOwn
<1>13. CASE probe[s].ops = 1
  <2>1. stale' = TRUE /\ life' = Notify(probe', life) BY <1>13 DEF OperationCompleted, Retired
  <2>2. life' \in Life /\ (life'.completed => StopComplete(probe', life')) BY <2>1, <1>9, <1>10, NotifyKeeps
  <2>3. HealthTypes' BY <2>1, <2>2, <1>1, <1>8 DEF HealthInv, HealthTypes
  <2>4. SnapshotCurrent' BY <2>1 DEF SnapshotCurrent
  <2>5. StaysStopped' BY <2>2 DEF StaysStopped, StopComplete
  <2> QED BY <2>3, <2>4, <2>5, <1>1, <1>11, <1>12 DEF HealthInv
<1>14. CASE probe[s].ops # 1
  <2>1. UNCHANGED <<stale, life>> BY <1>14 DEF OperationCompleted
  <2>2. HealthTypes' BY <2>1, <1>1, <1>8 DEF HealthInv, HealthTypes
  <2>3. SnapshotCurrent' BY <1>6, <1>8, <1>14 DEF SnapshotCurrent
  <2>4. StaysStopped' BY <2>1, <1>9 DEF StaysStopped
  <2> QED BY <2>2, <2>3, <2>4, <1>1, <1>11, <1>12 DEF HealthInv
<1> QED BY <1>13, <1>14

\* tick: new probes go to idle slots and belong to the memberships of now.
LEMMA TickKeeps ==
    ASSUME HealthInv, NEW l \in Life, l.completed => StopComplete(probe, l), Tick(l),
           UNCHANGED <<config, members, reload, published, req>>
    PROVE  HealthInv'
<1>1. CASE l.stopped
  <2>1. UNCHANGED <<probe, ent, hist, stale>> /\ life' = Notify(probe, l) BY <1>1 DEF Tick
  <2>2. life' \in Life /\ (life'.completed => StopComplete(probe, life')) BY <2>1, NotifyKeeps
  <2>3. HealthTypes' BY <2>1, <2>2 DEF HealthInv, HealthTypes
  <2>4. AllPaired' /\ ProbesOwn' /\ AllFollow' BY <2>1 DEF HealthInv, AllPaired, Paired, ProbesOwn, AllFollow
  <2>5. SnapshotCurrent' BY <2>1 DEF HealthInv, SnapshotCurrent, Build
  <2>6. StaysStopped' BY <2>1, <2>2 DEF StaysStopped, StopComplete, Busy
  <2> QED BY <2>1, <2>3, <2>4, <2>5, <2>6 DEF HealthInv
<1>2. CASE ~l.stopped
  <2>c. life' = [l EXCEPT !.timer = TRUE] BY <1>2 DEF Tick
  <2>d. PICK due \in SUBSET {k \in Keys : Due(k)} : \E bad \in SUBSET due : Probed(due, bad) BY <1>2 DEF Tick
  <2>e. PICK bad \in SUBSET due : Probed(due, bad) BY <2>d
  <2>0. /\ ent' = [id \in DOMAIN ent |-> IF \E k \in bad : members[k] = id THEN FailedAtOnce(ent[id])
                                        ELSE IF \E k \in due : members[k] = id THEN [ent[id] EXCEPT !.probed = TRUE]
                                        ELSE ent[id]]
        /\ hist' = [id \in DOMAIN hist |-> IF \E k \in bad : members[k] = id
                      THEN Append(hist[id], [ok |-> FALSE, version |-> config[CHOOSE k \in bad : members[k] = id]])
                      ELSE hist[id]]
        /\ stale' = (stale \/ bad # {})
    BY <2>e, Zenon DEF Probed
  <2>1. PICK slot \in [due \ bad -> Slots \ Busy(probe)] :
          probe' = [s \in Slots |-> IF \E k \in due \ bad : slot[k] = s
                                    THEN Started(CHOOSE k \in due \ bad : slot[k] = s) ELSE probe[s]]
    BY <2>e, Zenon DEF Probed
  <2>2. /\ ent \in [1..Len(ent) -> EntryType] /\ Len(ent) \in Nat /\ DOMAIN ent = 1..Len(ent)
        /\ hist \in [1..Len(ent) -> Seq(Given)] /\ DOMAIN hist = 1..Len(ent)
    BY DEF HealthInv, HealthTypes
  <2>3. ASSUME NEW id \in 1..Len(ent)
        PROVE  /\ ent'[id] \in EntryType /\ ent'[id].version = ent[id].version
               /\ hist'[id] \in Seq(Given) /\ Follows(ent'[id], hist'[id])
               /\ bad = {} => ent'[id].healthy = ent[id].healthy /\ ent'[id].checked = ent[id].checked
    <3>0. ent[id] \in EntryType /\ hist[id] \in Seq(Given) /\ Follows(ent[id], hist[id])
      BY <2>2 DEF HealthInv, AllFollow
    <3>1. CASE \E k \in bad : members[k] = id
      <4>1. PICK k \in Keys : k = CHOOSE j \in bad : members[j] = id BY <3>1
      <4>2. config[k] \in Nat BY SettingsAreNumbered DEF HealthInv, HealthTypes
      <4>3. PICK x \in Given : x = [ok |-> FALSE, version |-> config[k]] BY <4>2 DEF Given
      <4>4. hist'[id] = Append(hist[id], x) BY <2>0, <2>2, <3>1, <4>1, <4>3
      <4>5. x.ok = FALSE BY <4>3
      <4>6. PICK e \in EntryType : e = Recorded(ent[id], FALSE) BY <3>0, <4>5, RecordFollows
      <4>7. Follows(e, Append(hist[id], x)) /\ e.version = ent[id].version BY <3>0, <4>5, <4>6, RecordFollows
      <4>8. PICK f : f = [e EXCEPT !.probed = TRUE, !.checked = TRUE] OBVIOUS
      <4>9. /\ f \in EntryType /\ f.version = e.version /\ f.healthy = e.healthy /\ f.last = e.last
            /\ f.streak = e.streak
        BY <4>8 DEF EntryType
      <4>10. ent'[id] = f BY <2>0, <2>2, <3>1, <4>6, <4>8 DEF FailedAtOnce
      <4>11. Follows(f, Append(hist[id], x)) BY <4>7, <4>9 DEF Follows
      <4>12. Append(hist[id], x) \in Seq(Given) BY <3>0
      <4>13. bad # {} BY <3>1
      <4> QED BY <4>4, <4>7, <4>9, <4>10, <4>11, <4>12, <4>13
    <3>2. CASE ~\E k \in bad : members[k] = id
      <4>1. PICK e : e = [ent[id] EXCEPT !.probed = TRUE] OBVIOUS
      <4>2. /\ e \in EntryType /\ e.version = ent[id].version /\ e.healthy = ent[id].healthy
            /\ e.checked = ent[id].checked /\ e.last = ent[id].last /\ e.streak = ent[id].streak
        BY <3>0, <4>1 DEF EntryType
      <4>3. hist'[id] = hist[id] BY <2>0, <2>2, <3>2
      <4>4. ent'[id] = e \/ ent'[id] = ent[id] BY <2>0, <2>2, <3>2, <4>1
      <4>5. Follows(e, hist[id]) BY <3>0, <4>2 DEF Follows
      <4> QED BY <3>0, <4>2, <4>3, <4>4, <4>5
    <3> QED BY <3>1, <3>2
  <2>4. ent' \in [1..Len(ent) -> EntryType] /\ hist' \in [1..Len(ent) -> Seq(Given)]
    <3>1. ent' = [id \in 1..Len(ent) |-> ent'[id]] BY <2>0, <2>2
    <3>2. hist' = [id \in 1..Len(ent) |-> hist'[id]] BY <2>0, <2>2
    <3> QED BY <2>3, <3>1, <3>2
  <2>5. ent' \in Seq(EntryType) /\ Len(ent') = Len(ent) BY <2>2, <2>4
  <2>a. hist' \in Seq(Seq(Given)) /\ Len(hist') = Len(ent') BY <2>2, <2>4, <2>5, SMTT(30)
  <2>6. ASSUME NEW s \in Slots
        PROVE  \/ probe'[s] = probe[s]
               \/ s \notin Busy(probe) /\ \E k \in Keys : Due(k) /\ probe'[s] = Started(k)
    <3>1. CASE \E k \in due \ bad : slot[k] = s
      <4>1. PICK k \in due \ bad : k = CHOOSE j \in due \ bad : slot[j] = s BY <3>1
      <4>2. slot[k] = s BY <3>1, <4>1
      <4>3. s \notin Busy(probe) BY <4>2
      <4>4. probe'[s] = Started(k) BY <3>1, <4>1, <2>1
      <4> QED BY <4>3, <4>4
    <3>2. CASE ~\E k \in due \ bad : slot[k] = s BY <3>2, <2>1
    <3> QED BY <3>1, <3>2
  <2>7. ASSUME NEW k \in Keys, Due(k)
        PROVE  /\ Started(k) \in ProbeType /\ Started(k).live /\ Started(k).ops = 2 /\ Started(k).key = k
               /\ Started(k).id = members[k] /\ Started(k).version = config[k] /\ members[k] # 0
    BY <2>7 DEF Due, Started, ProbeType, HealthInv, HealthTypes
  <2>8. probe' \in [Slots -> ProbeType]
    <3>1. probe' = [s \in Slots |-> probe'[s]] BY <2>1
    <3>0. \A s \in Slots : probe[s] \in ProbeType BY DEF HealthInv, HealthTypes
    <3>2. \A s \in Slots : probe'[s] \in ProbeType BY <2>6, <2>7, <3>0
    <3> QED BY <3>1, <3>2
  <2>9. life' \in Life /\ life'.completed = l.completed BY <2>c DEF Life
  <2>b. stale' \in BOOLEAN BY <2>0 DEF HealthInv, HealthTypes
  <2>10. HealthTypes' BY <2>5, <2>a, <2>b, <2>8, <2>9 DEF HealthInv, HealthTypes
  <2>11. AllPaired' BY <2>3, <2>5, <2>10, InvKept
  <2>12. ProbesOwn' BY <2>6, <2>7 DEF HealthInv, ProbesOwn
  <2>13. AllFollow' BY <2>3, <2>5 DEF AllFollow
  <2>14. SnapshotCurrent'
    <3>0. CASE bad # {}
      <4>1. stale' BY <3>0, <2>0, Zenon
      <4> QED BY <4>1 DEF SnapshotCurrent
    <3> SUFFICES ASSUME bad = {} PROVE SnapshotCurrent' BY <3>0
    <3>1. \A j \in Keys : members[j] # 0 => members[j] \in 1..Len(ent) BY DEF HealthInv, HealthTypes, AllPaired, Paired
    <3>2. Build(members, ent') = Build(members, ent) BY <2>3, <3>1, BuildSame
    <3>3. Build(members, ent)' = Build(members, ent) BY <3>2 DEF Build
    <3>a. stale => stale' BY <2>0, Zenon
    <3>4. \A s \in Slots : ~probe[s].live /\ probe[s].ops > 0 => probe'[s] = probe[s] BY <2>6 DEF Busy
    <3> QED BY <3>a, <3>3, <3>4 DEF HealthInv, SnapshotCurrent
  <2>15. StaysStopped' BY <2>9, <1>2 DEF StaysStopped, StopComplete
  <2> QED BY <2>5, <2>10, <2>11, <2>12, <2>13, <2>14, <2>15 DEF HealthInv
<1> QED BY <1>1, <1>2

(* -- The lifecycle keeps it --------------------------------------------- *)

LEMMA RequestStartKeeps == ASSUME HealthInv, RequestStart PROVE HealthInv'
<1>1. PICK l : l = [life EXCEPT !.started = TRUE] OBVIOUS
<1>2. life \in Life BY DEF HealthInv, HealthTypes
<1>3. l \in Life /\ l.completed = life.completed BY <1>1, <1>2 DEF Life
<1>4. ~life.completed BY DEF RequestStart, MayStart, HealthInv, StaysStopped
<1>5. Tick(l) BY <1>1 DEF RequestStart
<1> QED BY <1>3, <1>4, <1>5, TickKeeps DEF RequestStart

LEMMA TimerFiresKeeps == ASSUME HealthInv, TimerFires PROVE HealthInv'
<1>1. PICK l : l = [life EXCEPT !.timer = FALSE] OBVIOUS
<1>2. life \in Life BY DEF HealthInv, HealthTypes
<1>3. l \in Life /\ l.completed = life.completed BY <1>1, <1>2 DEF Life
<1>4. ~life.completed BY DEF TimerFires, HealthInv, StaysStopped
<1>5. Tick(l) BY <1>1 DEF TimerFires
<1> QED BY <1>3, <1>4, <1>5, TickKeeps DEF TimerFires

\* The probes are cancelled and the supervisor's flags change.
LEMMA CancelKeeps ==
    ASSUME HealthInv, probe' = Cancelled(probe), life' \in Life, life'.completed => StopComplete(probe', life'),
           UNCHANGED <<config, members, ent, reload, published, stale, req, hist>>
    PROVE  HealthInv'
<1>1. /\ probe' \in [Slots -> ProbeType] /\ \A s \in Slots : ~probe'[s].live /\ probe'[s].ops = probe[s].ops
  BY CancelledProbes DEF HealthInv
<1>2. HealthTypes' BY <1>1 DEF HealthInv, HealthTypes
<1>3. AllPaired' /\ AllFollow' BY DEF HealthInv, AllPaired, Paired, AllFollow
<1>4. ProbesOwn' BY <1>1 DEF ProbesOwn
<1>5. SnapshotCurrent' BY <1>1 DEF HealthInv, SnapshotCurrent, Build
<1>6. StaysStopped' BY DEF StaysStopped, StopComplete
<1> QED BY <1>2, <1>3, <1>4, <1>5, <1>6 DEF HealthInv

LEMMA TimerFailsKeeps == ASSUME HealthInv, TimerFails PROVE HealthInv'
<1>1. PICK l : l = [life EXCEPT !.timer = FALSE, !.stopped = TRUE] OBVIOUS
<1>2. life \in Life BY DEF HealthInv, HealthTypes
<1>3. l \in Life /\ l.completed = life.completed BY <1>1, <1>2 DEF Life
<1>4. ~life.completed BY DEF TimerFails, HealthInv, StaysStopped
<1>5. life' = Notify(probe', l) BY <1>1 DEF TimerFails
<1>6. life' \in Life /\ (life'.completed => StopComplete(probe', life')) BY <1>3, <1>4, <1>5, NotifyKeeps
<1> QED BY <1>6, CancelKeeps DEF TimerFails

LEMMA StopKeeps == ASSUME HealthInv, NEW waits \in BOOLEAN, Stop(waits) PROVE HealthInv'
<1>1. PICK l : l = [life EXCEPT !.stopped = TRUE] OBVIOUS
<1>2. life \in Life BY DEF HealthInv, HealthTypes
<1>3. l \in Life /\ l.completed = life.completed BY <1>1, <1>2 DEF Life
<1>4. ~life.completed BY DEF Stop
<1>5. PICK n : n = Notify(probe', l) OBVIOUS
<1>6. n \in Life /\ (n.completed => StopComplete(probe', n)) BY <1>3, <1>4, <1>5, NotifyKeeps
<1>7. PICK w \in {"none", "waiting", "resumed"} : w = IF StopComplete(probe', n) THEN "resumed" ELSE "waiting" OBVIOUS
<1>8. life' = n \/ life' = [n EXCEPT !.waiter = w] BY <1>1, <1>5, <1>7 DEF Stop
<1>9. life' \in Life /\ life'.completed = n.completed /\ life'.stopped = n.stopped /\ life'.timer = n.timer
  BY <1>6, <1>8 DEF Life
<1>10. life'.completed => StopComplete(probe', life') BY <1>6, <1>9 DEF StopComplete
<1> QED BY <1>9, <1>10, CancelKeeps DEF Stop

(* -- Configurations keep it --------------------------------------------- *)

\* Ids handed out one to one use all of their range.
LEMMA IdsAreUsed ==
    ASSUME NEW fresh, IsFiniteSet(fresh), NEW n \in Nat, NEW c \in Nat, c = Cardinality(fresh),
           NEW ids \in [fresh -> (n + 1)..(n + c)], \A j, k \in fresh : ids[j] = ids[k] => j = k
    PROVE  \A id \in (n + 1)..(n + c) : \E k \in fresh : ids[k] = id
<1> DEFINE T == (n + 1)..(n + c)
<1>1. IsFiniteSet(T) /\ Cardinality(T) = c
  <2>1. PICK a \in Int : a = n + 1 OBVIOUS
  <2>2. PICK b \in Int : b = n + c OBVIOUS
  <2>3. IsFiniteSet(a..b) /\ Cardinality(a..b) = IF a > b THEN 0 ELSE b - a + 1 BY FS_Interval
  <2>4. T = a..b BY <2>1, <2>2
  <2> HIDE DEF T
  <2> QED BY <2>1, <2>2, <2>3, <2>4
<1>2. ids \in Injection(fresh, T) BY DEF Injection, IsInjective
<1> HIDE DEF T
<1>3. ids \in Surjection(fresh, T) BY <1>1, <1>2, FS_Injection
<1> QED BY <1>3 DEF Surjection, T

LEMMA PrepareKeeps ==
    ASSUME HealthInv, NEW next \in [Keys -> Versions \cup {0}], Prepare(next) PROVE HealthInv'
<1> DEFINE fresh == {k \in Keys : next[k] # 0 /\ (members[k] = 0 \/ k \in Replaced(next))}
           n == Len(ent)
<1>0. UNCHANGED <<config, members, published, stale, probe, req, life>> BY DEF Prepare
<1>1. PICK c \in Nat : c = Cardinality(fresh)
  <2>1. IsFiniteSet(fresh) BY FS_Subset, HealthAssumption
  <2> QED BY <2>1, FS_CardinalityType
<1>2. n \in Nat BY DEF HealthInv, HealthTypes
<1>3. PICK ids \in [fresh -> (n + 1)..(n + c)] :
        /\ \A j, k \in fresh : ids[j] = ids[k] => j = k
        /\ reload' = [phase |-> "prepared", config |-> next,
                      members |-> [k \in Keys |-> IF k \in fresh THEN ids[k] ELSE IF next[k] = 0 THEN 0 ELSE members[k]]]
        /\ ent' = [id \in 1..(n + c) |-> IF id <= n THEN ent[id] ELSE Entry(next[CHOOSE k \in fresh : ids[k] = id])]
        /\ hist' = [id \in DOMAIN ent' |-> IF id <= n THEN hist[id] ELSE <<>>]
  BY <1>1 DEF Prepare
<1>4. fresh \subseteq Keys /\ \A k \in fresh : next[k] # 0 OBVIOUS
<1>5. \A k \in Keys \ fresh : next[k] # 0 => members[k] # 0 /\ config[k] = next[k] BY DEF Replaced
<1>6. \A id \in (n + 1)..(n + c) : \E k \in fresh : ids[k] = id
  <2>1. IsFiniteSet(fresh) BY FS_Subset, HealthAssumption
  <2>2. \A j, k \in fresh : ids[j] = ids[k] => j = k BY <1>3
  <2> HIDE DEF fresh, n
  <2> QED BY <1>1, <1>2, <2>1, <2>2, IdsAreUsed
<1> HIDE DEF fresh
<1>7. ent \in [1..n -> EntryType] /\ hist \in [1..n -> Seq(Given)] BY DEF HealthInv, HealthTypes
<1> HIDE DEF n
<1>8. ASSUME NEW id \in 1..(n + c)
      PROVE  /\ id <= n => ent'[id] = ent[id] /\ hist'[id] = hist[id] /\ id \in 1..n
             /\ id > n => /\ hist'[id] = <<>>
                          /\ \E k \in fresh : ids[k] = id /\ ent'[id] = Entry(next[k])
  <2>1. DOMAIN ent' = 1..(n + c) BY <1>3
  <2>2. hist'[id] = IF id <= n THEN hist[id] ELSE <<>> BY <2>1, <1>3
  <2>3. ent'[id] = IF id <= n THEN ent[id] ELSE Entry(next[CHOOSE k \in fresh : ids[k] = id]) BY <1>3
  <2>4. ASSUME id > n PROVE \E k \in fresh : ids[k] = id /\ ent'[id] = Entry(next[k])
    <3>1. id \in (n + 1)..(n + c) /\ ~(id <= n) BY <2>4, <1>1, <1>2
    <3>2. PICK k \in fresh : k = CHOOSE j \in fresh : ids[j] = id BY <3>1, <1>6
    <3>3. ids[k] = id BY <3>1, <3>2, <1>6
    <3> QED BY <3>1, <3>2, <3>3, <2>3
  <2> QED BY <2>2, <2>3, <2>4, <1>1, <1>2
<1>9. ASSUME NEW k \in fresh
      PROVE  Entry(next[k]) \in EntryType /\ Entry(next[k]).version = next[k]
  <2>1. next[k] \in Versions BY <1>4
  <2> QED BY <2>1 DEF Entry, EntryType
<1>10. \A id \in 1..(n + c) : ent'[id] \in EntryType /\ hist'[id] \in Seq(Given)
  <2>1. \A id \in 1..(n + c) : id <= n \/ id > n BY <1>1, <1>2
  <2>2. <<>> \in Seq(Given) OBVIOUS
  <2> QED BY <2>1, <2>2, <1>7, <1>8, <1>9
<1>11. ent' \in [1..(n + c) -> EntryType] /\ hist' \in [1..(n + c) -> Seq(Given)]
  <2>1. ent' = [id \in 1..(n + c) |-> ent'[id]] BY <1>3
  <2>2. DOMAIN ent' = 1..(n + c) BY <1>3
  <2>3. hist' = [id \in 1..(n + c) |-> hist'[id]] BY <2>2, <1>3
  <2> QED BY <1>10, <2>1, <2>3
<1>12. ent' \in Seq(EntryType) /\ hist' \in Seq(Seq(Given)) /\ Len(ent') = n + c /\ Len(hist') = n + c
  <2>1. PICK len \in Nat : len = n + c BY <1>1, <1>2
  <2>2. ent' \in [1..len -> EntryType] /\ hist' \in [1..len -> Seq(Given)] BY <1>11, <2>1
  <2>3. ent' \in Seq(EntryType) /\ Len(ent') = len BY <2>2
  <2>4. hist' \in Seq(Seq(Given)) /\ Len(hist') = len BY <2>2
  <2> QED BY <2>1, <2>3, <2>4
<1>13. PICK m : m = [k \in Keys |-> IF k \in fresh THEN ids[k] ELSE IF next[k] = 0 THEN 0 ELSE members[k]] OBVIOUS
<1>14. m \in [Keys -> Nat] BY <1>13, <1>2, <1>1 DEF HealthInv, HealthTypes
<1>15. reload' = [phase |-> "prepared", config |-> next, members |-> m] BY <1>3, <1>13
<1>16. reload' \in ReloadType /\ reload'.config = next /\ reload'.members = m BY <1>14, <1>15 DEF ReloadType
<1>17. HealthTypes' BY <1>0, <1>12, <1>16 DEF HealthInv, HealthTypes
<1>18. \A id \in 1..n : id \in 1..(n + c) /\ ent'[id] = ent[id] /\ hist'[id] = hist[id] BY <1>1, <1>2, <1>8
<1>19. /\ \A k \in Keys : /\ members[k] \in 0..n /\ (members[k] = 0 <=> config[k] = 0)
                          /\ members[k] # 0 => members[k] \in 1..n /\ ent[members[k]].version = config[k]
       /\ \A j, k \in Keys : members[j] = members[k] /\ j # k => members[j] = 0
  BY <1>2 DEF HealthInv, HealthTypes, AllPaired, Paired, n
<1>20. Paired(config, members)' BY <1>0, <1>1, <1>2, <1>12, <1>18, <1>19 DEF Paired
<1>21. ASSUME NEW k \in Keys
       PROVE  /\ m[k] \in 0..(n + c) /\ (m[k] = 0 <=> next[k] = 0)
              /\ m[k] # 0 => ent'[m[k]].version = next[k]
  <2>1. CASE k \in fresh
    <3>1. m[k] = ids[k] /\ ids[k] \in (n + 1)..(n + c) BY <2>1, <1>13
    <3>2. ids[k] \in 1..(n + c) /\ ids[k] > n /\ ids[k] # 0 BY <3>1, <1>1, <1>2
    <3>3. PICK j \in fresh : ids[j] = ids[k] /\ ent'[ids[k]] = Entry(next[j]) BY <3>2, <1>8
    <3>4. j = k BY <2>1, <3>3, <1>3
    <3> QED BY <2>1, <3>1, <3>2, <3>3, <3>4, <1>4, <1>9, <1>2, <1>1
  <2>2. CASE k \notin fresh /\ next[k] = 0
    <3>1. m[k] = 0 BY <2>2, <1>13
    <3> QED BY <3>1, <2>2, <1>1, <1>2
  <2>3. CASE k \notin fresh /\ next[k] # 0
    <3>1. m[k] = members[k] /\ members[k] # 0 /\ config[k] = next[k] BY <2>3, <1>5, <1>13
    <3> QED BY <3>1, <2>3, <1>1, <1>2, <1>18, <1>19
  <2> QED BY <2>1, <2>2, <2>3
<1>22. ASSUME NEW j \in Keys, NEW k \in Keys, m[j] = m[k], j # k PROVE m[j] = 0
  <2>1. \A i \in Keys : i \in fresh => m[i] = ids[i] /\ m[i] > n BY <1>1, <1>2, <1>13
  <2>2. \A i \in Keys : i \notin fresh => m[i] = 0 \/ m[i] = members[i] BY <1>13
  <2>3. \A i \in Keys : i \notin fresh => ~(m[i] > n) BY <2>2, <1>2, <1>19
  <2>4. CASE j \in fresh
    <3>1. k \in fresh BY <2>1, <2>3, <2>4, <1>22
    <3> QED BY <2>1, <2>4, <3>1, <1>3, <1>22
  <2>5. CASE j \notin fresh
    <3>1. k \notin fresh BY <2>1, <2>3, <2>5, <1>22
    <3> QED BY <2>2, <2>5, <3>1, <1>19, <1>22
  <2> QED BY <2>4, <2>5
<1>23. Paired(reload.config, reload.members)' BY <1>12, <1>16, <1>21, <1>22 DEF Paired
<1>24. ProbesOwn' /\ StaysStopped' BY <1>0 DEF HealthInv, ProbesOwn, StaysStopped, Busy
<1>25. AllFollow'
  <2>1. ASSUME NEW id \in 1..(n + c) PROVE Follows(ent'[id], hist'[id])
    <3>1. CASE id <= n BY <3>1, <1>8 DEF HealthInv, AllFollow, n
    <3>2. CASE id > n BY <3>2, <1>8, NewFollows
    <3> QED BY <3>1, <3>2, <1>1, <1>2
  <2> QED BY <2>1, <1>12 DEF AllFollow
<1>26. SnapshotCurrent'
  <2>1. Build(members, ent') = Build(members, ent) BY <1>18, <1>19, BuildSame
  <2>2. Build(members, ent)' = Build(members, ent) BY <2>1, <1>0 DEF Build
  <2> QED BY <2>2, <1>0 DEF HealthInv, SnapshotCurrent
<1>27. \A k \in Keys : published'[k].id \in 0..Len(ent') BY <1>0, <1>1, <1>2, <1>12 DEF HealthInv, n
<1> QED BY <1>17, <1>20, <1>23, <1>24, <1>25, <1>26, <1>27 DEF HealthInv, AllPaired

\* exchange_runtime swaps two configurations that are both paired.
LEMMA ExchangeKeeps ==
    ASSUME HealthInv, NEW phase \in {"none", "tentative"}, Exchange(phase), UNCHANGED <<ent, published, req, hist>>
    PROVE  HealthInv'
<1>1. reload \in ReloadType /\ reload.config \in [Keys -> Versions \cup {0}] /\ reload.members \in [Keys -> Nat]
  BY DEF HealthInv, HealthTypes, ReloadType
<1>2. config' = reload.config /\ members' = reload.members /\ stale' = TRUE BY DEF Exchange
<1>3. reload' = [phase |-> phase, config |-> config, members |-> members] BY DEF Exchange
<1>4. reload' \in ReloadType /\ reload'.config = config /\ reload'.members = members
  BY <1>3 DEF HealthInv, HealthTypes, ReloadType
<1>5. /\ probe' \in [Slots -> ProbeType] /\ Busy(probe') = Busy(probe)
      /\ \A s \in Slots : ~probe'[s].live /\ probe'[s].ops = probe[s].ops
  BY CancelledProbes DEF HealthInv, Exchange
<1>6. life \in Life BY DEF HealthInv, HealthTypes
<1>7. life.completed => StopComplete(probe', life) BY <1>5 DEF HealthInv, StaysStopped, StopComplete
<1>8. life' = Notify(probe', life) BY DEF Exchange
<1>9. life' \in Life /\ (life'.completed => StopComplete(probe', life')) BY <1>6, <1>7, <1>8, NotifyKeeps
<1>10. HealthTypes' BY <1>1, <1>2, <1>4, <1>5, <1>9 DEF HealthInv, HealthTypes
<1>11. AllPaired' BY <1>2, <1>4 DEF HealthInv, AllPaired, Paired
<1>12. ProbesOwn' BY <1>5 DEF ProbesOwn
<1>13. AllFollow' BY DEF HealthInv, AllFollow
<1>14. SnapshotCurrent' BY <1>2 DEF SnapshotCurrent
<1>15. StaysStopped' BY <1>9 DEF StaysStopped, StopComplete
<1> QED BY <1>10, <1>11, <1>12, <1>13, <1>14, <1>15 DEF HealthInv

\* The configuration on its way in, or the displaced one, is let go.
LEMMA ForgetKeeps ==
    ASSUME HealthInv, reload' = NoReload,
           UNCHANGED <<config, members, ent, published, stale, probe, req, life, hist>>
    PROVE  HealthInv'
<1>1. NoReload \in ReloadType BY DEF NoReload, ReloadType
<1>2. HealthTypes' BY <1>1 DEF HealthInv, HealthTypes
<1>3. \A k \in Keys : reload'.config[k] = 0 /\ reload'.members[k] = 0 BY DEF NoReload
<1>4. Len(ent) \in Nat BY DEF HealthInv, HealthTypes
<1>5. AllPaired' BY <1>3, <1>4 DEF HealthInv, AllPaired, Paired
<1>6. ProbesOwn' /\ AllFollow' BY DEF HealthInv, ProbesOwn, AllFollow
<1>7. SnapshotCurrent' /\ StaysStopped' BY DEF HealthInv, SnapshotCurrent, StaysStopped, Build, Busy
<1> QED BY <1>2, <1>5, <1>6, <1>7 DEF HealthInv

LEMMA HealthStep == HealthInv /\ [HealthNext]_healthVars => HealthInv'
<1> SUFFICES ASSUME HealthInv, [HealthNext]_healthVars PROVE HealthInv' OBVIOUS
<1>1. CASE UNCHANGED healthVars
  <2> USE <1>1 DEF healthVars
  <2>1. HealthTypes' BY DEF HealthInv, HealthTypes
  <2>2. AllPaired' /\ ProbesOwn' /\ AllFollow' BY DEF HealthInv, AllPaired, Paired, ProbesOwn, AllFollow
  <2>3. SnapshotCurrent' /\ StaysStopped' BY DEF HealthInv, SnapshotCurrent, StaysStopped, Build, Busy
  <2> QED BY <2>1, <2>2, <2>3 DEF HealthInv
<1>2. ASSUME NEW r \in Requests, Route(r) \/ Connect(r) \/ Abandon(r) \/ \E ok \in BOOLEAN : Outcome(r, ok)
      PROVE  HealthInv'
  BY <1>2, RouteKeeps, ConnectKeeps, EndKeeps, OutcomeKeeps DEF Abandon
<1>3. ASSUME NEW s \in Slots, OperationCompleted(s) \/ \E ok \in BOOLEAN : CompleteProbe(s, ok)
      PROVE  HealthInv'
  BY <1>3, OperationCompletedKeeps, CompleteProbeKeeps
<1>4. ASSUME RequestStart \/ TimerFires \/ TimerFails \/ \E waits \in BOOLEAN : Stop(waits)
      PROVE  HealthInv'
  BY <1>4, RequestStartKeeps, TimerFiresKeeps, TimerFailsKeeps, StopKeeps
<1>5. ASSUME NEW next \in [Keys -> Versions \cup {0}], Prepare(next) PROVE HealthInv' BY <1>5, PrepareKeeps
<1>6. CASE Activate BY <1>6, ExchangeKeeps DEF Activate
<1>7. CASE Rollback BY <1>7, ExchangeKeeps, ForgetKeeps DEF Rollback
<1>8. CASE Finalize BY <1>8, ForgetKeeps DEF Finalize
<1> QED BY <1>1, <1>2, <1>3, <1>4, <1>5, <1>6, <1>7, <1>8 DEF HealthNext

(***************************************************************************)
(* Entries, configurations, probes and the snapshot fit together, for any  *)
(* origins, settings, thresholds, requests and probe slots, however        *)
(* outcomes, probes, reloads, rollbacks and the stop interleave.           *)
(***************************************************************************)
THEOREM HealthHolds == HealthSpec => []HealthInv
BY HealthStarts, HealthStep, PTL DEF HealthSpec

(* Type correctness of the origin health of a worker.                      *)
THEOREM HealthTypeCorrect == HealthSpec => []HealthTypeOK
<1>1. HealthInv => HealthTypeOK
  <2> SUFFICES ASSUME HealthInv PROVE HealthTypeOK OBVIOUS
  <2>1. /\ \A k \in Keys : members[k] \in 0..Len(ent) /\ (members[k] = 0) = (config[k] = 0)
        /\ \A j, k \in Keys : members[j] = members[k] /\ j # k => members[j] = 0
    BY DEF HealthInv, AllPaired, Paired
  <2>2. \A k \in Keys : published[k].id \in 0..Len(ent) BY DEF HealthInv
  <2>3. DOMAIN hist = DOMAIN ent /\ stale \in BOOLEAN BY DEF HealthInv, HealthTypes
  <2>4. ASSUME NEW s \in Slots, probe[s].live PROVE probe[s].ops > 0 /\ probe[s].id \in DOMAIN ent
    <3>1. probe[s].ops \in Nat /\ probe[s].ops # 0 BY <2>4 DEF HealthInv, HealthTypes, ProbesOwn, ProbeType
    <3>2. probe[s].id # 0 /\ probe[s].key \in Keys /\ members[probe[s].key] = probe[s].id
      BY <2>4 DEF HealthInv, ProbesOwn
    <3>3. DOMAIN ent = 1..Len(ent) /\ Len(ent) \in Nat BY DEF HealthInv, HealthTypes
    <3> QED BY <3>1, <3>2, <3>3, <2>1
  <2>5. \A r \in Requests : req[r].phase \in {"idle", "routed", "connected"}
    BY DEF HealthInv, HealthTypes, RequestType
  <2> QED BY <2>1, <2>2, <2>3, <2>4, <2>5 DEF HealthTypeOK
<1> QED BY <1>1, HealthHolds, PTL

(* origin_health_entry::record: an entry's verdict is what the outcomes it *)
(* was given decide, the last run of like outcomes that reached its        *)
(* threshold, whatever snapshot was published in between.                  *)
THEOREM OutcomesDecideHealth == HealthSpec => []HealthFollowsOutcomes
<1>1. HealthInv => HealthFollowsOutcomes
  <2> SUFFICES ASSUME HealthInv PROVE HealthFollowsOutcomes OBVIOUS
  <2>1. DOMAIN ent = 1..Len(ent) BY DEF HealthInv, HealthTypes
  <2> QED BY <2>1 DEF HealthInv, AllFollow, Follows, HealthFollowsOutcomes
<1> QED BY <1>1, HealthHolds, PTL

(* activate, rollback and tick: a probe that can still record belongs to   *)
(* the membership and settings its origin has now, an entry belongs to the *)
(* settings in force, and a snapshot not marked stale shows the entries as *)
(* they are, but for a result whose probe has operations to come back.     *)
THEOREM HealthStaysCurrent == HealthSpec => [](ProbesAreCurrent /\ MembersMatchSettings /\ SnapshotCurrent)
<1>1. HealthInv => ProbesAreCurrent BY DEF HealthInv, ProbesOwn, ProbesAreCurrent
<1>2. HealthInv => MembersMatchSettings BY DEF HealthInv, AllPaired, Paired, MembersMatchSettings
<1>3. HealthInv => SnapshotCurrent BY DEF HealthInv
<1> QED BY <1>1, <1>2, <1>3, HealthHolds, PTL

(* stop_and_wait: once the stop has completed no probe and no timer comes  *)
(* back, whatever reload, rollback or completion still arrives.            *)
THEOREM StoppedStaysStopped == HealthSpec => []StaysStopped
<1>1. HealthInv => StaysStopped BY DEF HealthInv
<1> QED BY <1>1, HealthHolds, PTL
=============================================================================
