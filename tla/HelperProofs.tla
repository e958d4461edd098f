---------------------------- MODULE HelperProofs ----------------------------
(***************************************************************************)
(* Theorems about the elevated helper and what leads to it: its            *)
(* installation (HelperInstall), the acceptance of an installation         *)
(* (Acceptance), its one pipe (HelperChannel) and the page that offers the *)
(* next step (SetupGuide), for any bundles, back ends, profiles and        *)
(* acceptance runs, and any number of runs, requests, failures and deaths. *)
(*                                                                         *)
(* Of the four, part by part, the invariant says                           *)
(*   - what every stage of an installation has behind it: what it has      *)
(*     closed and measured, what of the old installation is where, what a  *)
(*     restoration has put back as long as it believes that all went well, *)
(*     and that nothing is missing unless something failed;                *)
(*   - what a run of the acceptance has proved by each phase, and that the *)
(*     record and the temporary file hold the facts of a run that proved   *)
(*     them;                                                               *)
(*   - which leases the helper counts, by where it is in the request it    *)
(*     serves, and what of its answer the back ends have heard;            *)
(*   - where what the page was told last is, and what still makes the page *)
(*     look again.                                                         *)
(***************************************************************************)
EXTENDS MCHelper, FiniteSetTheorems, SequenceTheorems, TLAPS

-----------------------------------------------------------------------------
(* HelperInstall *)

\* The stages that have what they are named for behind them.
PinSaved == {"close pin", "measure pin", "verify", "start", "confirm"}
FolderClosed == {"save pin"} \cup PinSaved
TaskClosed == {"folder sd"} \cup FolderClosed
Registered == {"task sd"} \cup TaskClosed
ScratchClosed == {"register"} \cup Registered
RootMeasured == {"scratch"} \cup ScratchClosed
MovedIn == {"close root", "measure root"} \cup RootMeasured
Untouched == {"stage", "close staging", "measure staging", "move out"}

\* The new installation, as far as the stages have come.
Staged ==
    /\ run.pc \in {"close staging", "measure staging", "move out", "move in"} =>
          staging # NoTree /\ staging.ver = run.ver /\ staging.whole
    /\ run.pc \in {"measure staging", "move out", "move in"} => staging.closed

Installed ==
    /\ run.pc \in Installing => run.ver \in Bundles
    /\ run.pc \in MovedIn => root # NoTree /\ root.ver = run.ver /\ root.whole
    /\ run.pc \in RootMeasured => root.closed
    /\ run.pc \in ScratchClosed => scratch
    /\ run.pc \in Registered \cup {"redo sd"} => task # NoTask
    /\ run.pc = "redo sd" => run.snap.task # NoTask
    /\ run.pc \in TaskClosed => task.sd
    /\ run.pc \in PinSaved => pin # NoPin /\ pin.ver = run.ver
    /\ run.pc \in PinSaved \ {"close pin"} => pin.closed

\* A pin is saved into a machine whose task folder is protected, and nothing takes the
\* protection away again.
Protected == run.pc \in FolderClosed \/ pin # NoPin \/ run.snap.pin # NoPin => folder

\* The old runtime: in its place, then beside it, until it is put back.
OldTree ==
    /\ run.pc \in Untouched => root = run.snap.tree /\ backup = NoTree
    /\ run.pc = "move in" => root = NoTree
    /\ run.pc \in {"move in"} \cup MovedIn => backup = run.snap.tree
    /\ run.pc \in {"undo task", "undo tree"} /\ run.snap.tree # NoTree =>
          IF backup = NoTree THEN root = run.snap.tree ELSE backup = run.snap.tree

\* What a restoration has put back while no part of it failed; an administrator may have
\* disabled the task since.
PutBack ==
    run.ok =>
        /\ run.pc \in {"undo pin", "redo task", "redo sd", "judge"} => root = run.snap.tree
        /\ run.pc \in {"redo task", "redo sd", "judge"} => pin.ver = run.snap.pin.ver
        /\ run.pc \in {"undo tree", "undo pin", "redo task"} => task = NoTask
        /\ run.pc = "judge" => \/ task = run.snap.task
                               \/ task # NoTask /\ run.snap.task # NoTask /\ ~task.enabled

\* What is missing has failed in this transaction.
Blamed ==
    /\ run.since <= faults
    /\ run.pc = "measure root" /\ ~root.closed => faults > run.since
    /\ run.pc \in Registered /\ ~task.enabled => faults > run.since
    /\ RollbackNeedsFault

IInv == TypeOK /\ Staged /\ Installed /\ Protected /\ OldTree /\ PutBack /\ Blamed

-----------------------------------------------------------------------------
\* The transaction's own step.

Steps == Installing \cup Restoring \cup Removing \cup {"idle"}
Runs == [pc : Steps, ver : Bundles \cup {0}, snap : Snapshot, ok : BOOLEAN, since : 0..MaxFaults]
Kept == run'.ver = run.ver /\ run'.snap = run.snap /\ run'.since = run.since

LEMMA Nothing == NoTree \notin Tree /\ NoTask \notin Task /\ NoPin \notin Pin
                 /\ NoTree.ver = 0 /\ NoPin.ver = 0
  BY InstallConstants DEF NoTree, NoTask, NoPin, Tree, Task, Pin

LEMMA Rest ==
    /\ NoRun \in Runs /\ NoRun.pc = "idle" /\ NoRun.since = 0
    /\ NoRun.snap.pin = NoPin
  <1>1. NoSnapshot \in Snapshot /\ NoSnapshot.pin = NoPin
    BY DEF NoSnapshot, Snapshot
  <1>. QED  BY <1>1, InstallConstants DEF NoRun, Runs, Steps

LEMMA Went ==
    ASSUME run \in Runs, NEW step \in Steps, Goto(step)
    PROVE  run' \in Runs /\ run'.pc = step /\ Kept /\ run'.ok = run.ok
  BY DEF Goto, Runs, Kept

LEMMA Advanced ==
    ASSUME run \in Runs, NEW from, NEW to \in Steps, Advance(from, to)
    PROVE  run.pc = from /\ run' \in Runs /\ run'.pc = to /\ Kept /\ run'.ok = run.ok
  BY Went DEF Advance

LEMMA Counts ==
    ASSUME NEW n \in 0..MaxFaults, NEW m \in 0..MaxFaults
    PROVE  n \in Nat /\ (n < m => n # m /\ n <= m) /\ (n = m => n <= m)
  BY InstallConstants

LEMMA Failed ==
    ASSUME faults \in 0..MaxFaults, Fault
    PROVE  faults' \in 0..MaxFaults /\ faults < faults'
  BY InstallConstants DEF Fault

LEMMA Later ==
    ASSUME run \in Runs, faults \in 0..MaxFaults, faults' \in 0..MaxFaults,
           run.since <= faults, run'.since = run.since, faults' = faults \/ faults < faults'
    PROVE  /\ run'.since <= faults'
           /\ faults > run.since \/ faults < faults' => faults' > run'.since
  <1>1. run.since \in Nat /\ faults \in Nat /\ faults' \in Nat
    BY InstallConstants DEF Runs
  <1>. QED  BY <1>1

LEMMA Worked ==
    ASSUME run \in Runs, NEW from, NEW to \in Steps, Tried(from, to, TRUE)
    PROVE  /\ run.pc = from /\ run' \in Runs /\ run'.pc = to /\ Kept
           /\ (run'.ok => run.ok) /\ faults' = faults
  BY DEF Tried, Runs, Kept

LEMMA Lost ==
    ASSUME run \in Runs, faults \in 0..MaxFaults, NEW from, NEW to \in Steps,
           Tried(from, to, FALSE)
    PROVE  /\ run.pc = from /\ run' \in Runs /\ run'.pc = to /\ Kept
           /\ ~run'.ok /\ faults' \in 0..MaxFaults /\ faults < faults'
  <1>1. Fault  BY DEF Tried
  <1>. QED  BY <1>1, Failed DEF Tried, Runs, Kept

LEMMA InitHolds == Init => IInv
  <1>. SUFFICES ASSUME Init PROVE IInv
    OBVIOUS
  <1>1. TypeOK
    <2>1. run \in Runs  BY Rest DEF Init
    <2>2. 0 \in 0..MaxRuns /\ 0 \in 0..MaxFaults  BY InstallConstants
    <2>. QED  BY <2>1, <2>2 DEF Init, TypeOK, Runs, Steps, Outcomes
  <1>2. Staged /\ Installed /\ Protected /\ OldTree /\ PutBack
    BY Rest DEF Init, Staged, Installed, Protected, OldTree, PutBack, Installing, PinSaved,
       FolderClosed, TaskClosed, Registered, ScratchClosed, RootMeasured, MovedIn, Untouched
  <1>3. Blamed
    BY Rest DEF Init, Blamed, RollbackNeedsFault, Restoring, PinSaved, FolderClosed, TaskClosed,
       Registered
  <1>. QED  BY <1>1, <1>2, <1>3 DEF IInv

\* A staged copy is written, closed and measured.
LEMMA StagingHolds ==
    ASSUME IInv, Stage \/ CloseStaging \/ MeasureStaging
    PROVE  IInv'
  <1>. USE Nothing, InstallConstants
       DEF Installing, Restoring, Removing, PinSaved, FolderClosed, TaskClosed,
           Registered, ScratchClosed, RootMeasured, MovedIn, Untouched
  <1>0. run \in Runs /\ faults \in 0..MaxFaults /\ Restoring \cup Installing \subseteq Steps
    BY DEF IInv, TypeOK, Runs, Steps
  <1>1. CASE Stage
    <2>1. /\ run.pc = "stage" /\ run' \in Runs /\ run'.pc = "close staging" /\ Kept /\ run'.ok = run.ok
          /\ staging' \in Tree /\ staging'.ver = run.ver /\ staging'.whole
          /\ UNCHANGED <<root, backup, task, folder, scratch, pin, outcome, runs, faults>>
      BY <1>0, <1>1, Advanced DEF Stage, IInv, Installed, Tree
    <2>2. TypeOK'
      BY <2>1 DEF IInv, TypeOK, Kept, Runs, Steps, Outcomes, machine
    <2>3. Staged' /\ Installed' /\ Protected'
      BY <2>1 DEF IInv, TypeOK, machine, Staged, Installed, Protected, Kept
    <2>4. OldTree' /\ PutBack' /\ Blamed'
      BY <2>1 DEF IInv, TypeOK, machine, OldTree, PutBack, Blamed, RollbackNeedsFault, Kept
    <2>. QED  BY <2>2, <2>3, <2>4 DEF IInv
  <1>2. CASE CloseStaging
    <2>1. /\ run.pc = "close staging" /\ run' \in Runs /\ run'.pc = "measure staging" /\ Kept /\ run'.ok = run.ok
          /\ staging' \in Tree /\ staging'.ver = staging.ver /\ staging'.whole /\ staging'.closed
          /\ UNCHANGED <<root, backup, task, folder, scratch, pin, outcome, runs, faults>>
      BY <1>0, <1>2, Advanced DEF CloseStaging, IInv, TypeOK, Staged, Tree
    <2>2. TypeOK'
      BY <2>1 DEF IInv, TypeOK, Kept, Runs, Steps, Outcomes, machine
    <2>3. Staged' /\ Installed' /\ Protected'
      BY <2>1 DEF IInv, TypeOK, machine, Staged, Installed, Protected, Kept
    <2>4. OldTree' /\ PutBack' /\ Blamed'
      BY <2>1 DEF IInv, TypeOK, machine, OldTree, PutBack, Blamed, RollbackNeedsFault, Kept
    <2>. QED  BY <2>2, <2>3, <2>4 DEF IInv
  <1>3. CASE MeasureStaging
    <2>1. /\ run.pc = "measure staging" /\ run' \in Runs /\ run'.pc = "move out" /\ Kept /\ run'.ok = run.ok
      BY <1>0, <1>3, Advanced DEF MeasureStaging
    <2>2. TypeOK'
      BY <1>3, <2>1 DEF IInv, TypeOK, Kept, Runs, Steps, Outcomes, machine, MeasureStaging
    <2>3. Staged' /\ Installed' /\ Protected'
      BY <1>3, <2>1 DEF IInv, TypeOK, machine, Staged, Installed, Protected, Kept, MeasureStaging
    <2>4. OldTree' /\ PutBack' /\ Blamed'
      BY <1>3, <2>1 DEF IInv, TypeOK, machine, OldTree, PutBack, Blamed, RollbackNeedsFault, Kept, MeasureStaging
    <2>. QED  BY <2>2, <2>3, <2>4 DEF IInv
  <1>. QED  BY <1>1, <1>2, <1>3

\* The old runtime is moved aside and the new one into its place.
LEMMA MovingHolds ==
    ASSUME IInv, MoveOut \/ MoveIn \/ MoveInFails
    PROVE  IInv'
  <1>. USE Nothing, InstallConstants
       DEF Installing, Restoring, Removing, PinSaved, FolderClosed, TaskClosed,
           Registered, ScratchClosed, RootMeasured, MovedIn, Untouched
  <1>0. run \in Runs /\ faults \in 0..MaxFaults /\ Restoring \cup Installing \subseteq Steps
    BY DEF IInv, TypeOK, Runs, Steps
  <1>1. CASE MoveOut
    <2>1. /\ run.pc = "move out" /\ run' \in Runs /\ run'.pc = "move in" /\ Kept /\ run'.ok = run.ok
      BY <1>0, <1>1, Advanced DEF MoveOut
    <2>2. TypeOK'
      BY <1>1, <2>1 DEF IInv, TypeOK, Kept, Runs, Steps, Outcomes, machine, MoveOut
    <2>3. Staged' /\ Installed' /\ Protected'
      BY <1>1, <2>1 DEF IInv, TypeOK, machine, Staged, Installed, Protected, Kept, MoveOut
    <2>4. OldTree' /\ PutBack' /\ Blamed'
      BY <1>1, <2>1 DEF IInv, TypeOK, machine, OldTree, PutBack, Blamed, RollbackNeedsFault, Kept, MoveOut
    <2>. QED  BY <2>2, <2>3, <2>4 DEF IInv
  <1>2. CASE MoveIn
    <2>1. /\ run.pc = "move in" /\ run' \in Runs /\ run'.pc = "close root" /\ Kept /\ run'.ok = run.ok
      BY <1>0, <1>2, Advanced DEF MoveIn
    <2>2. TypeOK'
      BY <1>2, <2>1 DEF IInv, TypeOK, Kept, Runs, Steps, Outcomes, machine, MoveIn
    <2>3. Staged' /\ Installed' /\ Protected'
      BY <1>2, <2>1 DEF IInv, TypeOK, machine, Staged, Installed, Protected, Kept, MoveIn
    <2>4. OldTree' /\ PutBack' /\ Blamed'
      BY <1>2, <2>1 DEF IInv, TypeOK, machine, OldTree, PutBack, Blamed, RollbackNeedsFault, Kept, MoveIn
    <2>. QED  BY <2>2, <2>3, <2>4 DEF IInv
  <1>3. CASE MoveInFails
    <2>1. /\ run.pc = "move in" /\ run' \in Runs /\ run'.pc = "undo task"
          /\ Kept /\ run'.ok = run.ok
      BY <1>0, <1>3, Went DEF MoveInFails
    <2>2. faults' \in 0..MaxFaults /\ faults < faults'
      BY <1>0, <1>3, <2>1, Failed DEF MoveInFails, IInv, OldTree
    <2>3. /\ (root' = backup /\ backup' = NoTree) \/ (root' = root /\ backup' = backup)
          /\ UNCHANGED <<staging, task, folder, scratch, pin, outcome, runs>>
      <3>1. (root' = backup /\ backup' = NoTree) \/ (root' = root /\ backup' = backup)
        BY <1>3 DEF MoveInFails
      <3>2. UNCHANGED <<staging, task, folder, scratch, pin, outcome, runs>>
        BY <1>3 DEF MoveInFails
      <3>. QED  BY <3>1, <3>2
    <2>4. TypeOK'
      BY <2>1, <2>2, <2>3 DEF IInv, TypeOK, Kept, Runs, Steps
    <2>5. Staged' /\ Installed' /\ Protected' /\ OldTree' /\ PutBack'
      BY <2>1, <2>3 DEF IInv, Staged, Installed, Protected, OldTree, PutBack, Kept
    <2>6. Blamed'
      BY <1>0, <2>1, <2>2, Later DEF IInv, Blamed, RollbackNeedsFault, Kept
    <2>. QED  BY <2>4, <2>5, <2>6 DEF IInv
  <1>. QED  BY <1>1, <1>2, <1>3

\* The list of the runtime is closed on its own path, and the scratch root with it.
LEMMA ClosingHolds ==
    ASSUME IInv, CloseRoot \/ MeasureRoot \/ CloseScratch
    PROVE  IInv'
  <1>. USE Nothing, InstallConstants
       DEF Installing, Restoring, Removing, PinSaved, FolderClosed, TaskClosed,
           Registered, ScratchClosed, RootMeasured, MovedIn, Untouched
  <1>0. run \in Runs /\ faults \in 0..MaxFaults /\ Restoring \cup Installing \subseteq Steps
    BY DEF IInv, TypeOK, Runs, Steps
  <1>1. CASE CloseRoot
    <2>1. /\ run.pc = "close root" /\ run' \in Runs /\ run'.pc = "measure root"
          /\ Kept /\ run'.ok = run.ok
      BY <1>0, <1>1, Advanced DEF CloseRoot
    <2>2. /\ faults' \in 0..MaxFaults
          /\ faults' = faults \/ faults < faults'
          /\ faults' = faults => root' = [root EXCEPT !.closed = TRUE]
          /\ \/ root' = [root EXCEPT !.closed = TRUE]
             \/ root' = [root EXCEPT !.closed = FALSE]
      <3>1. CASE root' = [root EXCEPT !.closed = TRUE] /\ faults' = faults
        BY <1>0, <3>1
      <3>2. CASE root' = [root EXCEPT !.closed = FALSE] /\ Fault
        <4>1. faults' \in 0..MaxFaults /\ faults < faults'  BY <1>0, <3>2, Failed
        <4>2. faults' # faults  BY <1>0, <4>1, Counts
        <4>. QED  BY <3>2, <4>1, <4>2
      <3>. QED  BY <1>1, <3>1, <3>2 DEF CloseRoot
    <2>3. /\ root' \in Tree /\ root'.ver = root.ver /\ root'.whole = root.whole
          /\ faults' = faults => root'.closed
      <3>1. root \in Tree  BY <2>1 DEF IInv, TypeOK, Installed
      <3>. QED  BY <2>2, <3>1 DEF Tree
    <2>4. UNCHANGED <<backup, staging, task, folder, scratch, pin, outcome, runs>>
      BY <1>1 DEF CloseRoot
    <2>5. TypeOK'
      BY <2>1, <2>2, <2>3, <2>4 DEF IInv, TypeOK, Kept, Runs, Steps
    <2>6. Staged' /\ Installed' /\ Protected' /\ OldTree' /\ PutBack'
      BY <2>1, <2>3, <2>4 DEF IInv, Staged, Installed, Protected, OldTree, PutBack, Kept
    <2>7. Blamed'
      BY <1>0, <2>1, <2>2, <2>3, Later DEF IInv, Blamed, RollbackNeedsFault, Kept
    <2>. QED  BY <2>5, <2>6, <2>7 DEF IInv
  <1>2. CASE MeasureRoot
    <2>1. /\ run.pc = "measure root" /\ run' \in Runs /\ run'.pc = "scratch" /\ Kept /\ run'.ok = run.ok
      BY <1>0, <1>2, Advanced DEF MeasureRoot
    <2>2. TypeOK'
      BY <1>2, <2>1 DEF IInv, TypeOK, Kept, Runs, Steps, Outcomes, machine, MeasureRoot
    <2>3. Staged' /\ Installed' /\ Protected'
      BY <1>2, <2>1 DEF IInv, TypeOK, machine, Staged, Installed, Protected, Kept, MeasureRoot
    <2>4. OldTree' /\ PutBack' /\ Blamed'
      BY <1>2, <2>1 DEF IInv, TypeOK, machine, OldTree, PutBack, Blamed, RollbackNeedsFault, Kept, MeasureRoot
    <2>. QED  BY <2>2, <2>3, <2>4 DEF IInv
  <1>3. CASE CloseScratch
    <2>1. /\ run.pc = "scratch" /\ run' \in Runs /\ run'.pc = "register" /\ Kept /\ run'.ok = run.ok
      BY <1>0, <1>3, Advanced DEF CloseScratch
    <2>2. TypeOK'
      BY <1>3, <2>1 DEF IInv, TypeOK, Kept, Runs, Steps, Outcomes, machine, CloseScratch
    <2>3. Staged' /\ Installed' /\ Protected'
      BY <1>3, <2>1 DEF IInv, TypeOK, machine, Staged, Installed, Protected, Kept, CloseScratch
    <2>4. OldTree' /\ PutBack' /\ Blamed'
      BY <1>3, <2>1 DEF IInv, TypeOK, machine, OldTree, PutBack, Blamed, RollbackNeedsFault, Kept, CloseScratch
    <2>. QED  BY <2>2, <2>3, <2>4 DEF IInv
  <1>. QED  BY <1>1, <1>2, <1>3

\* The task is registered anew, and it and its folder get their descriptors.
LEMMA TaskHolds ==
    ASSUME IInv, Register \/ TaskSd \/ FolderSd
    PROVE  IInv'
  <1>. USE Nothing, InstallConstants
       DEF Installing, Restoring, Removing, PinSaved, FolderClosed, TaskClosed,
           Registered, ScratchClosed, RootMeasured, MovedIn, Untouched
  <1>0. run \in Runs /\ faults \in 0..MaxFaults /\ Restoring \cup Installing \subseteq Steps
    BY DEF IInv, TypeOK, Runs, Steps
  <1>1. CASE Register
    <2>1. /\ run.pc = "register" /\ run' \in Runs /\ run'.pc = "task sd" /\ Kept /\ run'.ok = run.ok
          /\ task' \in Task /\ task'.enabled
          /\ UNCHANGED <<root, backup, staging, folder, scratch, pin, outcome, runs, faults>>
      BY <1>0, <1>1, Advanced DEF Register, Fresh, Task
    <2>2. TypeOK'
      BY <2>1 DEF IInv, TypeOK, Kept, Runs, Steps, Outcomes, machine
    <2>3. Staged' /\ Installed' /\ Protected'
      BY <2>1 DEF IInv, TypeOK, machine, Staged, Installed, Protected, Kept
    <2>4. OldTree' /\ PutBack' /\ Blamed'
      BY <2>1 DEF IInv, TypeOK, machine, OldTree, PutBack, Blamed, RollbackNeedsFault, Kept
    <2>. QED  BY <2>2, <2>3, <2>4 DEF IInv
  <1>2. CASE TaskSd
    <2>1. /\ run.pc = "task sd" /\ run' \in Runs /\ run'.pc = "folder sd" /\ Kept /\ run'.ok = run.ok
          /\ task' \in Task /\ task'.sd /\ task'.enabled = task.enabled
          /\ UNCHANGED <<root, backup, staging, folder, scratch, pin, outcome, runs, faults>>
      BY <1>0, <1>2, Advanced DEF TaskSd, IInv, TypeOK, Installed, Task
    <2>2. TypeOK'
      BY <2>1 DEF IInv, TypeOK, Kept, Runs, Steps, Outcomes, machine
    <2>3. Staged' /\ Installed' /\ Protected'
      BY <2>1 DEF IInv, TypeOK, machine, Staged, Installed, Protected, Kept
    <2>4. OldTree' /\ PutBack' /\ Blamed'
      BY <2>1 DEF IInv, TypeOK, machine, OldTree, PutBack, Blamed, RollbackNeedsFault, Kept
    <2>. QED  BY <2>2, <2>3, <2>4 DEF IInv
  <1>3. CASE FolderSd
    <2>1. /\ run.pc = "folder sd" /\ run' \in Runs /\ run'.pc = "save pin" /\ Kept /\ run'.ok = run.ok
      BY <1>0, <1>3, Advanced DEF FolderSd
    <2>2. TypeOK'
      BY <1>3, <2>1 DEF IInv, TypeOK, Kept, Runs, Steps, Outcomes, machine, FolderSd
    <2>3. Staged' /\ Installed' /\ Protected'
      BY <1>3, <2>1 DEF IInv, TypeOK, machine, Staged, Installed, Protected, Kept, FolderSd
    <2>4. OldTree' /\ PutBack' /\ Blamed'
      BY <1>3, <2>1 DEF IInv, TypeOK, machine, OldTree, PutBack, Blamed, RollbackNeedsFault, Kept, FolderSd
    <2>. QED  BY <2>2, <2>3, <2>4 DEF IInv
  <1>. QED  BY <1>1, <1>2, <1>3

\* The pin is written into a protected machine, closed and measured.
LEMMA PinHolds ==
    ASSUME IInv, SavePin \/ ClosePin \/ MeasurePin \/ Verify \/ Start
    PROVE  IInv'
  <1>. USE Nothing, InstallConstants
       DEF Installing, Restoring, Removing, PinSaved, FolderClosed, TaskClosed,
           Registered, ScratchClosed, RootMeasured, MovedIn, Untouched
  <1>0. run \in Runs /\ faults \in 0..MaxFaults /\ Restoring \cup Installing \subseteq Steps
    BY DEF IInv, TypeOK, Runs, Steps
  <1>1. CASE SavePin
    <2>1. /\ run.pc = "save pin" /\ run' \in Runs /\ run'.pc = "close pin" /\ Kept /\ run'.ok = run.ok
          /\ pin' \in Pin /\ pin'.ver = run.ver
          /\ UNCHANGED <<root, backup, staging, task, folder, scratch, outcome, runs, faults>>
      BY <1>0, <1>1, Advanced DEF SavePin, IInv, Installed, Pin
    <2>2. TypeOK'
      BY <2>1 DEF IInv, TypeOK, Kept, Runs, Steps, Outcomes, machine
    <2>3. Staged' /\ Installed' /\ Protected'
      BY <2>1 DEF IInv, TypeOK, machine, Staged, Installed, Protected, Kept
    <2>4. OldTree' /\ PutBack' /\ Blamed'
      BY <2>1 DEF IInv, TypeOK, machine, OldTree, PutBack, Blamed, RollbackNeedsFault, Kept
    <2>. QED  BY <2>2, <2>3, <2>4 DEF IInv
  <1>2. CASE ClosePin
    <2>1. /\ run.pc = "close pin" /\ run' \in Runs /\ run'.pc = "measure pin" /\ Kept /\ run'.ok = run.ok
          /\ pin' \in Pin /\ pin'.ver = pin.ver /\ pin'.closed
          /\ UNCHANGED <<root, backup, staging, task, folder, scratch, outcome, runs, faults>>
      BY <1>0, <1>2, Advanced DEF ClosePin, IInv, TypeOK, Installed, Pin
    <2>2. TypeOK'
      BY <2>1 DEF IInv, TypeOK, Kept, Runs, Steps, Outcomes, machine
    <2>3. Staged' /\ Installed' /\ Protected'
      BY <2>1 DEF IInv, TypeOK, machine, Staged, Installed, Protected, Kept
    <2>4. OldTree' /\ PutBack' /\ Blamed'
      BY <2>1 DEF IInv, TypeOK, machine, OldTree, PutBack, Blamed, RollbackNeedsFault, Kept
    <2>. QED  BY <2>2, <2>3, <2>4 DEF IInv
  <1>3. CASE MeasurePin
    <2>1. /\ run.pc = "measure pin" /\ run' \in Runs /\ run'.pc = "verify" /\ Kept /\ run'.ok = run.ok
      BY <1>0, <1>3, Advanced DEF MeasurePin
    <2>2. TypeOK'
      BY <1>3, <2>1 DEF IInv, TypeOK, Kept, Runs, Steps, Outcomes, machine, MeasurePin
    <2>3. Staged' /\ Installed' /\ Protected'
      BY <1>3, <2>1 DEF IInv, TypeOK, machine, Staged, Installed, Protected, Kept, MeasurePin
    <2>4. OldTree' /\ PutBack' /\ Blamed'
      BY <1>3, <2>1 DEF IInv, TypeOK, machine, OldTree, PutBack, Blamed, RollbackNeedsFault, Kept, MeasurePin
    <2>. QED  BY <2>2, <2>3, <2>4 DEF IInv
  <1>4. CASE Verify
    <2>1. /\ run.pc = "verify" /\ run' \in Runs /\ run'.pc = "start" /\ Kept /\ run'.ok = run.ok
      BY <1>0, <1>4, Advanced DEF Verify
    <2>2. TypeOK'
      BY <1>4, <2>1 DEF IInv, TypeOK, Kept, Runs, Steps, Outcomes, machine, Verify
    <2>3. Staged' /\ Installed' /\ Protected'
      BY <1>4, <2>1 DEF IInv, TypeOK, machine, Staged, Installed, Protected, Kept, Verify
    <2>4. OldTree' /\ PutBack' /\ Blamed'
      BY <1>4, <2>1 DEF IInv, TypeOK, machine, OldTree, PutBack, Blamed, RollbackNeedsFault, Kept, Verify
    <2>. QED  BY <2>2, <2>3, <2>4 DEF IInv
  <1>5. CASE Start
    <2>1. /\ run.pc = "start" /\ run' \in Runs /\ run'.pc = "confirm" /\ Kept /\ run'.ok = run.ok
      BY <1>0, <1>5, Advanced DEF Start
    <2>2. TypeOK'
      BY <1>5, <2>1 DEF IInv, TypeOK, Kept, Runs, Steps, Outcomes, machine, Start
    <2>3. Staged' /\ Installed' /\ Protected'
      BY <1>5, <2>1 DEF IInv, TypeOK, machine, Staged, Installed, Protected, Kept, Start
    <2>4. OldTree' /\ PutBack' /\ Blamed'
      BY <1>5, <2>1 DEF IInv, TypeOK, machine, OldTree, PutBack, Blamed, RollbackNeedsFault, Kept, Start
    <2>. QED  BY <2>2, <2>3, <2>4 DEF IInv
  <1>. QED  BY <1>1, <1>2, <1>3, <1>4, <1>5

\* A stage that finds missing what it demands has had a failure before it.
LEMMA DemandsAreMet ==
    ASSUME IInv, run.pc \in Installing, ~Demanded
    PROVE  faults > run.since
  <1>. USE Nothing, InstallConstants
       DEF Installing, Restoring, Removing, PinSaved, FolderClosed, TaskClosed,
           Registered, ScratchClosed, RootMeasured, MovedIn, Untouched
  <1>0. run \in Runs /\ faults \in 0..MaxFaults /\ Restoring \cup Installing \subseteq Steps
    BY DEF IInv, TypeOK, Runs, Steps
  <1>1. CASE run.pc = "measure staging"  BY <1>1 DEF Demanded, IInv, Staged
  <1>2. CASE run.pc = "measure root"  BY <1>2 DEF Demanded, IInv, Blamed
  <1>3. CASE run.pc = "measure pin"  BY <1>3 DEF Demanded, IInv, Installed
  <1>4. CASE run.pc = "verify"  
    BY <1>4 DEF Demanded, Verifies, RuntimeVerifies, TaskVerifies, IInv, TypeOK, Installed, Blamed
  <1>5. CASE run.pc \in {"start", "confirm"}  
    BY <1>5 DEF Demanded, IInv, Blamed
  <1>6. run.pc \in {"measure staging", "measure root", "measure pin", "verify", "start", "confirm"}
    BY DEF Demanded
  <1>. QED  BY <1>1, <1>2, <1>3, <1>4, <1>5, <1>6

\* A stage raises: what it has done so far is there to be undone.
LEMMA RaiseHolds ==
    ASSUME IInv, Raise
    PROVE  IInv'
  <1>. USE Nothing, InstallConstants
       DEF Installing, Restoring, Removing, PinSaved, FolderClosed, TaskClosed,
           Registered, ScratchClosed, RootMeasured, MovedIn, Untouched
  <1>0. run \in Runs /\ faults \in 0..MaxFaults /\ Restoring \cup Installing \subseteq Steps
    BY DEF IInv, TypeOK, Runs, Steps
  <1>1. /\ run.pc \in Installing \ {"move in"} /\ run' \in Runs /\ run'.pc = "undo task"
        /\ Kept /\ run'.ok = run.ok
        /\ UNCHANGED <<root, backup, staging, task, folder, scratch, pin, outcome, runs>>
    BY <1>0, Went DEF Raise, machine
  <1>2. faults' \in 0..MaxFaults /\ faults <= faults' /\ run.since < faults'
    <2>1. run.since \in Nat /\ faults \in Nat /\ run.since <= faults
      <3>1. run.since \in 0..MaxFaults /\ run.since <= faults
        BY <1>0 DEF Runs, IInv, Blamed
      <3>. QED  BY <1>0, <3>1, Counts
    <2>2. CASE Demanded
      <3>1. Fault  BY <2>2 DEF Raise
      <3>2. faults' \in 0..MaxFaults /\ faults < faults'  BY <1>0, <3>1, Failed
      <3>3. faults' \in Nat  BY <3>2
      <3>. QED  BY <2>1, <3>2, <3>3
    <2>3. CASE ~Demanded
      <3>1. faults' = faults  BY <2>3 DEF Raise
      <3>2. faults > run.since  BY <1>1, <2>3, DemandsAreMet
      <3>3. faults' \in 0..MaxFaults /\ faults <= faults'  BY <1>0, <3>1, Counts
      <3>. QED  BY <3>1, <3>2, <3>3
    <2>. QED  BY <2>2, <2>3
  <1>3. TypeOK'
    BY <1>1, <1>2 DEF IInv, TypeOK, Kept, Runs, Steps, Outcomes
  <1>4. Staged' /\ Installed' /\ Protected'
    BY <1>1 DEF IInv, Staged, Installed, Protected, Kept
  <1>5. OldTree' /\ PutBack'
    BY <1>1 DEF IInv, OldTree, PutBack, Kept
  <1>6. Blamed'
    <2>1. run'.since < faults' /\ run'.since \in 0..MaxFaults
      BY <1>0, <1>1, <1>2 DEF Kept, Runs
    <2>2. run'.since <= faults'
      <3>1. run'.since \in Nat /\ faults' \in Nat  BY <1>2, <2>1
      <3>. QED  BY <2>1, <3>1
    <2>. QED  BY <1>1, <2>1, <2>2 DEF Blamed, RollbackNeedsFault
  <1>. QED  BY <1>3, <1>4, <1>5, <1>6 DEF IInv

\* The task goes first, then the runtime and the pin are put back; a part that failed is
\* remembered.
LEMMA UndoHolds ==
    ASSUME IInv, UndoTask \/ UndoTree \/ UndoPin
    PROVE  IInv'
  <1>. USE Nothing, InstallConstants
       DEF Installing, Restoring, Removing, PinSaved, FolderClosed, TaskClosed,
           Registered, ScratchClosed, RootMeasured, MovedIn, Untouched
  <1>0. run \in Runs /\ faults \in 0..MaxFaults /\ Restoring \cup Installing \subseteq Steps
    BY DEF IInv, TypeOK, Runs, Steps
  <1>1. CASE UndoTask
    <2>1. /\ run.pc = "undo task" /\ run' \in Runs /\ run'.pc = "undo tree" /\ Kept
          /\ run'.ok => run.ok
          /\ faults' \in 0..MaxFaults /\ (faults' = faults \/ faults < faults')
          /\ task' \in {task, NoTask} /\ (run'.ok => task' = NoTask)
      <3>1. CASE Tried("undo task", "undo tree", TRUE) /\ task' = NoTask
        BY <1>0, <3>1, Worked
      <3>2. CASE Tried("undo task", "undo tree", FALSE) /\ task' = task
        BY <1>0, <3>2, Lost
      <3>. QED  BY <1>1, <3>1, <3>2 DEF UndoTask
    <2>2. UNCHANGED <<root, backup, staging, folder, scratch, pin, outcome, runs>>
      BY <1>1 DEF UndoTask
    <2>3. TypeOK'
      BY <2>1, <2>2 DEF IInv, TypeOK, Kept, Runs, Steps, machine
    <2>4. Staged' /\ Installed' /\ Protected'
      BY <2>1, <2>2 DEF IInv, TypeOK, Staged, Installed, Protected, Kept
    <2>5. OldTree' /\ PutBack'
      BY <2>1, <2>2 DEF IInv, TypeOK, OldTree, PutBack, Kept
    <2>6. Blamed'
      BY <1>0, <2>1, <2>2, Later DEF IInv, Blamed, RollbackNeedsFault, Kept
    <2>. QED  BY <2>3, <2>4, <2>5, <2>6 DEF IInv
  <1>2. CASE UndoTree
    <2>1. /\ run.pc = "undo tree" /\ run' \in Runs /\ run'.pc = "undo pin" /\ Kept
          /\ run'.ok => run.ok
          /\ faults' \in 0..MaxFaults /\ (faults' = faults \/ faults < faults')
          /\ root' \in Tree \cup {NoTree} /\ (run'.ok => root' = run.snap.tree)
          /\ backup' \in {backup, NoTree} /\ staging' = NoTree
      <3>0. /\ root \in Tree \cup {NoTree} /\ backup \in Tree \cup {NoTree}
            /\ "undo pin" \in Steps
        BY DEF IInv, TypeOK, Steps
      <3>1. CASE /\ Tried("undo tree", "undo pin", TRUE) /\ staging' = NoTree
                 /\ \/ root' = backup /\ backup' = NoTree /\ backup # NoTree
                       /\ run.snap.tree # NoTree
                    \/ root' = NoTree /\ backup' = backup /\ run.snap.tree = NoTree
        <4>1. run.pc = "undo tree"  BY <1>0, <3>0, <3>1, Worked
        <4>2. root' = run.snap.tree /\ root' \in Tree \cup {NoTree}
          BY <3>0, <3>1, <4>1 DEF IInv, OldTree
        <4>. QED  BY <1>0, <3>0, <3>1, <4>2, Worked
      <3>2. CASE /\ Tried("undo tree", "undo pin", FALSE) /\ staging' = NoTree
                 /\ root' = Remains(root) /\ backup' = backup
        <4>1. Remains(root) \in Tree \cup {NoTree}  BY <3>0 DEF Remains, Tree
        <4>. QED  BY <1>0, <3>0, <3>2, <4>1, Lost
      <3>3. CASE /\ run.snap.tree # NoTree /\ backup = NoTree /\ run.pc = "undo tree"
                 /\ run' = [run EXCEPT !.pc = "undo pin", !.ok = @ /\ root # NoTree]
                 /\ UNCHANGED <<root, backup, faults>> /\ staging' = NoTree
        <4>1. run' \in Runs /\ run'.pc = "undo pin" /\ Kept /\ (run'.ok => run.ok)
          BY <1>0, <3>0, <3>3 DEF Runs, Kept
        <4>2. root' = run.snap.tree  BY <3>3 DEF IInv, OldTree
        <4>. QED  BY <1>0, <3>0, <3>3, <4>1, <4>2
      <3>. QED  BY <1>2, <3>1, <3>2, <3>3 DEF UndoTree
    <2>2. UNCHANGED <<task, folder, scratch, pin, outcome, runs>>
      BY <1>2 DEF UndoTree
    <2>3. TypeOK'
      BY <2>1, <2>2 DEF IInv, TypeOK, Kept, Runs, Steps, machine
    <2>4. Staged' /\ Installed' /\ Protected'
      BY <2>1, <2>2 DEF IInv, TypeOK, Staged, Installed, Protected, Kept
    <2>5. OldTree' /\ PutBack'
      BY <2>1, <2>2 DEF IInv, TypeOK, OldTree, PutBack, Kept
    <2>6. Blamed'
      BY <1>0, <2>1, <2>2, Later DEF IInv, Blamed, RollbackNeedsFault, Kept
    <2>. QED  BY <2>3, <2>4, <2>5, <2>6 DEF IInv
  <1>3. CASE UndoPin
    <2>1. /\ run.pc = "undo pin" /\ run' \in Runs /\ run'.pc = "redo task" /\ Kept
          /\ run'.ok => run.ok
          /\ faults' \in 0..MaxFaults /\ (faults' = faults \/ faults < faults')
          /\ pin' \in Pin \cup {NoPin} /\ (run'.ok => pin'.ver = run.snap.pin.ver)
          /\ pin' # NoPin => pin # NoPin \/ run.snap.pin # NoPin
      <3>1. CASE /\ Tried("undo pin", "redo task", TRUE)
                 /\ pin' = IF run.snap.pin = NoPin THEN NoPin ELSE [run.snap.pin EXCEPT !.closed = TRUE]
        BY <1>0, <3>1, Worked DEF Runs, Snapshot, Pin
      <3>2. CASE /\ run.snap.pin # NoPin /\ run.pc = "undo pin" /\ Goto("redo task") /\ Fault
                 /\ pin' = [run.snap.pin EXCEPT !.closed = FALSE]
        BY <1>0, <3>2, Went, Failed DEF Runs, Snapshot, Pin
      <3>3. CASE Tried("undo pin", "redo task", FALSE) /\ pin' = pin
        <4>1. pin \in Pin \cup {NoPin}  BY DEF IInv, TypeOK
        <4>. QED  BY <1>0, <3>3, <4>1, Lost
      <3>. QED  BY <1>3, <3>1, <3>2, <3>3 DEF UndoPin
    <2>2. UNCHANGED <<root, backup, staging, task, folder, scratch, outcome, runs>>
      BY <1>3 DEF UndoPin
    <2>3. TypeOK'
      BY <2>1, <2>2 DEF IInv, TypeOK, Kept, Runs, Steps, machine
    <2>4. Staged' /\ Installed' /\ Protected'
      BY <2>1, <2>2 DEF IInv, TypeOK, Staged, Installed, Protected, Kept
    <2>5. OldTree' /\ PutBack'
      BY <2>1, <2>2 DEF IInv, TypeOK, OldTree, PutBack, Kept
    <2>6. Blamed'
      BY <1>0, <2>1, <2>2, Later DEF IInv, Blamed, RollbackNeedsFault, Kept
    <2>. QED  BY <2>3, <2>4, <2>5, <2>6 DEF IInv
  <1>. QED  BY <1>1, <1>2, <1>3

\* The old task is registered again, and gets its descriptor back.
LEMMA RedoHolds ==
    ASSUME IInv, RedoTask \/ RedoSd
    PROVE  IInv'
  <1>. USE Nothing, InstallConstants
       DEF Installing, Restoring, Removing, PinSaved, FolderClosed, TaskClosed,
           Registered, ScratchClosed, RootMeasured, MovedIn, Untouched
  <1>0. run \in Runs /\ faults \in 0..MaxFaults /\ Restoring \cup Installing \subseteq Steps
    BY DEF IInv, TypeOK, Runs, Steps
  <1>1. CASE RedoTask
    <2>1. /\ run.pc = "redo task" /\ run' \in Runs /\ run'.pc \in {"judge", "redo sd"} /\ Kept
          /\ run'.ok => run.ok
          /\ faults' \in 0..MaxFaults /\ (faults' = faults \/ faults < faults')
          /\ run'.pc = "judge" => task' = task /\ (run'.ok => run.snap.task = NoTask)
          /\ run'.pc = "redo sd" => task' \in Task /\ run.snap.task # NoTask
      <3>1. CASE /\ run.snap.task = NoTask /\ Advance("redo task", "judge")
                 /\ UNCHANGED <<task, faults>>
        BY <1>0, <3>1, Advanced
      <3>2. CASE /\ run.snap.task # NoTask /\ Tried("redo task", "redo sd", TRUE)
                 /\ task' = Fresh
        BY <1>0, <3>2, Worked DEF Fresh, Task
      <3>3. CASE Tried("redo task", "judge", FALSE) /\ task' = task
        BY <1>0, <3>3, Lost
      <3>. QED  BY <1>1, <3>1, <3>2, <3>3 DEF RedoTask
    <2>2. UNCHANGED <<root, backup, staging, folder, scratch, pin, outcome, runs>>
      BY <1>1 DEF RedoTask
    <2>3. TypeOK'
      BY <2>1, <2>2 DEF IInv, TypeOK, Kept, Runs, Steps, machine
    <2>4. Staged' /\ Installed' /\ Protected'
      <3>1. Staged'  BY <2>1 DEF Staged
      <3>2. run'.pc = "redo sd" => task' # NoTask  BY <2>1
      <3>3. Installed'  BY <2>1, <2>2, <3>2 DEF Installed, Kept
      <3>4. Protected'  BY <2>1, <2>2 DEF IInv, Protected, Kept
      <3>. QED  BY <3>1, <3>3, <3>4
    <2>5. OldTree' /\ PutBack'
      BY <2>1, <2>2 DEF IInv, TypeOK, OldTree, PutBack, Kept
    <2>6. Blamed'
      BY <1>0, <2>1, <2>2, Later DEF IInv, Blamed, RollbackNeedsFault, Kept
    <2>. QED  BY <2>3, <2>4, <2>5, <2>6 DEF IInv
  <1>2. CASE RedoSd
    <2>1. /\ run.pc = "redo sd" /\ run' \in Runs /\ run'.pc = "judge" /\ Kept
          /\ run'.ok => run.ok
          /\ faults' \in 0..MaxFaults /\ (faults' = faults \/ faults < faults')
          /\ task' \in Task /\ (run'.ok => task' = run.snap.task)
      <3>0. /\ run.pc = "redo sd" => task \in Task /\ run.snap.task \in Task
            /\ "judge" \in Steps
        <4>1. run.snap \in Snapshot  BY <1>0 DEF Runs
        <4>2. run.snap.task \in Task \cup {NoTask}  BY <4>1 DEF Snapshot
        <4>. QED  BY <4>2 DEF IInv, TypeOK, Installed, Steps
      <3>1. CASE /\ Tried("redo sd", "judge", TRUE)
                 /\ task' = [sd |-> run.snap.task.sd, enabled |-> run.snap.task.enabled]
        <4>1. /\ run.pc = "redo sd" /\ run' \in Runs /\ run'.pc = "judge" /\ Kept
              /\ (run'.ok => run.ok) /\ faults' = faults
          BY <1>0, <3>0, <3>1, Worked
        <4>2. task' \in Task /\ task' = run.snap.task  BY <3>0, <3>1, <4>1 DEF Task
        <4>. QED  BY <1>0, <4>1, <4>2
      <3>2. CASE /\ Tried("redo sd", "judge", FALSE)
                 /\ task' = [task EXCEPT !.enabled = run.snap.task.enabled]
        <4>1. /\ run.pc = "redo sd" /\ run' \in Runs /\ run'.pc = "judge" /\ Kept /\ ~run'.ok
              /\ faults' \in 0..MaxFaults /\ faults < faults'
          BY <1>0, <3>0, <3>2, Lost
        <4>2. task' \in Task  BY <3>0, <3>2, <4>1 DEF Task
        <4>. QED  BY <4>1, <4>2
      <3>3. CASE /\ run.pc = "redo sd" /\ run' = [run EXCEPT !.pc = "judge", !.ok = FALSE]
                 /\ task' = [task EXCEPT !.enabled = run.snap.task.enabled] /\ UNCHANGED faults
        <4>1. run' \in Runs /\ run'.pc = "judge" /\ Kept /\ ~run'.ok
          BY <1>0, <3>0, <3>3 DEF Kept, Runs
        <4>2. task' \in Task  BY <3>0, <3>3 DEF Task
        <4>. QED  BY <1>0, <3>3, <4>1, <4>2
      <3>. QED  BY <1>2, <3>1, <3>2, <3>3 DEF RedoSd
    <2>2. UNCHANGED <<root, backup, staging, folder, scratch, pin, outcome, runs>>
      BY <1>2 DEF RedoSd
    <2>3. TypeOK'
      BY <2>1, <2>2 DEF IInv, TypeOK, Kept, Runs, Steps, machine
    <2>4. Staged' /\ Installed' /\ Protected'
      BY <2>1, <2>2 DEF IInv, TypeOK, Staged, Installed, Protected, Kept
    <2>5. OldTree' /\ PutBack'
      BY <2>1, <2>2 DEF IInv, TypeOK, OldTree, PutBack, Kept
    <2>6. Blamed'
      BY <1>0, <2>1, <2>2, Later DEF IInv, Blamed, RollbackNeedsFault, Kept
    <2>. QED  BY <2>3, <2>4, <2>5, <2>6 DEF IInv
  <1>. QED  BY <1>1, <1>2

\* Between two installations, and while one is removed, little has to hold.
LEMMA OutsideHolds ==
    ASSUME IInv,
           run' \in Runs, run'.pc \in Removing \cup {"idle"}, run'.snap.pin \in {run.snap.pin, NoPin},
           {root', backup', staging'} \subseteq Tree \cup {NoTree}, task' \in Task \cup {NoTask},
           scratch' \in BOOLEAN, outcome' \in Outcomes, runs' \in 0..MaxRuns,
           faults' \in 0..MaxFaults, run'.since <= faults',
           UNCHANGED folder, pin' \in {pin, NoPin}
    PROVE  IInv'
  <1>. USE Nothing, InstallConstants
       DEF Installing, Restoring, Removing, PinSaved, FolderClosed, TaskClosed,
           Registered, ScratchClosed, RootMeasured, MovedIn, Untouched
  <1>0. run \in Runs /\ faults \in 0..MaxFaults /\ Restoring \cup Installing \subseteq Steps
    BY DEF IInv, TypeOK, Runs, Steps
  <1>1. TypeOK'
    BY DEF IInv, TypeOK, Runs, Steps
  <1>2. Staged' /\ Installed'
    BY DEF Staged, Installed
  <1>3. Protected'
    BY DEF IInv, Protected
  <1>4. OldTree' /\ PutBack'
    BY DEF OldTree, PutBack
  <1>5. Blamed'
    BY DEF Blamed, RollbackNeedsFault
  <1>. QED  BY <1>1, <1>2, <1>3, <1>4, <1>5 DEF IInv

LEMMA EndHolds ==
    ASSUME IInv, Confirm \/ Judge \/ Die
    PROVE  IInv'
  <1>1. /\ run' \in Runs /\ run'.pc = "idle" /\ run'.since = 0 /\ run'.snap.pin = NoPin
        /\ outcome' \in Outcomes
    BY Rest DEF Confirm, Judge, Die, End, Outcomes
  <1>2. faults' \in 0..MaxFaults
    BY Failed DEF Confirm, Judge, Die, IInv, TypeOK
  <1>3. /\ {root', backup', staging'} \subseteq Tree \cup {NoTree} /\ task' \in Task \cup {NoTask}
        /\ scratch' \in BOOLEAN /\ runs' \in 0..MaxRuns /\ UNCHANGED <<folder, pin>>
    BY DEF Confirm, Judge, Die, IInv, TypeOK
  <1>. QED  BY <1>1, <1>2, <1>3, OutsideHolds, InstallConstants

\* A removal tries every part.
LEMMA RemoveHolds ==
    ASSUME IInv, BeginRemove \/ RemoveStep
    PROVE  IInv'
  <1>0. /\ run \in Runs /\ faults \in 0..MaxFaults /\ runs \in 0..MaxRuns /\ run.since <= faults
        /\ root \in Tree \cup {NoTree} /\ backup \in Tree \cup {NoTree}
        /\ staging \in Tree \cup {NoTree} /\ task \in Task \cup {NoTask}
        /\ scratch \in BOOLEAN /\ outcome \in Outcomes
        /\ "none" \in Outcomes /\ "removed" \in Outcomes /\ "not removed" \in Outcomes
    BY DEF IInv, TypeOK, Blamed, Runs, Steps, Outcomes
  <1>1. /\ "remove task" \in Removing /\ "remove pin" \in Removing
        /\ "remove tree" \in Removing /\ "remove scratch" \in Removing
        /\ "remove pin" \in Steps /\ "remove tree" \in Steps /\ "remove scratch" \in Steps
    BY DEF Steps, Removing
  <1>2. ASSUME run' \in Runs, run'.pc \in Removing, Kept,
               faults' \in 0..MaxFaults, faults' = faults \/ faults < faults',
               UNCHANGED <<backup, staging, folder, scratch, outcome, runs>>,
               root' \in Tree \cup {NoTree}, task' \in {task, NoTask}, pin' \in {pin, NoPin}
        PROVE  IInv'
    <2>1. run'.since <= faults' /\ run'.snap.pin = run.snap.pin
      BY <1>0, <1>2, Later DEF Kept
    <2>. QED  BY <1>0, <1>2, <2>1, OutsideHolds
  <1>3. CASE BeginRemove
    <2>1. /\ run' \in Runs /\ run'.pc = "remove task" /\ run'.since = 0 /\ run'.snap.pin = NoPin
      BY <1>1, <1>3, Rest DEF BeginRemove, Runs, Steps
    <2>2. /\ UNCHANGED <<root, backup, staging, task, folder, scratch, pin, faults>>
          /\ outcome' = "none" /\ runs < MaxRuns /\ runs' = runs + 1
      BY <1>3 DEF BeginRemove, machine
    <2>3. runs' \in 0..MaxRuns
      <3>1. runs \in 0..MaxRuns  BY <1>0
      <3>. QED  BY <2>2, <3>1, InstallConstants
    <2>4. run'.since <= faults'
      <3>1. faults' = faults /\ faults \in 0..MaxFaults  BY <1>0, <2>2
      <3>2. 0 <= faults'  BY <3>1, InstallConstants
      <3>. QED  BY <2>1, <3>2
    <2>. QED  BY <1>0, <1>1, <2>1, <2>2, <2>3, <2>4, OutsideHolds
  <1>4. CASE RemoveTask
    <2>1. /\ run' \in Runs /\ run'.pc = "remove pin" /\ Kept
          /\ faults' \in 0..MaxFaults /\ (faults' = faults \/ faults < faults')
          /\ task' \in {task, NoTask}
      <3>1. CASE Tried("remove task", "remove pin", TRUE) /\ task' = NoTask
        BY <1>0, <1>1, <3>1, Worked
      <3>2. CASE Tried("remove task", "remove pin", FALSE) /\ task' = task
        BY <1>0, <1>1, <3>2, Lost
      <3>. QED  BY <1>4, <3>1, <3>2 DEF RemoveTask
    <2>2. UNCHANGED <<root, backup, staging, folder, scratch, pin, outcome, runs>>
      BY <1>4 DEF RemoveTask
    <2>. QED  BY <1>0, <1>1, <1>2, <2>1, <2>2
  <1>5. CASE RemovePin
    <2>1. /\ run' \in Runs /\ run'.pc = "remove tree" /\ Kept
          /\ faults' \in 0..MaxFaults /\ (faults' = faults \/ faults < faults')
          /\ pin' \in {pin, NoPin}
      <3>1. CASE Tried("remove pin", "remove tree", TRUE) /\ pin' = NoPin
        BY <1>0, <1>1, <3>1, Worked
      <3>2. CASE Tried("remove pin", "remove tree", FALSE) /\ pin' = pin
        BY <1>0, <1>1, <3>2, Lost
      <3>. QED  BY <1>5, <3>1, <3>2 DEF RemovePin
    <2>2. UNCHANGED <<root, backup, staging, task, folder, scratch, outcome, runs>>
      BY <1>5 DEF RemovePin
    <2>. QED  BY <1>0, <1>1, <1>2, <2>1, <2>2
  <1>6. CASE RemoveTree
    <2>1. /\ run' \in Runs /\ run'.pc = "remove scratch" /\ Kept
          /\ faults' \in 0..MaxFaults /\ (faults' = faults \/ faults < faults')
          /\ root' \in Tree \cup {NoTree}
      <3>1. CASE Tried("remove tree", "remove scratch", TRUE) /\ root' = NoTree
        BY <1>0, <1>1, <3>1, Worked
      <3>2. CASE Tried("remove tree", "remove scratch", FALSE) /\ root' = Remains(root)
        <4>1. Remains(root) \in Tree \cup {NoTree}  BY <1>0 DEF Remains, Tree
        <4>. QED  BY <1>0, <1>1, <3>2, <4>1, Lost
      <3>. QED  BY <1>6, <3>1, <3>2 DEF RemoveTree
    <2>2. UNCHANGED <<backup, staging, task, folder, scratch, pin, outcome, runs>>
      BY <1>6 DEF RemoveTree
    <2>. QED  BY <1>0, <1>1, <1>2, <2>1, <2>2
  <1>7. CASE RemoveScratch
    <2>1. /\ run' \in Runs /\ run'.pc = "idle" /\ run'.since = 0 /\ run'.snap.pin = NoPin
          /\ outcome' \in Outcomes
      BY <1>0, <1>7, Rest DEF RemoveScratch, End
    <2>2. scratch' \in BOOLEAN /\ faults' \in 0..MaxFaults
      <3>1. CASE scratch' = FALSE /\ faults' = faults  BY <1>0, <3>1
      <3>2. CASE Fault /\ scratch' = scratch  BY <1>0, <3>2, Failed
      <3>. QED  BY <1>7, <3>1, <3>2 DEF RemoveScratch
    <2>3. UNCHANGED <<root, backup, staging, task, folder, pin, runs>>
      BY <1>7 DEF RemoveScratch
    <2>4. run'.since <= faults'  BY <2>1, <2>2, InstallConstants
    <2>. QED  BY <1>0, <2>1, <2>2, <2>3, <2>4, OutsideHolds
  <1>. QED  BY <1>3, <1>4, <1>5, <1>6, <1>7 DEF RemoveStep

\* An administrator disables the task, which is then missing by a fault.
LEMMA DisableHolds ==
    ASSUME IInv, Disable
    PROVE  IInv'
  <1>. USE Nothing
  <1>0. run \in Runs /\ faults \in 0..MaxFaults
    BY DEF IInv, TypeOK, Runs, Steps
  <1>1. task \in Task /\ task' \in Task /\ ~task'.enabled /\ task'.sd = task.sd
    BY DEF Disable, Task, IInv, TypeOK
  <1>2. faults' \in 0..MaxFaults /\ faults < faults'
    BY <1>0, Failed DEF Disable
  <1>3. UNCHANGED <<root, backup, staging, folder, scratch, pin, run, outcome, runs>>
    BY DEF Disable
  <1>4. TypeOK'
    BY <1>1, <1>2, <1>3 DEF IInv, TypeOK, Outcomes
  <1>5. Staged' /\ Protected' /\ OldTree'
    BY <1>3 DEF IInv, Staged, Protected, OldTree
  <1>8. Installed'
    BY <1>1, <1>3 DEF IInv, Installed
  <1>6. PutBack'
    BY <1>1, <1>3 DEF IInv, PutBack
  <1>7. Blamed'
    <2>1. run'.since <= faults' /\ run'.since < faults'
      <3>1. run'.since = run.since /\ run.since <= faults
        BY <1>3 DEF IInv, Blamed
      <3>. QED  BY <1>0, <1>2, <3>1, Later
    <2>. QED  BY <1>3, <2>1 DEF Blamed, RollbackNeedsFault
  <1>. QED  BY <1>4, <1>5, <1>6, <1>7, <1>8 DEF IInv

\* An installation begins with what it finds; what it cannot read of it is a failure.
LEMMA BeginHolds ==
    ASSUME IInv, Begin
    PROVE  IInv'
  <1>. USE Nothing
       DEF Installing, Restoring, Removing, PinSaved, FolderClosed, TaskClosed,
           Registered, ScratchClosed, RootMeasured, MovedIn, Untouched
  <1>0. /\ run \in Runs /\ faults \in 0..MaxFaults /\ runs \in 0..MaxRuns
        /\ root \in Tree \cup {NoTree} /\ task \in Task \cup {NoTask} /\ pin \in Pin \cup {NoPin}
    BY DEF IInv, TypeOK, Runs, Steps
  <1>1. PICK v \in Bundles, sddl \in BOOLEAN :
            /\ ~sddl /\ task # NoTask => faults < MaxFaults
            /\ faults' = IF ~sddl /\ task # NoTask THEN faults + 1 ELSE faults
            /\ run' = [NoRun EXCEPT !.pc = "stage", !.ver = v, !.since = faults,
                          !.snap = [task |-> task, sddl |-> sddl, pin |-> pin, tree |-> root]]
    BY DEF Begin
  <1>2. PICK snap \in Snapshot :
            /\ run' = [NoRun EXCEPT !.pc = "stage", !.ver = v, !.since = faults, !.snap = snap]
            /\ snap.pin = pin /\ snap.tree = root
    <2>1. [task |-> task, sddl |-> sddl, pin |-> pin, tree |-> root] \in Snapshot
      BY <1>0 DEF Snapshot
    <2>. QED  BY <1>1, <2>1
  <1>3. /\ run' \in Runs /\ run'.pc = "stage" /\ run'.ver \in Bundles /\ run'.since = faults
        /\ run'.snap = snap
    <2>1. "stage" \in Steps  BY DEF Steps
    <2>. QED  BY <1>0, <1>2, <2>1, Rest DEF Runs
  <1>4. faults' \in 0..MaxFaults /\ faults <= faults' /\ runs' \in 0..MaxRuns
    <2>1. runs < MaxRuns /\ runs' = runs + 1  BY DEF Begin
    <2>2. runs' \in 0..MaxRuns  BY <1>0, <2>1, InstallConstants
    <2>3. CASE sddl \/ task = NoTask
      BY <1>0, <1>1, <2>2, <2>3, Counts
    <2>4. CASE ~sddl /\ task # NoTask
      <3>1. faults < MaxFaults /\ faults' = faults + 1  BY <1>1, <2>4
      <3>2. faults \in 0..MaxFaults  BY <1>0
      <3>. QED  BY <2>2, <3>1, <3>2, InstallConstants
    <2>. QED  BY <2>3, <2>4
  <1>5. /\ staging' = NoTree /\ backup' = NoTree /\ outcome' = "none"
        /\ UNCHANGED <<root, task, folder, scratch, pin>>
    BY DEF Begin
  <1>6. TypeOK'
    BY <1>3, <1>4, <1>5 DEF IInv, TypeOK, Runs, Steps, Outcomes
  <1>7. Staged' /\ Installed' /\ Protected'
    BY <1>2, <1>3, <1>5 DEF IInv, Staged, Installed, Protected
  <1>8. OldTree' /\ PutBack'
    BY <1>2, <1>3, <1>5 DEF IInv, OldTree, PutBack
  <1>9. Blamed'
    BY <1>3, <1>4 DEF Blamed, RollbackNeedsFault
  <1>. QED  BY <1>6, <1>7, <1>8, <1>9 DEF IInv

LEMMA NextHolds == IInv /\ [Next]_vars => IInv'
  <1>. SUFFICES ASSUME IInv, [Next]_vars PROVE IInv'
    OBVIOUS
  <1>1. CASE InstallStep
    BY <1>1, StagingHolds, MovingHolds, ClosingHolds, TaskHolds, PinHolds, RaiseHolds, EndHolds
       DEF InstallStep
  <1>2. CASE RestoreStep
    BY <1>2, UndoHolds, RedoHolds, EndHolds DEF RestoreStep
  <1>3. CASE Begin \/ BeginRemove \/ RemoveStep \/ Die \/ Disable
    BY <1>3, BeginHolds, RemoveHolds, EndHolds, DisableHolds
  <1>4. CASE UNCHANGED vars
    <2>1. TypeOK'  BY <1>4 DEF vars, machine, IInv, TypeOK
    <2>2. Staged' /\ Installed' /\ Protected'
      BY <1>4 DEF vars, machine, IInv, Staged, Installed, Protected
    <2>3. OldTree' /\ PutBack'
      BY <1>4 DEF vars, machine, IInv, OldTree, PutBack
    <2>4. Blamed'
      BY <1>4 DEF vars, machine, IInv, Blamed, RollbackNeedsFault
    <2>. QED  BY <2>1, <2>2, <2>3, <2>4 DEF IInv
  <1>. QED  BY <1>1, <1>2, <1>3, <1>4 DEF Next

\* The invariant the theorems follow from.
LEMMA Invariance == Spec => []IInv
  BY InitHolds, NextHolds, PTL DEF Spec

-----------------------------------------------------------------------------
\* Only a confirmed start says that it installed, and only a judged restoration that it
\* rolled back.
LEMMA WhoSays ==
    ASSUME Next
    PROVE  /\ outcome # "installed" /\ outcome' = "installed" => Confirm
           /\ outcome # "rolled back" /\ outcome' = "rolled back" => Judge
  <1>. USE DEF End
  <1>1. CASE InstallStep
    BY <1>1 DEF InstallStep, Stage, CloseStaging, MeasureStaging, MoveOut, MoveIn, MoveInFails,
       CloseRoot, MeasureRoot, CloseScratch, Register, TaskSd, FolderSd, SavePin, ClosePin,
       MeasurePin, Verify, Start, Confirm, Raise
  <1>2. CASE RestoreStep
    BY <1>2 DEF RestoreStep, UndoTask, UndoTree, UndoPin, RedoTask, RedoSd, Judge
  <1>3. CASE RemoveStep
    BY <1>3 DEF RemoveStep, RemoveTask, RemovePin, RemoveTree, RemoveScratch
  <1>4. CASE Begin \/ BeginRemove \/ Die \/ Disable
    BY <1>4 DEF Begin, BeginRemove, Die, Disable
  <1>. QED  BY <1>1, <1>2, <1>3, <1>4 DEF Next

-----------------------------------------------------------------------------
\* Every transaction keeps to its stages and to what it may leave in the machine
\* (INSTALL_STAGES, apply_install, _restore_installation, apply_remove).
THEOREM TypeCorrect == Spec => []TypeOK
  <1>1. IInv => TypeOK  BY DEF IInv
  <1>. QED  BY <1>1, Invariance, PTL

\* verify_installation does not look at the task folder; what it accepts is in a folder that
\* is protected all the same, whatever failed, died, was repaired or removed before.
THEOREM VerifiedStaysProtected == Spec => []VerifiedIsProtected
  <1>1. IInv => VerifiedIsProtected  BY DEF IInv, Protected, VerifiedIsProtected, Verifies, RuntimeVerifies, TaskVerifies
  <1>. QED  BY <1>1, Invariance, PTL

\* No installation rolls back over what an earlier one left behind: without a failure of its
\* own it ends installed.
THEOREM RollbackIsCaused == Spec => []RollbackNeedsFault
  <1>1. IInv => RollbackNeedsFault  BY DEF IInv, Blamed
  <1>. QED  BY <1>1, Invariance, PTL

\* What says that it installed verifies, is of the bundle it was given and is in a protected
\* folder (apply_install, _commission_task).
THEOREM InstallationVerifies == Spec => InstalledVerifies
  <1>1. ASSUME IInv, Confirm
        PROVE  Verifies' /\ folder' /\ pin'.ver = run.ver
    BY <1>1 DEF Confirm, Verifies, RuntimeVerifies, TaskVerifies, IInv, TypeOK, Installed, Protected, PinSaved, FolderClosed,
       TaskClosed, Registered, ScratchClosed, RootMeasured, MovedIn
  <1>2. IInv /\ [Next]_vars =>
            [outcome # "installed" /\ outcome' = "installed" =>
                Verifies' /\ folder' /\ pin'.ver = run.ver]_vars
    BY <1>1, WhoSays DEF vars
  <1>. QED  BY <1>2, Invariance, PTL DEF Spec, InstalledVerifies

\* What says that it rolled back has the runtime, the version of the pin and the task as it
\* found them, whatever of it failed before (_restore_installation).
THEOREM RollbackIsExact == Spec => RolledBackIsExact
  <1>1. ASSUME IInv, Judge, outcome' = "rolled back"
        PROVE  root' = run.snap.tree /\ pin'.ver = run.snap.pin.ver /\ task' = run.snap.task
    <2>1. run.pc = "judge" /\ run.ok /\ Reached /\ UNCHANGED <<root, pin, task>>
      BY <1>1 DEF Judge, End
    <2>2. task = run.snap.task
      BY <1>1, <2>1 DEF IInv, PutBack, Reached, Verifies, RuntimeVerifies, TaskVerifies
    <2>. QED  BY <1>1, <2>1, <2>2 DEF IInv, PutBack
  <1>2. IInv /\ [Next]_vars =>
            [outcome # "rolled back" /\ outcome' = "rolled back" =>
                LET old == run.snap IN
                /\ root' = old.tree
                /\ pin'.ver = old.pin.ver
                /\ task' = old.task]_vars
    BY <1>1, WhoSays DEF vars
  <1>. QED  BY <1>2, Invariance, PTL DEF Spec, RolledBackIsExact

-----------------------------------------------------------------------------
(* Acceptance *)

Drills == [at : {"asked", "phase", "cleanup", "write", "replace", "unsaved", "judge"},
           phase : 1..13, env : A!Fact, spoiled : BOOLEAN, aborted : BOOLEAN, box : BOOLEAN]

AcceptTypes ==
    /\ facts \in [code : A!Version, task : A!Version \cup {"none"}, policy : [Profile -> A!Version]]
    /\ drill \in [Run -> Drills \cup {A!Off}]
    /\ tmp \in A!Paper /\ record \in A!Paper
    /\ proven \subseteq A!Fact

\* A run past its last phase with every check passed has been counted, and no file grants
\* readiness for anything else.
AcceptInv ==
    /\ AcceptTypes
    /\ \A r \in Run : drill[r] \in Drills =>
         /\ drill[r].at \in {"asked", "phase"} => drill[r].phase <= 12
         /\ drill[r].phase = 13 /\ ~drill[r].spoiled => drill[r].env \in proven
    /\ tmp.ready => tmp.facts \in proven
    /\ record.ready => record.facts \in proven

LEMMA TwelvePhases == Len(A!PHASES) = 12
  BY DEF A!PHASES, A!Preflight, A!Fatal, A!Sessions, A!Endings

LEMMA OffIsNoDrill == A!Off \notin Drills
  BY DEF A!Off, Drills

LEMMA AcceptInitial == A!Init => AcceptInv
<1> SUFFICES ASSUME A!Init PROVE AcceptInv
  OBVIOUS
<1>1. AcceptTypes
  BY DEF A!Init, AcceptTypes, A!Version, A!Paper, A!Absent, A!Fact
<1>2. ~tmp.ready /\ ~record.ready
  BY DEF A!Init, A!Absent
<1>3. \A r \in Run : drill[r] \notin Drills
  BY OffIsNoDrill DEF A!Init
<1> QED BY <1>1, <1>2, <1>3 DEF AcceptInv

\* A run moves to d, or is off, while the files grant no more than before.
LEMMA DrillMove ==
    ASSUME AcceptInv, NEW r \in Run, NEW d \in Drills \cup {A!Off},
           drill' = [drill EXCEPT ![r] = d],
           facts' = facts, proven' \subseteq A!Fact, proven \subseteq proven',
           tmp' \in A!Paper, record' \in A!Paper,
           d \in Drills => /\ d.at \in {"asked", "phase"} => d.phase <= 12
                           /\ d.phase = 13 /\ ~d.spoiled => d.env \in proven',
           tmp'.ready => tmp'.facts \in proven',
           record'.ready => record'.facts \in proven'
    PROVE  AcceptInv'
<1>1. drill' \in [Run -> Drills \cup {A!Off}] /\ \A q \in Run : drill'[q] = IF q = r THEN d ELSE drill[q]
  BY DEF AcceptInv, AcceptTypes
<1>2. AcceptTypes'
  BY <1>1 DEF AcceptInv, AcceptTypes
<1>3. ASSUME NEW q \in Run, drill'[q] \in Drills
      PROVE  /\ drill'[q].at \in {"asked", "phase"} => drill'[q].phase <= 12
             /\ drill'[q].phase = 13 /\ ~drill'[q].spoiled => drill'[q].env \in proven'
  BY <1>1, <1>3 DEF AcceptInv
<1> QED BY <1>2, <1>3 DEF AcceptInv

\* What a run is before and after one of its fields is set.
LEMMA DrillFields ==
    ASSUME AcceptInv, NEW r \in Run, A!Running(r)
    PROVE  drill[r] \in Drills
  BY DEF AcceptInv, AcceptTypes, A!Running, A!Off

LEMMA AcceptRest ==
    ASSUME AcceptInv
    PROVE  /\ tmp \in A!Paper /\ record \in A!Paper /\ A!Absent \in A!Paper /\ ~A!Absent.ready
           /\ proven \subseteq A!Fact /\ A!Off \in Drills \cup {A!Off}
           /\ tmp.ready => tmp.facts \in proven
           /\ record.ready => record.facts \in proven
  BY DEF AcceptInv, AcceptTypes, A!Paper, A!Absent

\* A run that goes on to a later step.
LEMMA DrillGoes ==
    ASSUME AcceptInv, NEW r \in Run, A!Running(r),
           NEW at \in {"phase", "cleanup", "write", "replace", "unsaved", "judge"},
           at = "phase" => drill[r].phase <= 12,
           drill' = [drill EXCEPT ![r].at = at],
           facts' = facts, proven' = proven, tmp' \in A!Paper, record' \in A!Paper,
           tmp'.ready => tmp'.facts \in proven,
           record'.ready => record'.facts \in proven
    PROVE  AcceptInv'
<1> DEFINE o == drill[r]
           d == [o EXCEPT !.at = at]
<1>1. o \in Drills /\ drill' = [drill EXCEPT ![r] = d]
  BY DrillFields DEF AcceptInv, AcceptTypes
<1>2. o.phase = 13 /\ ~o.spoiled => o.env \in proven
  BY <1>1 DEF AcceptInv
<1>3. at = "phase" => o.phase <= 12
  OBVIOUS
<1> HIDE DEF o
<1>4. /\ d \in Drills /\ d.at = at /\ d.phase = o.phase /\ d.spoiled = o.spoiled /\ d.env = o.env
  BY <1>1 DEF Drills
<1>5. proven' \subseteq A!Fact
  BY AcceptRest
<1> HIDE DEF d
<1> QED BY <1>1, <1>2, <1>3, <1>4, <1>5, DrillMove

LEMMA DrillEnds ==
    ASSUME AcceptInv, NEW r \in Run, drill' = [drill EXCEPT ![r] = A!Off],
           facts' = facts, proven' = proven, tmp' \in A!Paper, record' \in A!Paper,
           tmp'.ready => tmp'.facts \in proven,
           record'.ready => record'.facts \in proven
    PROVE  AcceptInv'
  BY AcceptRest, OffIsNoDrill, DrillMove

LEMMA AcceptEdit ==
    ASSUME AcceptInv, A!Edit
    PROVE  AcceptInv'
<1>1. facts' \in [code : A!Version, task : A!Version \cup {"none"}, policy : [Profile -> A!Version]]
  BY DEF AcceptInv, AcceptTypes, A!Edit, A!Other, A!Version, A!None
<1> QED BY <1>1 DEF AcceptInv, AcceptTypes, A!Edit

LEMMA AcceptPrepare ==
    ASSUME AcceptInv, NEW r \in Run, NEW p \in Profile, A!Prepare(r, p)
    PROVE  AcceptInv'
<1> DEFINE d == [at |-> "asked", phase |-> 1, env |-> A!Measured(p),
                 spoiled |-> FALSE, aborted |-> FALSE, box |-> FALSE]
<1>1. A!Measured(p) \in A!Fact
  BY DEF A!Measured, A!Fact, AcceptInv, AcceptTypes, A!None
<1>2. d \in Drills /\ d.at = "asked" /\ d.phase = 1
  BY <1>1 DEF Drills
<1>3. drill' = [drill EXCEPT ![r] = d]
  BY DEF A!Prepare
<1> HIDE DEF d
<1>4. facts' = facts /\ proven' = proven /\ tmp' = tmp /\ record' = record
  BY DEF A!Prepare
<1>5. d.phase <= 12 /\ d.phase # 13
  BY <1>2
<1> QED BY <1>2, <1>3, <1>4, <1>5, AcceptRest, DrillMove

LEMMA AcceptAnswer ==
    ASSUME AcceptInv, NEW r \in Run, A!Answer(r)
    PROVE  AcceptInv'
<1>0. A!Running(r)
  BY DEF A!Answer, A!Running
<1>1. CASE drill' = [drill EXCEPT ![r] = A!Off]
  BY <1>1, DrillEnds, AcceptRest DEF A!Answer
<1>2. CASE drill' = [drill EXCEPT ![r].at = "phase"]
  <2>1. drill[r].phase <= 12
    BY <1>0, DrillFields DEF A!Answer, AcceptInv
  <2> QED BY <1>0, <1>2, <2>1, DrillGoes, AcceptRest DEF A!Answer
<1> QED BY <1>1, <1>2 DEF A!Answer

\* One phase: only a run that passes the last one with nothing spoiled gets past it so.
LEMMA AcceptPhase ==
    ASSUME AcceptInv, NEW r \in Run, A!Phase(r)
    PROVE  AcceptInv'
<1> DEFINE o == drill[r]
<1>1. o \in Drills /\ o.at = "phase" /\ o.phase \in 1..12 /\ drill \in [Run -> Drills \cup {A!Off}]
  <2>1. A!Running(r)
    BY DEF A!Phase, A!Running
  <2> QED BY <2>1, DrillFields DEF A!Phase, AcceptInv, AcceptTypes, Drills
<1>2. PICK came \in {"passed", "spoiled", "aborted"}, box \in BOOLEAN :
        /\ drill' = [drill EXCEPT ![r] =
               [o EXCEPT !.spoiled = @ \/ came = "spoiled",
                         !.aborted = came = "aborted",
                         !.box = box,
                         !.phase = IF came = "aborted" THEN @ ELSE @ + 1,
                         !.at = IF came = "aborted" \/ o.phase = 12 THEN "cleanup" ELSE @]]
        /\ proven' = IF /\ came = "passed" /\ ~o.spoiled /\ o.phase = 12
                     THEN proven \cup {o.env} ELSE proven
  <2>1. o.box \in BOOLEAN /\ (o.box \/ A!PHASES[o.phase] = "enroll") \in BOOLEAN
    BY <1>1 DEF Drills
  <2>2. PICK came \in {"passed", "spoiled", "aborted"} :
          \E box \in IF came = "aborted" THEN {o.box, o.box \/ A!PHASES[o.phase] = "enroll"}
                    ELSE {o.box \/ A!PHASES[o.phase] = "enroll"} :
            /\ drill' = [drill EXCEPT ![r] =
                 [o EXCEPT !.spoiled = @ \/ came = "spoiled",
                           !.aborted = came = "aborted",
                           !.box = box,
                           !.phase = IF came = "aborted" THEN @ ELSE @ + 1,
                           !.at = IF came = "aborted" \/ o.phase = Len(A!PHASES) THEN "cleanup" ELSE @]]
            /\ proven' = IF /\ came = "passed" /\ ~o.spoiled /\ o.phase = Len(A!PHASES)
                         THEN proven \cup {o.env} ELSE proven
    BY Zenon DEF A!Phase
  <2> DEFINE made == o.box \/ A!PHASES[o.phase] = "enroll"
             Moves(b) == drill' = [drill EXCEPT ![r] =
                 [o EXCEPT !.spoiled = @ \/ came = "spoiled",
                           !.aborted = came = "aborted",
                           !.box = b,
                           !.phase = IF came = "aborted" THEN @ ELSE @ + 1,
                           !.at = IF came = "aborted" \/ o.phase = Len(A!PHASES) THEN "cleanup" ELSE @]]
  <2>3. \E b \in IF came = "aborted" THEN {o.box, made} ELSE {made} : Moves(b)
    BY <2>2, Zenon
  <2>4. made \in BOOLEAN /\ o.box \in BOOLEAN
    BY <2>1
  <2> HIDE DEF Moves, made
  <2>5. PICK b \in BOOLEAN : Moves(b)
    BY <2>3, <2>4
  <2> QED BY <2>2, <2>5, TwelvePhases DEF Moves
<1> DEFINE sp == o.spoiled \/ came = "spoiled"
           ab == came = "aborted"
           ph == IF came = "aborted" THEN o.phase ELSE o.phase + 1
           at == IF came = "aborted" \/ o.phase = 12 THEN "cleanup" ELSE o.at
           d == [[o EXCEPT !.spoiled = sp, !.aborted = ab] EXCEPT !.box = box, !.phase = ph, !.at = at]
<1>3. drill' = [drill EXCEPT ![r] = d]
  BY <1>1, <1>2 DEF Drills
<1>4. /\ sp \in BOOLEAN /\ ab \in BOOLEAN /\ ph \in 1..13 /\ at \in {"phase", "cleanup"}
      /\ at = "phase" => ph <= 12
      /\ ph = 13 /\ ~sp => came = "passed" /\ ~o.spoiled /\ o.phase = 12
  BY <1>1 DEF Drills
<1>5. proven' \subseteq A!Fact /\ proven \subseteq proven' /\ (ph = 13 /\ ~sp => o.env \in proven')
  BY <1>1, <1>2, <1>4, AcceptRest DEF Drills
<1> HIDE DEF sp, ab, ph, at, o
<1>6. d \in Drills /\ d.at = at /\ d.phase = ph /\ d.spoiled = sp /\ d.env = o.env
  BY <1>1, <1>4 DEF Drills
<1> HIDE DEF d
<1>7. facts' = facts /\ tmp' = tmp /\ record' = record
  BY DEF A!Phase
<1>8. d.at \in {"asked", "phase"} => d.phase <= 12
  BY <1>4, <1>6
<1> QED BY <1>3, <1>4, <1>5, <1>6, <1>7, <1>8, AcceptRest, DrillMove

LEMMA AcceptCleanup ==
    ASSUME AcceptInv, NEW r \in Run, A!Cleanup(r)
    PROVE  AcceptInv'
<1>1. A!Running(r)
  BY DEF A!Cleanup, A!Running
<1> QED BY <1>1, AcceptRest, DrillGoes DEF A!Cleanup

LEMMA AcceptWrite ==
    ASSUME AcceptInv, NEW r \in Run, A!Write(r)
    PROVE  AcceptInv'
<1>1. A!Running(r) /\ drill[r] \in Drills
  BY DrillFields DEF A!Write, A!Running
<1>2. /\ A!BuildRecord(drill[r]) \in A!Paper
      /\ A!BuildRecord(drill[r]).ready => A!BuildRecord(drill[r]).facts \in proven
  <2>1. A!Complete(drill[r]) \in BOOLEAN /\ drill[r].env \in A!Fact
    BY <1>1 DEF A!Complete, A!Passed, Drills
  <2>2. A!Complete(drill[r]) => drill[r].phase = 13 /\ ~drill[r].spoiled
    BY <1>1, TwelvePhases DEF A!Complete, A!Passed, Drills
  <2>3. A!Complete(drill[r]) => drill[r].env \in proven
    BY <1>1, <2>2 DEF AcceptInv
  <2> QED BY <2>1, <2>3 DEF A!BuildRecord, A!Paper
<1>3. facts' = facts /\ proven' = proven
  BY DEF A!Write
<1>4. CASE /\ tmp' = A!BuildRecord(drill[r]) /\ record' = record
           /\ drill' = [drill EXCEPT ![r].at = "replace"]
  BY <1>1, <1>2, <1>3, <1>4, AcceptRest, DrillGoes
<1>5. CASE tmp' = tmp /\ record' = record /\ drill' = [drill EXCEPT ![r].at = "unsaved"]
  BY <1>1, <1>3, <1>5, AcceptRest, DrillGoes
<1> QED BY <1>4, <1>5 DEF A!Write

LEMMA AcceptReplace ==
    ASSUME AcceptInv, NEW r \in Run, A!Replace(r)
    PROVE  AcceptInv'
<1>1. A!Running(r) /\ facts' = facts /\ proven' = proven
  BY DEF A!Replace, A!Running
<1>2. CASE tmp' = tmp /\ record' = record /\ drill' = [drill EXCEPT ![r].at = "unsaved"]
  BY <1>1, <1>2, AcceptRest, DrillGoes
<1>3. CASE tmp' = A!Absent /\ record' = tmp /\ drill' = [drill EXCEPT ![r].at = "judge"]
  BY <1>1, <1>3, AcceptRest, DrillGoes
<1>4. CASE tmp' = A!Absent /\ record' = tmp /\ drill' = [drill EXCEPT ![r] = A!Off]
  BY <1>1, <1>4, AcceptRest, DrillEnds
<1> QED BY <1>2, <1>3, <1>4 DEF A!Replace, A!End

LEMMA AcceptEnds ==
    ASSUME AcceptInv, NEW r \in Run, A!Unsaved(r) \/ A!Judge(r) \/ A!Kill(r)
    PROVE  AcceptInv'
<1>1. /\ facts' = facts /\ proven' = proven /\ tmp' = tmp
      /\ record' = record \/ record' = A!Absent
      /\ drill' = [drill EXCEPT ![r] = A!Off]
  BY DEF A!Unsaved, A!Judge, A!Kill, A!End, A!Revoke
<1> QED BY <1>1, AcceptRest, DrillEnds

LEMMA AcceptStep ==
    ASSUME AcceptInv, [A!Next]_acceptVars
    PROVE  AcceptInv'
<1>1. CASE UNCHANGED acceptVars
  BY <1>1 DEF acceptVars, AcceptInv, AcceptTypes
<1>2. CASE A!Next
  BY <1>2, AcceptEdit, AcceptPrepare, AcceptAnswer, AcceptPhase, AcceptCleanup, AcceptWrite,
     AcceptReplace, AcceptEnds DEF A!Next
<1> QED BY <1>1, <1>2

\* The union.
LEMMA AcceptMoves ==
    [AllNext]_<<part, installVars, channelVars, acceptVars, guideVars>> => [A!Next]_acceptVars
  BY DEF AllNext

\* Acceptance: the gate of a migration opens only for facts that a run measured when it
\* began and proved with every check, whichever runs are side by side, die or share the
\* temporary file (sa_acceptance.py, sa_acceptance_runner.py).
THEOREM ReadyStaysProven == AllSpec => []ReadyMeansProven
<1>1. AllInit => AcceptInv
  BY AcceptInitial DEF AllInit
<1>2. AcceptInv /\ [AllNext]_<<part, installVars, channelVars, acceptVars, guideVars>> => AcceptInv'
  BY AcceptStep, AcceptMoves
<1>3. AcceptInv => ReadyMeansProven
  BY DEF AcceptInv, ReadyMeansProven, A!ReadyMeansProven, A!Evaluate
<1> QED BY <1>1, <1>2, <1>3, PTL DEF AllSpec

-----------------------------------------------------------------------------
(* HelperChannel *)

Lines == [pipe : BOOLEAN, verified : BOOLEAN, leases : Nat, user : C!Backends \cup {Nobody},
          again : BOOLEAN,
          step : {"free", "probe", "stop", "start", "await", "greet", "write", "read"}]
Sides == [pc : {"idle", "hold", "call", "check"}, op : C!Requests \cup {"none"}, tk : Nat,
          holding : BOOLEAN]
Holders(c) == {b \in C!On(c) : back[b].holding}

\* A connection of its own counts its leases at any time, the broker's until it quits.
ChanInv ==
    /\ chan \in [C!Channels -> Lines] /\ back \in [C!Backends -> Sides] /\ ops \in Nat
    /\ \A c \in C!Channels : mode = "runs" \/ c # Broker
         => chan[c].leases = Cardinality(Holders(c))

LEMMA OwnChannel == \A b \in C!Backends : C!Ch(b) \in C!Channels
  BY DEF C!Backends, C!Ch, C!Channels

LEMMA FewHolders ==
    ASSUME NEW c, NEW S, S \subseteq C!On(c)
    PROVE  IsFiniteSet(S) /\ Cardinality(S) \in Nat
<1>1. S \subseteq Shared \cup Own
  BY DEF C!On, C!Backends
<1> QED BY <1>1, FewBackends, FS_Subset, FS_CardinalityType

LEMMA ChanNew == C!NoPipe \in Lines /\ C!NoPipe.leases = 0 /\ C!NoOp \in Sides /\ ~C!NoOp.holding
  BY DEF C!NoPipe, C!NoOp, Lines, Sides

LEMMA ChanInitial == C!Init => ChanInv
<1> SUFFICES ASSUME C!Init PROVE ChanInv
  OBVIOUS
<1>1. chan = [c \in C!Channels |-> C!NoPipe] /\ back = [b \in C!Backends |-> C!NoOp] /\ ops = 0
  BY DEF C!Init
<1>2. ASSUME NEW c \in C!Channels PROVE Cardinality(Holders(c)) = 0
  <2>1. Holders(c) = {}
    BY <1>1, ChanNew DEF Holders, C!On
  <2> QED BY <2>1, FS_EmptySet
<1> QED BY <1>1, <1>2, ChanNew DEF ChanInv

\* Back end b moves to k, and its connection to l; who holds is counted.
LEMMA ChanMove ==
    ASSUME ChanInv, NEW b \in C!Backends, NEW k \in Sides, NEW l \in Lines,
           back' = [back EXCEPT ![b] = k], chan' = [chan EXCEPT ![C!Ch(b)] = l],
           mode' = mode, ops' \in Nat,
           \/ k.holding = back[b].holding /\ l.leases = chan[C!Ch(b)].leases
           \/ k.holding /\ ~back[b].holding /\ l.leases = chan[C!Ch(b)].leases + 1
           \/ /\ ~k.holding /\ back[b].holding
              /\ l.leases = C!Less(chan[C!Ch(b)].leases)
    PROVE  ChanInv'
<1> DEFINE n == C!Ch(b)
<1>1. /\ n \in C!Channels /\ chan' \in [C!Channels -> Lines] /\ back' \in [C!Backends -> Sides]
      /\ \A c \in C!Channels : chan'[c] = IF c = n THEN l ELSE chan[c]
      /\ \A d \in C!Backends : back'[d] = IF d = b THEN k ELSE back[d]
      /\ chan[n].leases \in Nat
  BY OwnChannel DEF ChanInv, Lines
<1>2. ASSUME NEW c \in C!Channels \ {n} PROVE Holders(c)' = Holders(c)
  BY <1>1 DEF Holders, C!On
<1>3. ASSUME mode = "runs" \/ n # Broker PROVE l.leases = Cardinality(Holders(n)')
  <2>1. chan[n].leases = Cardinality(Holders(n)) /\ IsFiniteSet(Holders(n))
    BY <1>1, <1>3, FewHolders DEF ChanInv, Holders
  <2>2. b \in C!On(n)
    BY DEF C!On
  <2>3. CASE k.holding = back[b].holding /\ l.leases = chan[n].leases
    <3>1. Holders(n)' = Holders(n)
      BY <1>1, <2>3 DEF Holders, C!On
    <3> QED BY <2>1, <2>3, <3>1
  <2>4. CASE k.holding /\ ~back[b].holding /\ l.leases = chan[n].leases + 1
    <3>1. Holders(n)' = Holders(n) \cup {b} /\ b \notin Holders(n)
      BY <1>1, <2>2, <2>4 DEF Holders, C!On
    <3> QED BY <2>1, <2>4, <3>1, FS_AddElement
  <2>5. CASE ~k.holding /\ back[b].holding /\ l.leases = C!Less(chan[n].leases)
    <3>1. Holders(n)' = Holders(n) \ {b} /\ b \in Holders(n)
      BY <1>1, <2>2, <2>5 DEF Holders, C!On
    <3>2. Cardinality(Holders(n) \ {b}) = Cardinality(Holders(n)) - 1
      BY <2>1, <3>1, FS_RemoveElement
    <3>3. Cardinality(Holders(n) \ {b}) \in Nat
      BY <2>1, <3>1, FS_RemoveElement, FS_CardinalityType
    <3>4. C!Less(chan[n].leases) = chan[n].leases - 1
      BY <1>1, <2>1, <3>2, <3>3 DEF C!Less
    <3> QED BY <2>1, <2>5, <3>1, <3>2, <3>4
  <2> QED BY <2>3, <2>4, <2>5
<1> QED BY <1>1, <1>2, <1>3 DEF ChanInv

\* Only the connection of b moves, and its leases stay.
LEMMA LineMove ==
    ASSUME ChanInv, NEW b \in C!Backends, NEW l \in Lines, l.leases = chan[C!Ch(b)].leases,
           chan' = [chan EXCEPT ![C!Ch(b)] = l], back' = back, mode' = mode, ops' = ops
    PROVE  ChanInv'
<1>1. back[b] \in Sides /\ back' = [back EXCEPT ![b] = back[b]] /\ ops' \in Nat
  BY DEF ChanInv
<1> QED BY <1>1, ChanMove

LEMMA LineAt ==
    ASSUME ChanInv, NEW b \in C!Backends
    PROVE  chan[C!Ch(b)] \in Lines /\ back[b] \in Sides /\ C!Ch(b) \in C!Channels
  BY OwnChannel DEF ChanInv

LEMMA LineDrops ==
    ASSUME NEW l \in Lines
    PROVE  [l EXCEPT !.pipe = FALSE, !.verified = FALSE] \in Lines
           /\ [l EXCEPT !.pipe = FALSE, !.verified = FALSE].leases = l.leases
  BY DEF Lines

LEMMA LineUnlocks ==
    ASSUME NEW l \in Lines
    PROVE  C!Unlocked(l) \in Lines /\ C!Unlocked(l).leases = l.leases
  BY DEF Lines, C!Unlocked

LEMMA SideAfter ==
    ASSUME ChanInv, NEW b \in C!Backends
    PROVE  C!After(b) \in Sides /\ C!After(b).holding = back[b].holding
<1>1. back[b] \in Sides
  BY LineAt
<1> QED BY <1>1 DEF Sides, C!After

LEMMA ChanRaise ==
    ASSUME ChanInv, NEW b \in C!Backends, C!Raise(b), mode' = mode, ops' = ops
    PROVE  ChanInv'
<1> DEFINE l == C!Dropped(C!Ch(b))
<1>1. l \in Lines /\ l.leases = chan[C!Ch(b)].leases
  BY LineAt, LineDrops DEF C!Dropped
<1> HIDE DEF l
<1>2. C!Unlocked(l) \in Lines /\ C!Unlocked(l).leases = chan[C!Ch(b)].leases
  BY <1>1, LineUnlocks
<1>3. /\ chan' = [chan EXCEPT ![C!Ch(b)] = C!Unlocked(l)]
      /\ back' = [back EXCEPT ![b] = C!After(b)]
  BY DEF C!Raise, l
<1>4. ops' \in Nat
  BY DEF ChanInv
<1> QED BY <1>2, <1>3, <1>4, SideAfter, ChanMove

LEMMA ChanHeld ==
    ASSUME ChanInv, NEW b \in C!Backends, C!Held(b), mode' = mode, ops' = ops
    PROVE  ChanInv'
<1> DEFINE o == chan[C!Ch(b)]
           n == IF back[b].holding THEN o.leases ELSE o.leases + 1
           l == [o EXCEPT !.leases = n, !.pipe = TRUE, !.verified = TRUE]
           k == [[back[b] EXCEPT !.pc = "call"] EXCEPT !.holding = TRUE]
<1>1. o \in Lines /\ back[b] \in Sides
  BY LineAt
<1>2. /\ chan' = [chan EXCEPT ![C!Ch(b)] = C!Unlocked(l)] /\ back' = [back EXCEPT ![b] = k]
      /\ ops' \in Nat
  <2>1. chan' = [chan EXCEPT ![C!Ch(b)] = C!Unlocked(l)]
    BY LineAt, Zenon DEF C!Held
  <2>2. back' = [back EXCEPT ![b] = k]
    BY LineAt DEF C!Held, ChanInv, Sides
  <2> QED BY <2>1, <2>2 DEF ChanInv
<1>3. k \in Sides /\ k.holding /\ n \in Nat /\ back[b].holding \in BOOLEAN
  <2>1. k \in Sides /\ k.holding
    BY <1>1 DEF Sides
  <2>2. n \in Nat /\ back[b].holding \in BOOLEAN
    BY <1>1 DEF Sides, Lines
  <2> QED BY <2>1, <2>2
<1>4. (back[b].holding => n = o.leases) /\ (~back[b].holding => n = o.leases + 1)
  OBVIOUS
<1> HIDE DEF n, k
<1>5. l \in Lines /\ l.leases = n
  BY <1>1, <1>3 DEF Lines
<1> HIDE DEF l
<1>6. C!Unlocked(l) \in Lines /\ C!Unlocked(l).leases = n
  BY <1>5, LineUnlocks
<1> QED BY <1>2, <1>3, <1>4, <1>6, ChanMove

LEMMA ChanBegin ==
    ASSUME ChanInv, NEW b \in C!Backends, NEW op \in {"mount", "unmount", "maint"}, C!Begin(b, op)
    PROVE  ChanInv'
<1> DEFINE pc == IF op = "unmount" THEN "call" ELSE "hold"
           k == [back[b] EXCEPT !.pc = pc, !.op = op, !.tk = ops + 1]
<1>1. back[b] \in Sides /\ ops + 1 \in Nat /\ pc \in {"hold", "call"}
  BY LineAt DEF ChanInv
<1>2. back' = [back EXCEPT ![b] = k] /\ ops' = ops + 1 /\ chan' = chan /\ mode' = mode
  BY LineAt DEF C!Begin, ChanInv
<1> HIDE DEF pc
<1>3. k \in Sides /\ k.holding = back[b].holding
  BY <1>1 DEF Sides, C!Requests
<1>4. chan' = [chan EXCEPT ![C!Ch(b)] = chan[C!Ch(b)]]
  BY <1>2, LineAt DEF ChanInv
<1> HIDE DEF k
<1> QED BY <1>1, <1>2, <1>3, <1>4, LineAt, ChanMove

LEMMA ChanGoto ==
    ASSUME ChanInv, NEW b \in C!Backends,
           NEW s \in {"stop", "start", "await", "read"}, C!Goto(b, s),
           back' = back, mode' = mode, ops' = ops
    PROVE  ChanInv'
<1> DEFINE o == chan[C!Ch(b)]
           l == [o EXCEPT !.step = s]
<1>1. o \in Lines /\ chan' = [chan EXCEPT ![C!Ch(b)] = l]
  BY LineAt DEF C!Goto, ChanInv
<1>2. l \in Lines /\ l.leases = o.leases
  BY <1>1 DEF Lines
<1> HIDE DEF l
<1> QED BY <1>1, <1>2, LineMove

LEMMA ChanGreeted ==
    ASSUME ChanInv, NEW b \in C!Backends,
           chan' = [chan EXCEPT ![C!Ch(b)].step = "greet", ![C!Ch(b)].pipe = TRUE],
           back' = back, mode' = mode, ops' = ops
    PROVE  ChanInv'
<1> DEFINE o == chan[C!Ch(b)]
           l == [[o EXCEPT !.step = "greet"] EXCEPT !.pipe = TRUE]
<1>1. o \in Lines /\ chan' = [chan EXCEPT ![C!Ch(b)] = l]
  BY LineAt DEF ChanInv
<1>2. l \in Lines /\ l.leases = o.leases
  BY <1>1 DEF Lines
<1> HIDE DEF l
<1> QED BY <1>1, <1>2, LineMove

LEMMA ChanEnter ==
    ASSUME ChanInv, NEW b \in C!Backends, C!Enter(b)
    PROVE  ChanInv'
<1> DEFINE o == chan[C!Ch(b)]
           s == IF o.pipe /\ o.verified THEN "write" ELSE "probe"
           l == [[o EXCEPT !.user = b] EXCEPT !.step = s]
<1>1. o \in Lines /\ chan' = [chan EXCEPT ![C!Ch(b)] = l] /\ s \in {"write", "probe"}
  BY LineAt DEF C!Enter, ChanInv
<1> HIDE DEF s
<1>2. l \in Lines /\ l.leases = o.leases
  BY <1>1 DEF Lines
<1> HIDE DEF l
<1> QED BY <1>1, <1>2, LineMove DEF C!Enter

\* The way to a verified pipe.
LEMMA ChanConnects ==
    ASSUME ChanInv, NEW b \in C!Backends,
           C!Probe(b) \/ C!StopTask(b) \/ C!StartTask(b) \/ C!Await(b) \/ C!Hold(b)
    PROVE  ChanInv'
<1>1. CASE C!Probe(b)
  BY <1>1, ChanRaise, ChanGoto, ChanGreeted DEF C!Probe
<1>2. CASE C!StopTask(b)
  BY <1>2, ChanGoto DEF C!StopTask
<1>3. CASE C!StartTask(b)
  BY <1>3, ChanRaise, ChanGoto DEF C!StartTask
<1>4. CASE C!Await(b)
  BY <1>4, ChanRaise, ChanGreeted DEF C!Await
<1>5. CASE C!Hold(b)
  BY <1>5, ChanHeld DEF C!Hold
<1> QED BY <1>1, <1>2, <1>3, <1>4, <1>5

LEMMA ChanGreet ==
    ASSUME ChanInv, NEW b \in C!Backends, C!Greet(b)
    PROVE  ChanInv'
<1>1. mode' = mode /\ ops' = ops
  BY DEF C!Greet
<1>2. CASE C!Held(b)
  BY <1>1, <1>2, ChanHeld
<1>3. CASE C!Raise(b)
  BY <1>1, <1>3, ChanRaise
<1>4. CASE /\ chan' = [chan EXCEPT ![C!Ch(b)].step = "write", ![C!Ch(b)].verified = TRUE]
           /\ back' = back
  <2> DEFINE o == chan[C!Ch(b)]
             l == [[o EXCEPT !.step = "write"] EXCEPT !.verified = TRUE]
  <2>1. o \in Lines /\ chan' = [chan EXCEPT ![C!Ch(b)] = l]
    BY <1>4, LineAt DEF ChanInv
  <2>2. l \in Lines /\ l.leases = o.leases
    BY <2>1 DEF Lines
  <2> HIDE DEF l
  <2> QED BY <1>1, <1>4, <2>1, <2>2, LineMove
<1> QED BY <1>2, <1>3, <1>4 DEF C!Greet

LEMMA ChanWrite ==
    ASSUME ChanInv, NEW b \in C!Backends, C!Write(b)
    PROVE  ChanInv'
<1>1. mode' = mode /\ ops' = ops
  BY DEF C!Write
<1>2. CASE C!Goto(b, "read") /\ back' = back
  BY <1>1, <1>2, ChanGoto
<1>3. CASE C!Raise(b)
  BY <1>1, <1>3, ChanRaise
<1>4. CASE /\ chan' = [chan EXCEPT ![C!Ch(b)] =
                         [C!Dropped(C!Ch(b)) EXCEPT !.step = "probe", !.again = TRUE]]
           /\ back' = back
  <2> DEFINE o == C!Dropped(C!Ch(b))
             l == [[o EXCEPT !.step = "probe"] EXCEPT !.again = TRUE]
  <2>1. o \in Lines /\ o.leases = chan[C!Ch(b)].leases
    BY LineAt, LineDrops DEF C!Dropped
  <2> HIDE DEF o
  <2>2. l \in Lines /\ l.leases = o.leases
    BY <2>1 DEF Lines
  <2>3. chan' = [chan EXCEPT ![C!Ch(b)] = l]
    BY <1>4, <2>1 DEF Lines, o
  <2> HIDE DEF l
  <2> QED BY <1>1, <1>4, <2>1, <2>2, <2>3, LineMove
<1> QED BY <1>2, <1>3, <1>4 DEF C!Write

LEMMA ChanGone ==
    ASSUME ChanInv, NEW c \in C!Channels,
           chan' = [chan EXCEPT ![c] = C!NoPipe],
           back' = [b \in C!Backends |-> IF C!Ch(b) = c THEN C!NoOp ELSE back[b]],
           ops' = ops, mode' = mode \/ c = Broker
    PROVE  ChanInv'
<1>1. /\ chan' \in [C!Channels -> Lines] /\ back' \in [C!Backends -> Sides]
      /\ \A d \in C!Channels : chan'[d] = IF d = c THEN C!NoPipe ELSE chan[d]
  BY ChanNew DEF ChanInv
<1>2. ASSUME NEW d \in C!Channels \ {c} PROVE Holders(d)' = Holders(d)
  BY DEF Holders, C!On
<1>3. Cardinality(Holders(c)') = 0
  <2>1. Holders(c)' = {}
    BY ChanNew DEF Holders, C!On
  <2> QED BY <2>1, FS_EmptySet
<1> QED BY <1>1, <1>2, <1>3, ChanNew DEF ChanInv

LEMMA ChanQuit ==
    ASSUME ChanInv, C!Quit
    PROVE  ChanInv'
<1> DEFINE o == C!Dropped(Broker)
           l == [o EXCEPT !.leases = 0]
<1>1. Broker \in C!Channels /\ chan[Broker] \in Lines
  BY DEF C!Channels, ChanInv
<1>2. o \in Lines
  BY <1>1, LineDrops DEF C!Dropped
<1> HIDE DEF o
<1>3. l \in Lines
  BY <1>2 DEF Lines
<1>4. mode' # "runs" /\ back' = back /\ ops' = ops /\ (chan' = chan \/ chan' = [chan EXCEPT ![Broker] = l])
  BY DEF C!Quit, C!Shut, o
<1> HIDE DEF l
<1>5. \A c \in C!Channels : Holders(c)' = Holders(c)
  BY <1>4 DEF Holders
<1> QED BY <1>1, <1>3, <1>4, <1>5 DEF ChanInv

\* An answer: a hold ends where the question said that nothing is attached, and a lease
\* is given back with it.
LEMMA ChanAnswered ==
    ASSUME ChanInv, NEW b \in C!Backends, C!Answered(b), mode' = mode, ops' = ops
    PROVE  ChanInv'
<1> DEFINE o == chan[C!Ch(b)]
           s == back[b]
           done == [[s EXCEPT !.pc = "idle"] EXCEPT !.op = "none"]
           gone == s.pc = "check" /\ helper.value = "detached" /\ s.holding
           left == IF gone THEN C!Less(o.leases) ELSE o.leases
           base == IF left = 0 THEN C!Dropped(C!Ch(b)) ELSE o
           l == [base EXCEPT !.leases = left]
<1>1. o \in Lines /\ s \in Sides /\ ops' \in Nat /\ back \in [C!Backends -> Sides]
  BY LineAt DEF ChanInv
<1>2. o.leases \in Nat /\ left \in Nat /\ s.holding \in BOOLEAN
  BY <1>1 DEF Lines, Sides, C!Less
<1>3. base \in Lines
  BY <1>1, LineDrops DEF C!Dropped
<1>4. chan' = [chan EXCEPT ![C!Ch(b)] = C!Unlocked(l)]
  BY Zenon DEF C!Answered
<1>5. PICK k \in Sides : back' = [back EXCEPT ![b] = k] /\ (k.holding <=> (s.holding /\ ~gone))
  <2>1. done \in Sides /\ done.holding = s.holding
    BY <1>1 DEF Sides
  <2>2. CASE s.pc = "check"
    <3> DEFINE h == s.holding /\ ~gone
               k == [done EXCEPT !.holding = h]
    <3>1. h \in BOOLEAN
      OBVIOUS
    <3>2. back' = [back EXCEPT ![b] = k]
      BY <1>1, <2>2 DEF C!Answered, Sides
    <3> HIDE DEF h, done
    <3>3. k \in Sides /\ k.holding = h
      BY <2>1, <3>1 DEF Sides
    <3> HIDE DEF k
    <3> QED BY <3>2, <3>3 DEF h
  <2>3. CASE s.pc # "check" /\ helper.value = "error"
    <3>1. back' = [back EXCEPT ![b] = C!After(b)] /\ ~gone
      BY <2>3 DEF C!Answered
    <3> QED BY <3>1, SideAfter
  <2>4. CASE s.pc # "check" /\ helper.value # "error" /\ s.op = "mount"
    <3>1. back' = [back EXCEPT ![b] = done] /\ ~gone
      BY <1>1, <2>4 DEF C!Answered, Sides
    <3> QED BY <3>1, <2>1
  <2>5. CASE s.pc # "check" /\ helper.value # "error" /\ s.op # "mount"
    <3> DEFINE k == [s EXCEPT !.pc = "check"]
    <3>1. back' = [back EXCEPT ![b] = k] /\ ~gone
      BY <2>5 DEF C!Answered
    <3>2. k \in Sides /\ k.holding = s.holding
      BY <1>1 DEF Sides
    <3> HIDE DEF k
    <3> QED BY <3>1, <3>2
  <2> QED BY <2>2, <2>3, <2>4, <2>5
<1>6. /\ gone => s.holding /\ left = C!Less(o.leases)
      /\ ~gone => left = o.leases
  OBVIOUS
<1>7. k.holding \in BOOLEAN
  BY DEF Sides
<1> HIDE DEF gone, left, base, o, s
<1>8. l \in Lines /\ l.leases = left
  BY <1>2, <1>3 DEF Lines
<1> HIDE DEF l
<1>9. C!Unlocked(l) \in Lines /\ C!Unlocked(l).leases = left
  BY <1>8, LineUnlocks
<1> QED BY <1>1, <1>2, <1>4, <1>5, <1>6, <1>7, <1>9, ChanMove DEF o, s

LEMMA ChanRead ==
    ASSUME ChanInv, NEW b \in C!Backends, C!Read(b)
    PROVE  ChanInv'
<1>1. mode' = mode /\ ops' = ops
  BY DEF C!Read
<1> QED BY <1>1, ChanAnswered, ChanRaise DEF C!Read

LEMMA ChanStep ==
    ASSUME ChanInv, [C!Next]_channelVars
    PROVE  ChanInv'
<1>1. CASE back' = back /\ chan' = chan /\ mode' = mode /\ ops' = ops
  <2>1. \A c \in C!Channels : Holders(c)' = Holders(c)
    BY <1>1 DEF Holders
  <2> QED BY <1>1, <2>1 DEF ChanInv
<1>2. CASE \E b \in C!Backends : C!BackendStep(b)
  <2>1. PICK b \in C!Backends : C!BackendStep(b)
    BY <1>2
  <2> QED BY <2>1, ChanBegin, ChanEnter, ChanConnects, ChanGreet, ChanWrite, ChanRead DEF C!BackendStep
<1>3. CASE C!Quit
  BY <1>3, ChanQuit
<1>4. CASE C!Restart
  <2>1. Broker \in C!Channels
    BY DEF C!Channels
  <2> QED BY <1>4, <2>1, ChanGone DEF C!Restart, C!Gone
<1>5. CASE \E c \in Own : C!Leave(c)
  <2>1. PICK c \in Own : C!Leave(c)
    BY <1>5
  <2>2. c \in C!Channels
    BY DEF C!Channels
  <2> QED BY <2>1, <2>2, ChanGone DEF C!Leave, C!Gone
<1>6. CASE UNCHANGED channelVars \/ C!Execute \/ C!HangUp \/ C!IdleOut \/ C!HelperDies
  BY <1>1, <1>6 DEF channelVars, C!Execute, C!HangUp, C!IdleOut, C!HelperDies
<1> QED BY <1>2, <1>3, <1>4, <1>5, <1>6 DEF C!Next

\* The union.
LEMMA ChanMoves == [AllNext]_<<part, installVars, channelVars, acceptVars, guideVars>> => [C!Next]_channelVars
  BY DEF AllNext

\* HelperChannel: while the broker runs, a connection has one lease for each back end that
\* holds it, through time-outs, retries, helpers that die and processes that end: no
\* release closes the pipe under another back end, and none keeps the helper up for nobody
\* (sa_privhelper.py, sa_storage.py).
THEOREM LeasesStayCounted == AllSpec => []LeasesAreCounted
<1>1. AllInit => ChanInv
  BY ChanInitial DEF AllInit
<1>2. ChanInv /\ [AllNext]_<<part, installVars, channelVars, acceptVars, guideVars>> => ChanInv'
  BY ChanStep, ChanMoves
<1>3. ChanInv => LeasesAreCounted
  <2> SUFFICES ASSUME ChanInv, mode = "runs", NEW c \in C!Channels
               PROVE  chan[c].leases = C!Cardinality({b \in C!On(c) : back[b].holding})
    BY DEF LeasesAreCounted, C!LeasesAreCounted
  <2>1. C!Cardinality(Holders(c)) = Cardinality(Holders(c))
    BY DEF Cardinality, C!Cardinality
  <2>2. chan[c].leases = Cardinality(Holders(c))
    BY DEF ChanInv
  <2> QED BY <2>1, <2>2 DEF Holders
<1> QED BY <1>1, <1>2, <1>3, PTL DEF AllSpec

-----------------------------------------------------------------------------
(* SetupGuide *)

\* No report yet, one that failed, or one of a host.
Reports == {G!NoReport, G!Unknown}
           \cup [lua : {"off", "on"}, elevated : BOOLEAN, helper : {"none", "bad", "good"}]
Afters == {"refresh", "measure"}
\* What is posted to the worker; the acceptance runs in a thread of its own.
Tasks == {"measure", "prepare-uac", "install", "import", "enroll", "migrate", "check", "caps",
          "repair", "remove"}
Asked == Tasks \cup {"acceptance", "none"}
Told == [kind : {"report"}, report : Reports] \cup [kind : {"result", "done"}, of : Tasks, ok : BOOLEAN]
        \cup [kind : {"caps"}, ok : BOOLEAN] \cup [kind : {"tested"}]

\* A window that is open; of the step it shows nothing is said.
Window(w) ==
    w \in [on : {TRUE}, elevated : BOOLEAN, report : Reports, commissioned : BOOLEAN,
           probed : BOOLEAN, pending : BOOLEAN, next : {w.next}, dirty : BOOLEAN,
           step : {w.step}, asked : Asked, boxes : Seq(Afters)]

GuideTypes ==
    /\ setup \in Setups
    /\ win = G!Closed \/ Window(win)
    /\ queue \in Seq(Tasks) /\ inbox \in Seq(Told)
    /\ ~win.on => queue = <<>> /\ inbox = <<>> /\ testing = 0

Host == [lua |-> setup.lua, elevated |-> win.elevated, helper |-> setup.helper]
True(report) == report \in {G!Unknown, Host}

\* Unless a measurement is due, or the host changed behind the page, what the page was told
\* last, or is about to be told, is the host or a failure to measure it.
Reported ==
    \/ "host" \in unseen
    \/ \E i \in DOMAIN queue : queue[i] = "measure"
    \/ True(win.report) /\ \A i \in DOMAIN inbox : inbox[i].kind # "report"
    \/ \E i \in DOMAIN inbox :
          /\ inbox[i].kind = "report" /\ True(inbox[i].report)
          /\ \A j \in DOMAIN inbox : j > i => inbox[j].kind # "report"

Offer ==
    IF win.report = G!NoReport /\ ~G!Pending(win.report) THEN "evaluating"
    ELSE G!NextAction(win.report, G!Pending(win.report), win.commissioned, win.probed)

\* Unless the page is to be computed again, or the disk changed behind it, what it offers
\* is what its facts call for.
UpToDate == win.dirty \/ win.boxes # <<>> \/ inbox # <<>> \/ "disk" \in unseen \/ win.next = Offer

GuideInv == GuideTypes /\ (win.on => Reported /\ UpToDate)

LEMMA Constants ==
    /\ G!NoReport \in Reports /\ G!Unknown \in Reports /\ ~G!Closed.on
    /\ G!NoReport.lua = "unknown" /\ ~G!NoMarker.there
    /\ \A w : Window(w) => w.on /\ w # G!Closed
<1>1. G!NoReport \in Reports /\ G!NoReport.lua = "unknown"
  BY DEF G!NoReport, Reports
<1>2. G!Unknown = [G!NoReport EXCEPT !.helper = "unknown"]
  BY DEF G!Unknown
<1>3. G!Unknown \in Reports
  BY <1>1, <1>2 DEF Reports
<1>4. ~G!Closed.on /\ ~G!NoMarker.there
  BY DEF G!Closed, G!NoMarker
<1>5. ASSUME NEW w, Window(w) PROVE w.on
  BY <1>5 DEF Window
<1> QED BY <1>1, <1>3, <1>4, <1>5

LEMMA WindowDirty ==
    ASSUME NEW w, Window(w)
    PROVE  LET v == [w EXCEPT !.dirty = TRUE]
           IN  /\ Window(v) /\ v.elevated = w.elevated /\ v.report = w.report /\ v.boxes = w.boxes
               /\ v.dirty
  BY DEF Window

LEMMA GuideInitial == G!Init => GuideInv
  BY Constants, SetupsOK DEF G!Init, GuideInv, GuideTypes

\* What a successful look at the facts makes of the page, or a failed one.
LEMMA Refreshed ==
    ASSUME NEW w, Window(w), G!Refresh(w), setup' = setup, clock' = clock
    PROVE  /\ Window(win') /\ win'.elevated = w.elevated /\ win'.report = w.report
           /\ win'.boxes = w.boxes
           /\ win'.dirty \/ win'.next = Offer'
           /\ "host" \in unseen' <=> "host" \in unseen
<1>1. CASE win' = G!Recomputed(w) /\ marker' = G!MarkerLeft(w.report) /\ unseen' = unseen \ {"disk"}
  <2>1. /\ Window(win') /\ win'.elevated = w.elevated /\ win'.report = w.report
        /\ win'.boxes = w.boxes /\ win'.commissioned = w.commissioned /\ win'.probed = w.probed
        /\ win'.next = IF w.report = G!NoReport /\ ~G!Pending(w.report) THEN "evaluating"
                       ELSE G!NextAction(w.report, G!Pending(w.report), w.commissioned, w.probed)
    <3> DEFINE step == G!Step(w.report, G!Pending(w.report), w.commissioned, w.probed)
               next == G!NextAction(w.report, G!Pending(w.report), w.commissioned, w.probed)
               pending == G!Pending(w.report)
               idle == w.report = G!NoReport /\ ~pending
    <3>1. PICK p \in BOOLEAN : \E s, n :
            /\ win' = [[w EXCEPT !.pending = p, !.dirty = FALSE] EXCEPT !.next = n, !.step = s]
            /\ n = IF idle THEN "evaluating" ELSE next
      <4>1. CASE idle
        <5>1. win' = [w EXCEPT !.pending = FALSE, !.next = "evaluating", !.dirty = FALSE]
          BY <1>1, <4>1 DEF G!Recomputed, G!Evaluating
        <5>2. win' = [[w EXCEPT !.pending = FALSE, !.dirty = FALSE]
                      EXCEPT !.next = "evaluating", !.step = w.step]
          BY <5>1 DEF Window
        <5> HIDE DEF idle, next
        <5> QED BY <4>1, <5>2
      <4>2. CASE ~idle
        <5>1. win' = [w EXCEPT !.pending = pending, !.dirty = FALSE, !.next = next, !.step = step]
          BY <1>1, <4>2 DEF G!Recomputed
        <5>2. pending \in BOOLEAN
          BY DEF G!Pending
        <5> HIDE DEF pending, next, step, idle
        <5>3. win' = [[w EXCEPT !.pending = pending, !.dirty = FALSE] EXCEPT !.next = next, !.step = step]
          BY <5>1 DEF Window
        <5> QED BY <4>2, <5>2, <5>3
      <4> QED BY <4>1, <4>2
    <3>2. PICK s, n :
            /\ win' = [[w EXCEPT !.pending = p, !.dirty = FALSE] EXCEPT !.next = n, !.step = s]
            /\ n = IF idle THEN "evaluating" ELSE next
      BY <3>1
    <3> DEFINE u == [w EXCEPT !.pending = p, !.dirty = FALSE]
    <3>3. /\ Window(u) /\ u.elevated = w.elevated /\ u.report = w.report /\ u.boxes = w.boxes
          /\ u.commissioned = w.commissioned /\ u.probed = w.probed
          /\ win' = [u EXCEPT !.next = n, !.step = s]
      BY <3>2 DEF Window
    <3> HIDE DEF u
    <3>4. /\ Window(win') /\ win'.elevated = u.elevated /\ win'.report = u.report
          /\ win'.boxes = u.boxes /\ win'.commissioned = u.commissioned /\ win'.probed = u.probed
          /\ win'.next = n
      BY <3>3 DEF Window
    <3> QED BY <3>2, <3>3, <3>4
  <2>2. G!Pending(w.report)' <=> G!Pending(w.report)
    BY <1>1, Constants DEF G!Pending, G!MarkerLeft, G!Satisfied, G!Up, G!Separated
  <2>3. win'.next = Offer'
    BY <2>1, <2>2 DEF Offer, G!NextAction, G!Accepted
  <2> QED BY <1>1, <2>1, <2>3
<1>2. CASE win' = [w EXCEPT !.dirty = TRUE] /\ marker' = marker /\ unseen' = unseen
  BY <1>2, WindowDirty
<1> QED BY <1>1, <1>2 DEF G!Refresh

\* Requests are added, or none, and the page has been told the same.
LEMMA ReportKept ==
    ASSUME Reported, setup' = setup, inbox' = inbox, win'.elevated = win.elevated,
           win'.report = win.report, "host" \in unseen => "host" \in unseen',
           queue \in Seq(Tasks), NEW s \in Seq(Tasks), queue' = queue \/ queue' = queue \o s
    PROVE  Reported'
<1>1. Host' = Host
  BY DEF Host
<1>2. \A i \in DOMAIN queue : i \in DOMAIN queue' /\ queue'[i] = queue[i]
  OBVIOUS
<1> QED BY <1>1, <1>2 DEF Reported, True

\* The first message has been read.
LEMMA ReportRead ==
    ASSUME Reported, setup' = setup, inbox \in Seq(Told), inbox # <<>>, inbox' = Tail(inbox),
           win'.elevated = win.elevated,
           win'.report = IF Head(inbox).kind = "report" THEN Head(inbox).report ELSE win.report,
           "host" \in unseen => "host" \in unseen', queue' = queue
    PROVE  Reported'
<1>1. Host' = Host
  BY DEF Host
<1>2. /\ Head(inbox) = inbox[1] /\ 1 \in DOMAIN inbox
      /\ \A i \in DOMAIN inbox : i > 1 => i - 1 \in DOMAIN inbox' /\ inbox'[i - 1] = inbox[i]
      /\ \A i \in DOMAIN inbox' : i + 1 \in DOMAIN inbox /\ inbox'[i] = inbox[i + 1]
      /\ DOMAIN inbox \subseteq Nat \ {0} /\ DOMAIN inbox' \subseteq Nat \ {0}
  OBVIOUS
<1>3. CASE "host" \in unseen \/ \E i \in DOMAIN queue : queue[i] = "measure"
  BY <1>3 DEF Reported
<1>4. CASE True(win.report) /\ \A i \in DOMAIN inbox : inbox[i].kind # "report"
  <2>1. \A i \in DOMAIN inbox' : inbox'[i].kind # "report"
    BY <1>2, <1>4
  <2>2. win'.report = win.report
    BY <1>2, <1>4
  <2> QED BY <1>1, <1>4, <2>1, <2>2 DEF Reported, True
<1>5. ASSUME NEW i \in DOMAIN inbox, inbox[i].kind = "report", True(inbox[i].report),
             \A j \in DOMAIN inbox : j > i => inbox[j].kind # "report"
      PROVE  Reported'
  <2>1. CASE i = 1
    <3>1. \A j \in DOMAIN inbox' : inbox'[j].kind # "report"
      BY <1>2, <1>5, <2>1
    <3>2. win'.report = inbox[i].report
      BY <1>2, <1>5, <2>1
    <3> QED BY <1>1, <1>5, <3>1, <3>2 DEF Reported, True
  <2>2. CASE i # 1
    <3> DEFINE k == i - 1
    <3>1. k \in DOMAIN inbox' /\ inbox'[k] = inbox[i] /\ i > 1 /\ k + 1 = i
      BY <1>2, <2>2
    <3>2. ASSUME NEW j \in DOMAIN inbox', j > k PROVE inbox'[j].kind # "report"
      BY <1>2, <1>5, <3>1, <3>2
    <3> HIDE DEF k
    <3>3. inbox'[k].kind = "report" /\ True(inbox[k].report)'
      BY <1>1, <1>5, <3>1 DEF True
    <3> QED BY <3>1, <3>2, <3>3 DEF Reported
  <2> QED BY <2>1, <2>2
<1> QED BY <1>3, <1>4, <1>5 DEF Reported

\* A message is sent by the worker or by a run: a report of the host, or none where a
\* measurement is due or the host is what it was.
LEMMA ReportTold ==
    ASSUME inbox \in Seq(Told), NEW m \in Told, inbox' = Append(inbox, m), win' = win,
           \/ \E i \in DOMAIN queue' : queue'[i] = "measure"
           \/ m.kind = "report" /\ True(m.report)'
           \/ m.kind # "report" /\ Host' = Host /\ unseen' = unseen /\ Reported /\ queue' = queue
           \/ /\ m.kind # "report" /\ Host' = Host /\ unseen' = unseen /\ Reported
              /\ queue \in Seq(Tasks) /\ queue # <<>> /\ Head(queue) # "measure" /\ queue' = Tail(queue)
    PROVE  Reported'
<1> DEFINE n == Len(inbox) + 1
<1>1. /\ n \in DOMAIN inbox' /\ inbox'[n] = m /\ n \notin DOMAIN inbox
      /\ \A i \in DOMAIN inbox : i \in DOMAIN inbox' /\ inbox'[i] = inbox[i] /\ i < n
      /\ \A i \in DOMAIN inbox' : i \in DOMAIN inbox \/ i = n
      /\ DOMAIN inbox' \subseteq Nat
  OBVIOUS
<1> HIDE DEF n
<1>2. CASE \E i \in DOMAIN queue' : queue'[i] = "measure"
  BY <1>2 DEF Reported
<1>3. CASE m.kind = "report" /\ True(m.report)'
  <2>1. \A i \in DOMAIN inbox' : ~(i > n)
    BY <1>1
  <2> QED BY <1>1, <1>3, <2>1 DEF Reported
<1>4. ASSUME m.kind # "report", Host' = Host, unseen' = unseen, Reported,
             \A i \in DOMAIN queue : queue[i] = "measure" => \E j \in DOMAIN queue' : queue'[j] = "measure"
      PROVE  Reported'
  <2>1. CASE "host" \in unseen \/ \E i \in DOMAIN queue : queue[i] = "measure"
    BY <1>4, <2>1 DEF Reported
  <2>2. CASE True(win.report) /\ \A i \in DOMAIN inbox : inbox[i].kind # "report"
    BY <1>1, <1>4, <2>2 DEF Reported, True
  <2>3. ASSUME NEW i \in DOMAIN inbox, inbox[i].kind = "report", True(inbox[i].report),
               \A j \in DOMAIN inbox : j > i => inbox[j].kind # "report"
        PROVE  Reported'
    <3>1. i \in DOMAIN inbox' /\ inbox'[i].kind = "report" /\ True(inbox[i].report)'
      BY <1>1, <1>4, <2>3 DEF True
    <3>2. \A j \in DOMAIN inbox' : j > i => inbox'[j].kind # "report"
      BY <1>1, <1>4, <2>3
    <3> QED BY <3>1, <3>2 DEF Reported
  <2> QED BY <1>4, <2>1, <2>2, <2>3 DEF Reported
<1>5. ASSUME queue \in Seq(Tasks), queue # <<>>, Head(queue) # "measure", queue' = Tail(queue),
             NEW i \in DOMAIN queue, queue[i] = "measure"
      PROVE  \E j \in DOMAIN queue' : queue'[j] = "measure"
  <2>1. i # 1 /\ i - 1 \in DOMAIN queue' /\ queue'[i - 1] = queue[i]
    BY <1>5
  <2> QED BY <1>5, <2>1
<1> QED BY <1>2, <1>3, <1>4, <1>5

LEMMA GuidePage ==
    ASSUME GuideInv, NEW w, Window(w), G!Refresh(w), setup' = setup, clock' = clock,
           queue' \in Seq(Tasks), inbox' \in Seq(Told), Window(win') => Reported'
    PROVE  GuideInv'
  BY Refreshed, Constants DEF GuideInv, GuideTypes, UpToDate

\* A box is shown: the page is computed again when it is closed.
LEMMA GuideBoxed ==
    ASSUME GuideInv, Window(win'), win'.boxes # <<>>, setup' = setup,
           queue' \in Seq(Tasks), inbox' \in Seq(Told), Reported'
    PROVE  GuideInv'
  BY Constants DEF GuideInv, GuideTypes, UpToDate

LEMMA BoxOpens ==
    ASSUME NEW w, Window(w), NEW a \in Afters, G!Box(w, a)
    PROVE  /\ Window(win') /\ win'.boxes # <<>> /\ win'.elevated = w.elevated
           /\ win'.report = w.report
<1> DEFINE s == Append(w.boxes, a)
<1>1. s \in Seq(Afters) /\ s # <<>> /\ win' = [w EXCEPT !.boxes = s]
  BY DEF Window, G!Box
<1> HIDE DEF s
<1> QED BY <1>1 DEF Window

\* Something is asked or answered; the page stays as it is.
LEMMA GuideAsked ==
    ASSUME GuideInv, win.on, NEW a \in Asked, NEW s \in Seq(Tasks),
           win' = win \/ win' = [win EXCEPT !.asked = a],
           queue' = queue \/ queue' = queue \o s, inbox' = inbox,
           setup' = setup, marker' = marker, clock' = clock, unseen' = unseen
    PROVE  GuideInv'
<1>1. Window(win)
  BY Constants DEF GuideInv, GuideTypes
<1>2. /\ Window(win') /\ win'.elevated = win.elevated /\ win'.report = win.report
      /\ win'.dirty = win.dirty /\ win'.boxes = win.boxes /\ win'.next = win.next
      /\ win'.commissioned = win.commissioned /\ win'.probed = win.probed
  <2>1. CASE win' = win
    BY <1>1, <2>1
  <2>2. CASE win' = [win EXCEPT !.asked = a]
    BY <1>1, <2>2 DEF Window
  <2> QED BY <2>1, <2>2
<1>3. Offer' = Offer
  BY <1>2 DEF Offer, G!NextAction, G!Pending, G!Satisfied, G!Accepted, G!Up, G!Separated
<1>4. Reported'
  BY <1>2, ReportKept DEF GuideInv, GuideTypes
<1>5. queue' \in Seq(Tasks)
  <2>1. queue \in Seq(Tasks)
    BY DEF GuideInv, GuideTypes
  <2>2. queue \o s \in Seq(Tasks)
    BY <2>1, ConcatProperties
  <2> QED BY <2>1, <2>2
<1> QED BY <1>2, <1>3, <1>4, <1>5, Constants DEF GuideInv, GuideTypes, UpToDate

LEMMA GuideClick ==
    ASSUME GuideInv, NEW step \in G!Asking \cup G!Direct \cup {"repair", "remove"}, G!Click(step)
    PROVE  GuideInv'
<1>1. step \in Asked /\ (step \in G!Direct => <<step>> \in Seq(Tasks)) /\ <<"caps">> \in Seq(Tasks)
  BY DEF G!Asking, G!Direct, Tasks, Asked
<1>2. CASE step \in G!Direct
  BY <1>1, <1>2, GuideAsked DEF G!Click, G!Free, G!Post
<1>3. CASE step \notin G!Direct
  BY <1>1, <1>3, GuideAsked DEF G!Click, G!Free
<1> QED BY <1>2, <1>3

LEMMA GuideAnswer ==
    ASSUME GuideInv, NEW yes \in BOOLEAN, G!Answer(yes)
    PROVE  GuideInv'
<1>1. win.on /\ win' = [win EXCEPT !.asked = "none"] /\ "none" \in Asked
  BY DEF G!Answer, G!None, Asked
<1>2. PICK s \in Seq(Tasks) : queue' = queue \/ queue' = queue \o s
  <2>1. CASE queue' = queue
    <3>1. <<"caps">> \in Seq(Tasks)
      BY DEF Tasks
    <3> QED BY <2>1, <3>1
  <2>2. CASE yes /\ win.asked # "acceptance" /\ queue' = queue \o <<win.asked>>
    <3>1. Window(win) /\ win.asked # "none"
      BY Constants DEF GuideInv, GuideTypes, G!Answer, G!None
    <3>2. win.asked \in Tasks
      BY <2>2, <3>1 DEF Window, Asked
    <3>3. <<win.asked>> \in Seq(Tasks)
      BY <3>2
    <3> QED BY <2>2, <3>3
  <2> QED BY <2>1, <2>2 DEF G!Answer, G!Post
<1>3. /\ inbox' = inbox /\ setup' = setup /\ marker' = marker /\ clock' = clock /\ unseen' = unseen
  BY DEF G!Answer
<1> QED BY <1>1, <1>2, <1>3, GuideAsked

LEMMA GuideLooks ==
    ASSUME GuideInv, G!Recheck \/ G!SecureCopy \/ G!Status
    PROVE  GuideInv'
<1>1. /\ win.on /\ G!Refresh(win) /\ setup' = setup /\ clock' = clock /\ inbox' = inbox
      /\ queue' = queue \/ queue' = queue \o <<"measure", "caps">>
  BY DEF G!Recheck, G!SecureCopy, G!Status, G!Free, G!Post
<1>2. Window(win) /\ queue \in Seq(Tasks) /\ inbox \in Seq(Told) /\ Reported
  BY <1>1, Constants DEF GuideInv, GuideTypes
<1>3. <<"measure", "caps">> \in Seq(Tasks)
  BY DEF Tasks
<1>4. win'.elevated = win.elevated /\ win'.report = win.report /\ ("host" \in unseen' <=> "host" \in unseen)
  BY <1>1, <1>2, Refreshed
<1>5. Reported'
  BY <1>1, <1>2, <1>3, <1>4, ReportKept
<1>6. queue' \in Seq(Tasks) /\ inbox' \in Seq(Told)
  BY <1>1, <1>2, <1>3
<1> QED BY <1>1, <1>2, <1>5, <1>6, GuidePage

LEMMA GuideRestartLater ==
    ASSUME GuideInv, G!RestartLater
    PROVE  GuideInv'
<1>1. /\ win.on /\ setup' = setup /\ inbox' = inbox /\ queue' = queue /\ unseen' = unseen
      /\ win' = [win EXCEPT !.boxes = <<"refresh">>]
  BY DEF G!RestartLater, G!Free
<1>2. Window(win) /\ queue \in Seq(Tasks) /\ inbox \in Seq(Told) /\ Reported
  BY <1>1, Constants DEF GuideInv, GuideTypes
<1>3. <<"refresh">> \in Seq(Afters) /\ <<"refresh">> # <<>> /\ <<"caps">> \in Seq(Tasks)
  BY DEF Afters, Tasks
<1>4. /\ Window(win') /\ win'.boxes # <<>> /\ win'.elevated = win.elevated
      /\ win'.report = win.report
  <2> DEFINE s == <<"refresh">>
  <2>1. s \in Seq(Afters) /\ s # <<>> /\ win' = [win EXCEPT !.boxes = s]
    BY <1>1, <1>3
  <2> HIDE DEF s
  <2> QED BY <1>2, <2>1 DEF Window
<1>5. Reported'
  BY <1>1, <1>2, <1>3, <1>4, ReportKept
<1> QED BY <1>1, <1>2, <1>4, <1>5, GuideBoxed

LEMMA GuideDismiss ==
    ASSUME GuideInv, G!Dismiss
    PROVE  GuideInv'
<1>1. Window(win) /\ queue \in Seq(Tasks) /\ inbox \in Seq(Told) /\ Reported
  BY Constants DEF GuideInv, GuideTypes, G!Dismiss
<1> DEFINE s == G!Front(win.boxes)
           w == [win EXCEPT !.boxes = s]
<1>2. win.boxes \in Seq(Afters) /\ win.boxes # <<>>
  BY <1>1 DEF Window, G!Dismiss
<1>3. s \in Seq(Afters) /\ G!Last(win.boxes) \in Afters
  BY <1>2 DEF G!Front, G!Last
<1>4. /\ G!Refresh(w) /\ setup' = setup /\ clock' = clock /\ inbox' = inbox
      /\ queue' = queue \/ queue' = queue \o <<"measure">>
  BY <1>3 DEF G!Dismiss, Afters, G!Post
<1> HIDE DEF s
<1>5. Window(w) /\ w.elevated = win.elevated /\ w.report = win.report
  BY <1>1, <1>3 DEF Window
<1> HIDE DEF w
<1>6. win'.elevated = win.elevated /\ win'.report = win.report /\ ("host" \in unseen' <=> "host" \in unseen)
  BY <1>4, <1>5, Refreshed
<1>7. <<"measure">> \in Seq(Tasks)
  BY DEF Tasks
<1>8. Reported'
  BY <1>1, <1>4, <1>6, <1>7, ReportKept
<1>9. queue' \in Seq(Tasks) /\ inbox' \in Seq(Told)
  BY <1>1, <1>4, <1>7
<1> QED BY <1>4, <1>5, <1>8, <1>9, GuidePage

LEMMA ToldIs ==
    ASSUME NEW m \in Told
    PROVE  /\ m.kind \in {"report", "result", "caps", "done", "tested"}
           /\ m.kind = "report" => m.report \in Reports
  BY DEF Told

\* The window handles its first message.
LEMMA GuideHandle ==
    ASSUME GuideInv, G!Handle
    PROVE  GuideInv'
<1> DEFINE m == Head(inbox)
<1>1. /\ win.on /\ Window(win) /\ queue \in Seq(Tasks) /\ inbox \in Seq(Told) /\ Reported
      /\ inbox # <<>>
  BY Constants DEF GuideInv, GuideTypes, G!Handle
<1>2. m \in Told /\ inbox' = Tail(inbox) /\ inbox' \in Seq(Told) /\ queue' = queue
      /\ setup' = setup /\ clock' = clock
  BY <1>1 DEF G!Handle
<1>3. ASSUME NEW w, Window(w), w.elevated = win.elevated, G!Refresh(w),
             w.report = IF m.kind = "report" THEN m.report ELSE win.report
      PROVE  GuideInv'
  <2>1. win'.elevated = win.elevated /\ win'.report = w.report /\ ("host" \in unseen' <=> "host" \in unseen)
    BY <1>2, <1>3, Refreshed
  <2>2. Reported'
    BY <1>1, <1>2, <1>3, <2>1, ReportRead
  <2> QED BY <1>1, <1>2, <1>3, <2>2, GuidePage
<1>4. ASSUME NEW w, Window(w), w.elevated = win.elevated, w.report = win.report, m.kind # "report",
             NEW a \in Afters, G!Box(w, a), unseen' = unseen
      PROVE  GuideInv'
  <2>1. /\ Window(win') /\ win'.boxes # <<>> /\ win'.elevated = win.elevated
        /\ win'.report = win.report
    BY <1>4, BoxOpens
  <2>2. Reported'
    BY <1>1, <1>2, <1>4, <2>1, ReportRead
  <2> QED BY <1>1, <1>2, <2>1, <2>2, GuideBoxed
<1>5. CASE m.kind = "report"
  <2> DEFINE w == [win EXCEPT !.report = m.report]
  <2>1. G!Refresh(w)
    BY <1>5 DEF G!Handle, G!ReportReady
  <2>2. Window(w) /\ w.elevated = win.elevated /\ w.report = m.report
    BY <1>1, <1>2, <1>5, ToldIs DEF Window
  <2> HIDE DEF w, m
  <2> QED BY <1>3, <1>5, <2>1, <2>2
<1>6. CASE m.kind = "caps"
  <2> DEFINE w == [win EXCEPT !.probed = m.ok]
  <2>1. G!Refresh(w) /\ m.ok \in BOOLEAN
    BY <1>2, <1>6 DEF G!Handle, G!CapsReady, Told
  <2>2. Window(w) /\ w.elevated = win.elevated /\ w.report = win.report
    BY <1>1, <2>1 DEF Window
  <2> HIDE DEF w, m
  <2> QED BY <1>3, <1>6, <2>1, <2>2
<1>7. CASE m.kind = "tested"
  <2>1. G!Refresh(win)
    BY <1>7 DEF G!Handle
  <2> HIDE DEF m
  <2> QED BY <1>1, <1>3, <1>7, <2>1
<1>8. CASE m.kind = "done"
  <2>1. G!Refresh(win) \/ (unseen' = unseen /\ \E a \in Afters : G!Box(win, a))
    BY <1>8 DEF G!Handle, G!OperationDone, Afters
  <2> HIDE DEF m
  <2> QED BY <1>1, <1>3, <1>4, <1>8, <2>1
<1>9. CASE m.kind = "result"
  <2> DEFINE w == [win EXCEPT !.commissioned = TRUE]
  <2>1. \/ G!Refresh(win)
        \/ unseen' = unseen /\ G!Box(win, "refresh")
        \/ unseen' = unseen /\ G!Box(w, "refresh")
    BY <1>9 DEF G!Handle, G!ActionResult
  <2>2. Window(w) /\ w.elevated = win.elevated /\ w.report = win.report /\ "refresh" \in Afters
    BY <1>1 DEF Window, Afters
  <2> HIDE DEF w, m
  <2> QED BY <1>1, <1>3, <1>4, <1>9, <2>1, <2>2
<1> QED BY <1>2, <1>5, <1>6, <1>7, <1>8, <1>9, ToldIs

LEMMA GuideOpens ==
    ASSUME GuideInv, G!Launch
    PROVE  GuideInv'
<1>1. PICK elevated \in BOOLEAN :
        win' = [on |-> TRUE, elevated |-> elevated, report |-> G!NoReport, commissioned |-> FALSE,
                probed |-> FALSE, pending |-> FALSE, next |-> "evaluating", dirty |-> TRUE,
                step |-> [at |-> 0, says |-> "complete"], asked |-> "none", boxes |-> <<>>]
  BY DEF G!Launch, G!None
<1>2. Window(win') /\ win'.dirty
  BY <1>1, Constants DEF Window, Asked
<1>3. queue' = <<"measure">> /\ queue' \in Seq(Tasks) /\ inbox' = inbox /\ setup' = setup
  BY DEF G!Launch, Tasks
<1>4. Reported'
  BY <1>3 DEF Reported
<1> QED BY <1>2, <1>3, <1>4, Constants DEF GuideInv, GuideTypes, UpToDate

LEMMA GuideEnds ==
    ASSUME GuideInv, G!Close \/ G!Restart \/ G!Wait
    PROVE  GuideInv'
<1>1. CASE G!Ended /\ setup' = setup
  <2>1. ~win'.on
    BY <1>1, Constants DEF G!Ended
  <2> QED BY <1>1, <2>1 DEF GuideInv, GuideTypes, G!Ended
<1>2. CASE G!Wait
  BY <1>2 DEF GuideInv, GuideTypes, G!Wait
<1> QED BY <1>1, <1>2 DEF G!Close, G!Restart

\* The worker, or a run, has told something: the page is not up to date.
LEMMA GuideTold ==
    ASSUME GuideInv, win.on, win' = win, setup' \in Setups, queue' \in Seq(Tasks),
           NEW m \in Told, G!Tell(m), Reported'
    PROVE  GuideInv'
<1>1. inbox \in Seq(Told) /\ inbox' = Append(inbox, m)
  BY DEF GuideInv, GuideTypes, G!Tell
<1>2. inbox' \in Seq(Told) /\ inbox' # <<>>
  BY <1>1
<1> QED BY <1>2 DEF GuideInv, GuideTypes, UpToDate

\* The worker measures, or fails to.
LEMMA GuideMeasure ==
    ASSUME GuideInv, win.on, queue # <<>>, G!Measure, queue' = Tail(queue), setup' = setup, win' = win
    PROVE  GuideInv'
<1>1. Window(win) /\ queue \in Seq(Tasks) /\ inbox \in Seq(Told) /\ setup \in Setups
  BY Constants DEF GuideInv, GuideTypes
<1>2. queue' \in Seq(Tasks)
  BY <1>1
<1>3. PICK r : r \in {G!Unknown, Host} /\ G!Tell([kind |-> "report", report |-> r])
  BY DEF G!Measure, Host
<1>4. Host \in Reports
  BY <1>1 DEF Window, Setups, Host, Reports
<1>5. r \in Reports
  BY <1>3, <1>4, Constants
<1> DEFINE m == [kind |-> "report", report |-> r]
<1>6. m \in Told /\ m.kind = "report" /\ m.report = r /\ G!Tell(m)
  BY <1>3, <1>5 DEF Told
<1> HIDE DEF m
<1>7. Host' = Host
  BY DEF Host
<1>8. m.kind = "report" /\ True(m.report)'
  BY <1>3, <1>6, <1>7 DEF True
<1>9. inbox' = Append(inbox, m)
  BY <1>6 DEF G!Tell
<1>10. Reported'
  BY <1>1, <1>6, <1>8, <1>9, ReportTold
<1> QED BY <1>1, <1>2, <1>6, <1>10, GuideTold

\* The worker has probed the key.
LEMMA GuideCaps ==
    ASSUME GuideInv, win.on, queue # <<>>, Head(queue) # "measure", queue' = Tail(queue),
           setup' = setup, win' = win, unseen' = unseen,
           NEW ok \in BOOLEAN, G!Tell([kind |-> "caps", ok |-> ok])
    PROVE  GuideInv'
<1>1. queue \in Seq(Tasks) /\ inbox \in Seq(Told) /\ setup \in Setups /\ Reported
  BY DEF GuideInv, GuideTypes
<1>2. queue' \in Seq(Tasks)
  BY <1>1
<1> DEFINE m == [kind |-> "caps", ok |-> ok]
<1>3. m \in Told /\ m.kind # "report" /\ G!Tell(m)
  BY DEF Told
<1> HIDE DEF m
<1>4. Host' = Host
  BY DEF Host
<1>5. inbox' = Append(inbox, m)
  BY <1>3 DEF G!Tell
<1>6. Reported'
  BY <1>1, <1>3, <1>4, <1>5, ReportTold
<1> QED BY <1>1, <1>2, <1>3, <1>6, GuideTold

\* A privileged action leaves a setup, and a measurement to be made.
LEMMA GuidePrivileged ==
    ASSUME GuideInv, win.on, queue # <<>>, win' = win,
           NEW step \in {"prepare-uac", "install", "repair", "remove", "check"}, G!Privileged(step)
    PROVE  GuideInv'
<1>1. queue \in Seq(Tasks) /\ inbox \in Seq(Told) /\ setup \in Setups
  BY DEF GuideInv, GuideTypes
<1>2. PICK ok \in BOOLEAN : /\ setup' \in G!Done(step, ok)
                            /\ G!Tell([kind |-> "result", of |-> step, ok |-> ok])
  BY DEF G!Privileged
<1>3. setup' \in Setups
  <2>1. CASE step = "prepare-uac"
    BY <1>1, <1>2, <2>1 DEF G!Done, Setups
  <2>2. CASE step = "check"
    BY <1>1, <1>2, <2>2 DEF G!Done
  <2>3. CASE step \in {"install", "repair", "remove"}
    <3>1. PICK h \in {"none", "bad", "good"} : setup' = [setup EXCEPT !.helper = h, !.fits = FALSE]
      BY <1>2, <2>3 DEF G!Done
    <3> QED BY <1>1, <3>1 DEF Setups
  <2> QED BY <2>1, <2>2, <2>3
<1>4. queue' = <<"measure">> \o Tail(queue) /\ Tail(queue) \in Seq(Tasks) /\ <<"measure">> \in Seq(Tasks)
  BY <1>1 DEF G!Privileged, Tasks
<1>5. queue' \in Seq(Tasks)
  BY <1>4, ConcatProperties
<1>6. 1 \in DOMAIN queue' /\ queue'[1] = "measure"
  BY <1>4
<1> DEFINE m == [kind |-> "result", of |-> step, ok |-> ok]
<1>7. m \in Told /\ G!Tell(m)
  BY <1>2 DEF Told, Tasks
<1> HIDE DEF m
<1>8. inbox' = Append(inbox, m)
  BY <1>7 DEF G!Tell
<1>9. Reported'
  BY <1>1, <1>6, <1>7, <1>8, ReportTold
<1> QED BY <1>3, <1>5, <1>7, <1>9, GuideTold

\* An import, an enrolment or a migration leaves the host as it was.
LEMMA GuideOperation ==
    ASSUME GuideInv, win.on, queue # <<>>, Head(queue) # "measure", win' = win, unseen' = unseen,
           NEW step \in {"import", "enroll", "migrate"}, G!Operation(step)
    PROVE  GuideInv'
<1>1. queue \in Seq(Tasks) /\ inbox \in Seq(Told) /\ setup \in Setups /\ Reported
  BY DEF GuideInv, GuideTypes
<1>2. PICK ok \in BOOLEAN :
        /\ setup' = IF ~ok THEN setup
                    ELSE CASE step = "import" -> [setup EXCEPT !.app = TRUE]
                           [] step = "enroll" -> [setup EXCEPT !.enrolled = TRUE]
                           [] step = "migrate" -> [setup EXCEPT !.migrated = TRUE, !.copy = TRUE]
        /\ G!Tell([kind |-> "done", of |-> step, ok |-> ok])
  BY DEF G!Operation
<1>3. setup' \in Setups /\ setup'.lua = setup.lua /\ setup'.helper = setup.helper
  BY <1>1, <1>2 DEF Setups
<1>4. queue' = Tail(queue) /\ queue' \in Seq(Tasks)
  BY <1>1 DEF G!Operation
<1>5. Host' = Host
  BY <1>3 DEF Host
<1> DEFINE m == [kind |-> "done", of |-> step, ok |-> ok]
<1>6. m \in Told /\ m.kind # "report" /\ G!Tell(m)
  BY <1>2 DEF Told, Tasks
<1> HIDE DEF m
<1>7. inbox' = Append(inbox, m)
  BY <1>6 DEF G!Tell
<1>8. Reported'
  BY <1>1, <1>4, <1>5, <1>6, <1>7, ReportTold
<1> QED BY <1>3, <1>4, <1>6, <1>8, GuideTold

LEMMA GuideWork ==
    ASSUME GuideInv, G!Work
    PROVE  GuideInv'
<1> DEFINE step == Head(queue)
<1>1. /\ win.on /\ queue # <<>> /\ queue \in Seq(Tasks) /\ win' = win
  BY DEF GuideInv, GuideTypes, G!Work
<1>2. step \in Tasks
  BY <1>1
<1>3. CASE step = "measure"
  BY <1>1, <1>3, GuideMeasure DEF G!Work
<1>4. CASE step = "caps"
  BY <1>1, <1>4, GuideCaps DEF G!Work
<1>5. CASE step \in {"prepare-uac", "install", "repair", "remove", "check"}
  <2>1. G!Privileged(step)
    BY <1>5 DEF G!Work
  <2> HIDE DEF step
  <2> QED BY <1>1, <1>5, <2>1, GuidePrivileged
<1>6. CASE step \in {"import", "enroll", "migrate"}
  <2>1. G!Operation(step) /\ unseen' = unseen
    BY <1>6 DEF G!Work
  <2>2. Head(queue) # "measure"
    BY <1>6
  <2> HIDE DEF step
  <2> QED BY <1>1, <1>6, <2>1, <2>2, GuideOperation
<1> QED BY <1>2, <1>3, <1>4, <1>5, <1>6 DEF Tasks

LEMMA GuideTested ==
    ASSUME GuideInv, G!Tested
    PROVE  GuideInv'
<1>1. PICK left \in {"none", "silent", "ready"} :
        setup' = [setup EXCEPT !.record = left, !.fits = (left = "ready")]
  BY DEF G!Tested, G!None
<1>2. win.on /\ win' = win /\ setup \in Setups /\ inbox \in Seq(Told) /\ queue \in Seq(Tasks) /\ Reported
      /\ queue' = queue /\ unseen' = unseen
  BY DEF GuideInv, GuideTypes, G!Tested
<1>3. setup' \in Setups /\ setup'.lua = setup.lua /\ setup'.helper = setup.helper
  BY <1>1, <1>2 DEF Setups
<1>4. Host' = Host
  BY <1>2, <1>3 DEF Host
<1> DEFINE m == [kind |-> "tested"]
<1>5. m \in Told /\ m.kind # "report" /\ G!Tell(m)
  BY DEF Told, G!Tested
<1> HIDE DEF m
<1>6. inbox' = Append(inbox, m)
  BY <1>5 DEF G!Tell
<1>7. Reported'
  BY <1>2, <1>4, <1>5, <1>6, ReportTold
<1> QED BY <1>2, <1>3, <1>5, <1>7, GuideTold

\* Something changes behind the page.
LEMMA GuideMeddle ==
    ASSUME GuideInv, G!Meddle
    PROVE  GuideInv'
<1>1. /\ win' = win /\ queue' = queue /\ inbox' = inbox /\ testing' = testing
      /\ setup \in Setups /\ queue \in Seq(Tasks)
  BY DEF GuideInv, GuideTypes, G!Meddle
<1>2. /\ setup' \in Setups /\ "disk" \in unseen' /\ ("host" \in unseen => "host" \in unseen')
      /\ "host" \in unseen' \/ (setup'.lua = setup.lua /\ setup'.helper = setup.helper)
  <2>1. CASE setup' = [setup EXCEPT !.copy = ~@] /\ unseen' = unseen \cup {"disk"}
    BY <1>1, <2>1 DEF Setups
  <2>2. CASE setup' = [setup EXCEPT !.app = FALSE] /\ unseen' = unseen \cup {"disk"}
    BY <1>1, <2>2 DEF Setups
  <2>3. CASE /\ setup' = [setup EXCEPT !.helper = "bad", !.fits = FALSE]
             /\ unseen' = unseen \cup {"host", "disk"}
    BY <1>1, <2>3 DEF Setups
  <2> QED BY <2>1, <2>2, <2>3 DEF G!Meddle
<1>3. ASSUME Reported PROVE Reported'
  <2>1. CASE "host" \in unseen'
    BY <2>1 DEF Reported
  <2>2. CASE "host" \notin unseen'
    <3>1. Host' = Host
      BY <1>1, <1>2, <2>2 DEF Host
    <3> QED BY <1>1, <1>2, <1>3, <2>2, <3>1 DEF Reported, True
  <2> QED BY <2>1, <2>2
<1> QED BY <1>1, <1>2, <1>3 DEF GuideInv, GuideTypes, UpToDate

LEMMA GuideRests == GuideInv /\ UNCHANGED guideVars => GuideInv'
<1> SUFFICES ASSUME GuideInv, UNCHANGED guideVars PROVE GuideInv'
  OBVIOUS
<1>1. /\ setup' = setup /\ marker' = marker /\ clock' = clock /\ win' = win /\ queue' = queue
      /\ inbox' = inbox /\ testing' = testing /\ unseen' = unseen
  BY DEF guideVars
<1>2. Host' = Host /\ Offer' = Offer
  BY <1>1 DEF Host, Offer, G!NextAction, G!Pending, G!Satisfied, G!Accepted, G!Up, G!Separated
<1>3. Reported => Reported'
  BY <1>1, <1>2 DEF Reported, True
<1>4. UpToDate => UpToDate'
  BY <1>1, <1>2 DEF UpToDate
<1> QED BY <1>1, <1>3, <1>4 DEF GuideInv, GuideTypes

LEMMA GuideStep == GuideInv /\ (G!Next \/ UNCHANGED guideVars) => GuideInv'
<1> SUFFICES ASSUME GuideInv, G!Next \/ UNCHANGED guideVars PROVE GuideInv'
  OBVIOUS
<1>1. CASE G!Launch \/ G!Close \/ G!Restart \/ G!Wait
  BY <1>1, GuideOpens, GuideEnds
<1>2. ASSUME NEW step \in G!Asking \cup G!Direct \cup {"repair", "remove"}, G!Click(step)
      PROVE  GuideInv'
  BY <1>2, GuideClick
<1>3. ASSUME NEW yes \in BOOLEAN, G!Answer(yes) PROVE GuideInv'
  BY <1>3, GuideAnswer
<1>4. CASE G!Recheck \/ G!SecureCopy \/ G!Status \/ G!RestartLater \/ G!Handle \/ G!Dismiss
  BY <1>4, GuideLooks, GuideRestartLater, GuideHandle, GuideDismiss
<1>5. CASE G!Work \/ G!Tested \/ G!Meddle
  BY <1>5, GuideWork, GuideTested, GuideMeddle
<1>6. CASE UNCHANGED guideVars
  BY <1>6, GuideRests
<1> QED BY <1>1, <1>2, <1>3, <1>4, <1>5, <1>6 DEF G!Next

\* A page that has caught up offers what the facts call for.
LEMMA QuietIsFresh == GuideInv => G!ActionIsFresh
<1> SUFFICES ASSUME GuideInv, G!Quiet, unseen = {}
             PROVE  win.next = G!NextAction(Host, G!Pending(win.report), win.commissioned, win.probed)
  BY DEF G!ActionIsFresh, Host
<1>1. /\ win.on /\ win.boxes = <<>> /\ queue = <<>> /\ inbox = <<>> /\ ~win.dirty
      /\ win.report # G!Unknown /\ Reported /\ UpToDate /\ setup \in Setups
  BY DEF G!Quiet, G!Free, GuideInv, GuideTypes
<1>2. DOMAIN queue = {} /\ DOMAIN inbox = {}
  BY <1>1
<1>3. win.report = Host
  BY <1>1, <1>2 DEF Reported, True
<1>4. Host # G!NoReport
  BY <1>1, Constants DEF Host, Setups
<1>5. win.next = Offer
  BY <1>1 DEF UpToDate
<1> QED BY <1>3, <1>4, <1>5 DEF Offer

LEMMA GuideMoves ==
    [AllNext]_<<part, installVars, channelVars, acceptVars, guideVars>> => (G!Next \/ UNCHANGED guideVars)
  BY DEF AllNext

\* SetupGuide: once the page has caught up, the one step it offers is the one the facts call
\* for, in whatever order messages and boxes were handled (secure_apps_gui.py, sa_setup.py).
THEOREM PageStaysFresh == AllSpec => []ActionIsFresh
<1>1. AllInit => GuideInv
  BY GuideInitial DEF AllInit
<1>2. GuideInv /\ [AllNext]_<<part, installVars, channelVars, acceptVars, guideVars>> => GuideInv'
  BY GuideStep, GuideMoves
<1>3. GuideInv => ActionIsFresh
  BY QuietIsFresh DEF ActionIsFresh
<1> QED BY <1>1, <1>2, <1>3, PTL DEF AllSpec

\* The lines that are not complete, and the first of them or 0.
Missing(report, commissioned, probed) ==
    {i \in 1..9 :
        \/ i = 1 /\ ~G!Separated(report)
        \/ i = 2 /\ report.helper \in {"none", "unknown"}
        \/ i = 3 /\ ~commissioned /\ setup.record = "none"
        \/ i = 4 /\ ~probed /\ ~G!Accepted
        \/ i = 5 /\ ~G!Accepted
        \/ i = 6 /\ ~setup.app
        \/ i = 7 /\ ~setup.enrolled
        \/ i = 8 /\ ~setup.migrated
        \/ i = 9 /\ setup.copy}
First(lines) == IF lines # {} THEN G!Min(lines) ELSE 0

LEMMA FirstIs ==
    ASSUME NEW lines \in SUBSET (1..9)
    PROVE  \/ First(lines) = 0 /\ lines = {}
           \/ First(lines) \in lines /\ \A i \in lines : First(lines) <= i
<1>1. CASE lines = {}
  BY <1>1 DEF First
<1>2. CASE lines # {}
  <2>1. \E x \in lines : \A y \in lines : x <= y
    <3>1. PICK m \in lines : \A k \in lines : <<k, m>> \notin OpToRel(<, Nat)
      <4>1. lines \subseteq Nat
        OBVIOUS
      <4> QED BY <1>2, <4>1, WFMin, NatLessThanWellFounded, Zenon
    <3>2. \A k \in lines : ~(k < m)
      <4>1. lines \subseteq Nat
        OBVIOUS
      <4> QED BY <3>1, <4>1, Zenon DEF OpToRel
    <3> QED BY <3>2
  <2>2. First(lines) = CHOOSE x \in lines : \A y \in lines : x <= y
    BY <1>2 DEF First, G!Min
  <2> QED BY <2>1, <2>2
<1> QED BY <1>1, <1>2

LEMMA SaysIs ==
    ASSUME NEW at \in 0..9, NEW pending \in BOOLEAN, NEW good \in BOOLEAN
    PROVE  LET says == CASE at = 0 -> "complete"
                         [] at = 1 -> IF pending THEN "reboot required" ELSE "action required"
                         [] at = 3 /\ ~good -> "failed"
                         [] at \in {2, 9} -> "action required"
                         [] OTHER -> "ready"
           IN  says = "reboot required" <=> (at = 1 /\ pending)
<1>1. CASE at = 0
  BY <1>1
<1>2. CASE at = 1
  BY <1>2
<1>3. CASE at \in 2..9
  BY <1>3
<1> QED BY <1>1, <1>2, <1>3

LEMMA StepIs ==
    ASSUME NEW report \in Reports, NEW pending \in BOOLEAN, NEW commissioned \in BOOLEAN,
           NEW probed \in BOOLEAN, setup \in Setups
    PROVE  LET at == First(Missing(report, commissioned, probed))
               s == G!Step(report, pending, commissioned, probed)
           IN  /\ s.at = at
               /\ s.says = "reboot required" <=> (at = 1 /\ pending)
<1> DEFINE H == G!HostLines(report, commissioned, probed)
           L == H \o G!VaultLines
           s == G!Step(report, pending, commissioned, probed)
           I == {i \in 1..Len(L) : ~L[i]}
           lines == Missing(report, commissioned, probed)
           at == First(lines)
<1>1. /\ Len(L) = 9
      /\ L[1] = G!Separated(report) /\ L[2] = (report.helper \notin {"none", "unknown"})
      /\ L[3] = (commissioned \/ setup.record # "none")
      /\ L[4] = (probed \/ G!Accepted) /\ L[5] = G!Accepted /\ L[6] = setup.app
      /\ L[7] = setup.enrolled /\ L[8] = setup.migrated /\ L[9] = ~setup.copy
  BY DEF G!HostLines, G!VaultLines, G!None
<1>2. I = lines
  <2>1. lines \subseteq 1..9 /\ I \subseteq 1..9
    BY <1>1 DEF Missing
  <2> HIDE DEF L
  <2>2. ASSUME NEW i \in 1..9 PROVE i \in I <=> i \in lines
    <3>1. i = 1 \/ i = 2 \/ i = 3 \/ i = 4 \/ i = 5 \/ i = 6 \/ i = 7 \/ i = 8 \/ i = 9
      OBVIOUS
    <3>2. CASE i = 1 BY <1>1, <3>2 DEF Missing
    <3>3. CASE i = 2 BY <1>1, <3>3 DEF Missing
    <3>4. CASE i = 3 BY <1>1, <3>4 DEF Missing
    <3>5. CASE i = 4 BY <1>1, <3>5 DEF Missing
    <3>6. CASE i = 5 BY <1>1, <3>6 DEF Missing
    <3>7. CASE i = 6 BY <1>1, <3>7 DEF Missing
    <3>8. CASE i = 7 BY <1>1, <3>8 DEF Missing
    <3>9. CASE i = 8 BY <1>1, <3>9 DEF Missing
    <3>10. CASE i = 9 BY <1>1, <3>10 DEF Missing
    <3> QED BY <3>1, <3>2, <3>3, <3>4, <3>5, <3>6, <3>7, <3>8, <3>9, <3>10
  <2> HIDE DEF I, lines
  <2> QED BY <2>1, <2>2
<1> HIDE DEF H
<1>3. s = [at |-> First(I),
           says |-> CASE First(I) = 0 -> "complete"
                      [] First(I) = 1 -> IF pending THEN "reboot required" ELSE "action required"
                      [] First(I) = 3 /\ report.helper # "good" -> "failed"
                      [] First(I) \in {2, 9} -> "action required"
                      [] OTHER -> "ready"]
  BY DEF G!Step, G!SelectInSeq, H, First
<1>4. lines \in SUBSET (1..9)
  BY DEF Missing
<1>5. at \in 0..9
  <2>1. (at = 0 /\ lines = {}) \/ at \in lines
    BY <1>4, FirstIs
  <2> HIDE DEF at, lines, L, I
  <2>2. CASE at = 0
    BY <2>2
  <2>3. CASE at \in lines
    <3>1. at \in 1..9
      BY <1>4, <2>3, Zenon
    <3> QED BY <3>1
  <2> QED BY <2>1, <2>2, <2>3
<1>6. s.at = at /\ (s.says = "reboot required" <=> (at = 1 /\ pending))
  <2> DEFINE good == report.helper = "good"
  <2>1. s = [at |-> at,
             says |-> CASE at = 0 -> "complete"
                        [] at = 1 -> IF pending THEN "reboot required" ELSE "action required"
                        [] at = 3 /\ ~good -> "failed"
                        [] at \in {2, 9} -> "action required"
                        [] OTHER -> "ready"]
    BY <1>2, <1>3
  <2>2. good \in BOOLEAN
    OBVIOUS
  <2> HIDE DEF s, good, at, lines, L, I
  <2> QED BY <1>5, <2>1, <2>2, SaysIs
<1> QED BY <1>6

SameLine(report, n, s) ==
    \/ n = "restart" /\ G!Separated(report)
    \/ n = "check" /\ report.helper = "bad"
    \/ s.at = G!LineOf(n) /\ (n = "restart" <=> s.says = "reboot required")

\* Computed from the same facts, the action and the line are about the same step.
LEMMA SameStep ==
    ASSUME NEW report \in Reports, NEW pending \in BOOLEAN, NEW commissioned \in BOOLEAN,
           NEW probed \in BOOLEAN, setup \in Setups, ~(report = G!NoReport /\ ~pending),
           report # G!Unknown
    PROVE  SameLine(report, G!NextAction(report, pending, commissioned, probed),
                    G!Step(report, pending, commissioned, probed))
<1> DEFINE n == G!NextAction(report, pending, commissioned, probed)
           s == G!Step(report, pending, commissioned, probed)
           lines == Missing(report, commissioned, probed)
           at == First(lines)
<1>1. s.at = at /\ (s.says = "reboot required" <=> (at = 1 /\ pending))
  BY StepIs
<1>2. (at = 0 /\ lines = {}) \/ (at \in lines /\ \A i \in lines : at <= i)
  <2>1. lines \in SUBSET (1..9)
    BY DEF Missing
  <2> HIDE DEF lines
  <2> QED BY <2>1, FirstIs
<1>3. \/ report = G!NoReport /\ pending /\ report.lua = "unknown" /\ ~G!Separated(report)
      \/ /\ report.lua \in {"off", "on"} /\ report.elevated \in BOOLEAN
         /\ report.helper \in {"none", "bad", "good"}
         /\ G!Separated(report) <=> (report.lua = "on" /\ ~report.elevated)
  BY Constants DEF Reports, G!Separated
<1> SUFFICES SameLine(report, n, s)
  OBVIOUS
<1> USE DEF SameLine
<1> HIDE DEF s, at
<1>4. CASE ~G!Separated(report)
  <2>1. n \in {"prepare-uac", "restart", "relaunch"} /\ (n = "restart" <=> pending)
    BY <1>3, <1>4 DEF G!NextAction
  <2>2. 1 \in lines /\ lines \subseteq 1..9
    BY <1>4 DEF Missing
  <2> HIDE DEF lines, n
  <2>3. at = 1
    <3>1. at \in lines /\ at <= 1
      BY <1>2, <2>2
    <3>2. at \in 1..9
      BY <2>2, <3>1, Zenon
    <3> QED BY <3>1, <3>2
  <2>4. G!LineOf(n) = 1
    BY <2>1 DEF G!LineOf
  <2> QED BY <1>1, <2>1, <2>3, <2>4 DEF n, s
<1>5. CASE G!Separated(report) /\ pending
  BY <1>5 DEF G!NextAction
<1>6. CASE G!Separated(report) /\ ~pending
  <2>1. /\ n # "restart"
        /\ \/ n = "install" /\ report.helper = "none"
           \/ n = "check" /\ report.helper = "bad"
           \/ n = "check" /\ report.helper = "good" /\ ~commissioned /\ setup.record = "none"
           \/ n = "caps" /\ report.helper = "good" /\ (commissioned \/ setup.record # "none")
              /\ ~G!Accepted /\ ~probed
           \/ /\ report.helper = "good" /\ (commissioned \/ setup.record # "none")
              /\ \/ n = "acceptance" /\ ~G!Accepted /\ probed
                 \/ /\ G!Accepted
                    /\ \/ n = "import" /\ ~setup.app
                       \/ n = "enroll" /\ setup.app /\ ~setup.enrolled
                       \/ n = "migrate" /\ setup.app /\ setup.enrolled /\ ~setup.migrated
                       \/ n = "secure" /\ setup.app /\ setup.enrolled /\ setup.migrated /\ setup.copy
                       \/ n = "ready" /\ setup.app /\ setup.enrolled /\ setup.migrated /\ ~setup.copy
    BY <1>3, <1>6 DEF G!NextAction, G!None
  <2> HIDE DEF n
  <2>2. CASE n = "check" /\ report.helper = "bad"
    BY <2>2 DEF n
  <2>3. CASE ~(n = "check" /\ report.helper = "bad")
    <3>1. at = G!LineOf(n)
      <4>1. \/ n = "install" /\ 2 \in lines /\ lines \subseteq 2..9
            \/ n = "check" /\ 3 \in lines /\ lines \subseteq 3..9
            \/ n = "caps" /\ 4 \in lines /\ lines \subseteq 4..9
            \/ n = "acceptance" /\ 5 \in lines /\ lines \subseteq 5..9
            \/ n = "import" /\ 6 \in lines /\ lines \subseteq 6..9
            \/ n = "enroll" /\ 7 \in lines /\ lines \subseteq 7..9
            \/ n = "migrate" /\ 8 \in lines /\ lines \subseteq 8..9
            \/ n = "secure" /\ 9 \in lines /\ lines \subseteq 9..9
            \/ n = "ready" /\ lines = {}
        BY <1>6, <2>1, <2>3 DEF Missing
      <4> HIDE DEF lines
      <4> QED BY <1>2, <4>1 DEF G!LineOf
    <3> QED BY <1>1, <1>6, <2>1, <3>1 DEF n, s
  <2> QED BY <2>2, <2>3
<1> QED BY <1>4, <1>5, <1>6

\* The page that has just been computed.
LEMMA PageAgrees ==
    ASSUME NEW w, Window(w), setup \in Setups, G!Refresh(w)
    PROVE  G!GuideAgrees'
<1>1. CASE win' = [w EXCEPT !.dirty = TRUE]
  <2>1. win'.dirty
    BY <1>1, WindowDirty
  <2> QED BY <2>1 DEF G!GuideAgrees
<1>2. CASE win' = G!Recomputed(w)
  <2>1. PICK p \in BOOLEAN : p = G!Pending(w.report)
    BY DEF G!Pending
  <2> DEFINE n == G!NextAction(w.report, p, w.commissioned, w.probed)
             s == G!Step(w.report, p, w.commissioned, w.probed)
  <2>2. w.report \in Reports /\ w.commissioned \in BOOLEAN /\ w.probed \in BOOLEAN
    BY DEF Window
  <2>3. CASE w.report = G!NoReport /\ ~p
    <3>1. win' = [w EXCEPT !.pending = FALSE, !.next = "evaluating", !.dirty = FALSE]
      BY <1>2, <2>1, <2>3 DEF G!Recomputed, G!Evaluating
    <3>2. win'.next = "evaluating"
      BY <3>1 DEF Window
    <3> QED BY <3>2 DEF G!GuideAgrees
  <2>4. CASE ~(w.report = G!NoReport /\ ~p) /\ w.report # G!Unknown
    <3>1. win' = [w EXCEPT !.pending = p, !.dirty = FALSE, !.next = n, !.step = s]
      BY <1>2, <2>1, <2>4, Zenon DEF G!Recomputed
    <3>2. SameLine(w.report, n, s)
      BY <2>2, <2>4, SameStep
    <3> HIDE DEF n, s
    <3>3. win'.next = n /\ win'.step = s /\ win'.report = w.report
      BY <3>1 DEF Window
    <3> QED BY <3>2, <3>3 DEF SameLine, G!GuideAgrees, G!Separated, G!LineOf
  <2>5. CASE w.report = G!Unknown
    <3>1. win'.report = w.report
      BY <1>2, <2>2 DEF G!Recomputed, G!Evaluating, Window
    <3> QED BY <2>5, <3>1 DEF G!GuideAgrees
  <2> QED BY <2>3, <2>4, <2>5
<1> QED BY <1>1, <1>2 DEF G!Refresh

\* What the page shows is as it was.
LEMMA PageRests ==
    ASSUME G!GuideAgrees, win'.on = win.on, win'.next = win.next, win'.step = win.step,
           win'.report = win.report, win'.dirty = win.dirty
    PROVE  G!GuideAgrees'
  BY DEF G!GuideAgrees, G!Separated, G!LineOf

\* A question or a box changes nothing of what is shown.
LEMMA BoxAgrees ==
    ASSUME G!GuideAgrees, Window(win), NEW a, NEW b, NEW c,
           \/ win' = win
           \/ win' = [win EXCEPT !.asked = a]
           \/ win' = [win EXCEPT !.boxes = b]
           \/ win' = [[win EXCEPT !.commissioned = c] EXCEPT !.boxes = b]
    PROVE  G!GuideAgrees'
<1>1. /\ win'.on = win.on /\ win'.next = win.next /\ win'.step = win.step
      /\ win'.report = win.report /\ win'.dirty = win.dirty
  <2>1. CASE win' = win
    BY <2>1
  <2>2. CASE win' = [win EXCEPT !.asked = a]
    BY <2>2 DEF Window
  <2>3. CASE win' = [win EXCEPT !.boxes = b]
    BY <2>3 DEF Window
  <2>4. CASE win' = [[win EXCEPT !.commissioned = c] EXCEPT !.boxes = b]
    BY <2>4 DEF Window
  <2> QED BY <2>1, <2>2, <2>3, <2>4
<1> QED BY <1>1, PageRests

LEMMA HandleAgrees ==
    ASSUME GuideInv, G!GuideAgrees, G!Handle
    PROVE  G!GuideAgrees'
<1> DEFINE m == Head(inbox)
<1>1. /\ win.on /\ Window(win) /\ inbox \in Seq(Told) /\ setup \in Setups /\ inbox # <<>>
  BY Constants DEF GuideInv, GuideTypes, G!Handle
<1>2. m \in Told
  BY <1>1
<1>3. CASE m.kind = "report"
  <2> DEFINE w == [win EXCEPT !.report = m.report]
  <2>1. G!Refresh(w)
    BY <1>3 DEF G!Handle, G!ReportReady
  <2>2. Window(w)
    BY <1>1, <1>2, <1>3, ToldIs DEF Window
  <2> HIDE DEF w, m
  <2> QED BY <1>1, <2>1, <2>2, PageAgrees
<1>4. CASE m.kind = "caps"
  <2> DEFINE w == [win EXCEPT !.probed = m.ok]
  <2>1. G!Refresh(w) /\ m.ok \in BOOLEAN
    BY <1>2, <1>4 DEF G!Handle, G!CapsReady, Told
  <2>2. Window(w)
    BY <1>1, <2>1 DEF Window
  <2> HIDE DEF w, m
  <2> QED BY <1>1, <2>1, <2>2, PageAgrees
<1>5. CASE m.kind = "tested"
  <2>1. G!Refresh(win)
    BY <1>5 DEF G!Handle
  <2> QED BY <1>1, <2>1, PageAgrees
<1>6. CASE m.kind = "done"
  <2>1. G!Refresh(win) \/ (\E b : win' = [win EXCEPT !.boxes = b])
    BY <1>6 DEF G!Handle, G!OperationDone, G!Box
  <2> QED BY <1>1, <2>1, PageAgrees, BoxAgrees
<1>7. CASE m.kind = "result"
  <2>1. \/ G!Refresh(win)
        \/ \E b : win' = [win EXCEPT !.boxes = b]
        \/ \E b : win' = [[win EXCEPT !.commissioned = TRUE] EXCEPT !.boxes = b]
    BY <1>7 DEF G!Handle, G!ActionResult, G!Box
  <2> QED BY <1>1, <2>1, PageAgrees, BoxAgrees
<1> QED BY <1>2, <1>3, <1>4, <1>5, <1>6, <1>7, ToldIs

LEMMA DismissAgrees ==
    ASSUME GuideInv, G!GuideAgrees, G!Dismiss
    PROVE  G!GuideAgrees'
<1>1. Window(win) /\ setup \in Setups
  BY Constants DEF GuideInv, GuideTypes, G!Dismiss
<1> DEFINE s == G!Front(win.boxes)
           w == [win EXCEPT !.boxes = s]
<1>2. win.boxes \in Seq(Afters) /\ win.boxes # <<>>
  BY <1>1 DEF Window, G!Dismiss
<1>3. s \in Seq(Afters) /\ G!Last(win.boxes) \in Afters
  BY <1>2 DEF G!Front, G!Last
<1>4. G!Refresh(w)
  BY <1>3 DEF G!Dismiss, Afters
<1> HIDE DEF s
<1>5. Window(w)
  BY <1>1, <1>3 DEF Window
<1> HIDE DEF w
<1> QED BY <1>1, <1>4, <1>5, PageAgrees

LEMMA AgreesStep ==
    ASSUME GuideInv, G!GuideAgrees, G!Next \/ UNCHANGED guideVars
    PROVE  G!GuideAgrees'
<1>1. win.on => Window(win)
  BY Constants DEF GuideInv, GuideTypes
<1>2. setup \in Setups
  BY DEF GuideInv, GuideTypes
<1>3. CASE G!Launch
  <2>1. win'.next = "evaluating"
    BY <1>3 DEF G!Launch
  <2> QED BY <2>1 DEF G!GuideAgrees
<1>4. CASE G!Close \/ G!Restart
  <2>1. ~win'.on
    BY <1>4, Constants DEF G!Close, G!Restart, G!Ended
  <2> QED BY <2>1 DEF G!GuideAgrees
<1>5. CASE win' = win
  BY <1>5, PageRests
<1>6. ASSUME NEW step \in G!Asking \cup G!Direct \cup {"repair", "remove"}, G!Click(step)
      PROVE  G!GuideAgrees'
  <2>1. win.on /\ (win' = win \/ win' = [win EXCEPT !.asked = step])
    BY <1>6 DEF G!Click, G!Free
  <2> QED BY <1>1, <2>1, BoxAgrees
<1>7. ASSUME NEW yes \in BOOLEAN, G!Answer(yes) PROVE G!GuideAgrees'
  <2>1. win.on /\ win' = [win EXCEPT !.asked = G!None]
    BY <1>7 DEF G!Answer
  <2> QED BY <1>1, <2>1, BoxAgrees
<1>8. CASE G!Recheck \/ G!SecureCopy \/ G!Status
  <2>1. win.on /\ G!Refresh(win)
    BY <1>8 DEF G!Recheck, G!SecureCopy, G!Status, G!Free
  <2> QED BY <1>1, <1>2, <2>1, PageAgrees
<1>9. CASE G!RestartLater
  <2>1. win.on /\ win' = [win EXCEPT !.boxes = <<"refresh">>]
    BY <1>9 DEF G!RestartLater, G!Free
  <2> QED BY <1>1, <2>1, BoxAgrees
<1>10. CASE G!Handle
  BY <1>10, HandleAgrees
<1>11. CASE G!Dismiss
  BY <1>11, DismissAgrees
<1>12. (G!Wait \/ G!Work \/ G!Tested \/ G!Meddle \/ UNCHANGED guideVars) => win' = win
  BY DEF G!Wait, G!Work, G!Tested, G!Meddle, guideVars
<1> QED BY <1>3, <1>4, <1>5, <1>6, <1>7, <1>8, <1>9, <1>10, <1>11, <1>12 DEF G!Next

\* SetupGuide: the action the page offers and the line of its list it points at are about the
\* same step, but for the three cases the property names (sa_setup.py).
THEOREM GuideStaysInAgreement == AllSpec => []GuideAgrees
<1>1. AllInit => GuideInv /\ G!GuideAgrees
  <2>1. G!Init => G!GuideAgrees
    BY Constants DEF G!Init, G!GuideAgrees
  <2> QED BY <2>1, GuideInitial DEF AllInit
<1>2. GuideInv /\ G!GuideAgrees /\ [AllNext]_<<part, installVars, channelVars, acceptVars, guideVars>>
        => (GuideInv /\ G!GuideAgrees)'
  BY GuideStep, AgreesStep, GuideMoves
<1>3. GuideInv /\ G!GuideAgrees => GuideAgrees
  BY DEF GuideAgrees
<1> QED BY <1>1, <1>2, <1>3, PTL DEF AllSpec
=============================================================================
