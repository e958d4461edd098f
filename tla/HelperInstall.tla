--------------------------- MODULE HelperInstall ---------------------------
(***************************************************************************)
(* The elevated helper as an installation (sa_privtask.py): a protected      *)
(* runtime directory, a scheduled task that runs it, a pin that says what     *)
(* was installed.  apply_install replaces the three in one transaction that   *)
(* may fail or die after every step and rolls back to what it found;          *)
(* apply_remove takes them away; verify_installation judges them, here and     *)
(* before the medium-integrity broker starts the task.                        *)
(*                                                                          *)
(* A bundle is a version; an access control list is closed or not.  Backup    *)
(* and staging carry the process id in their names, so a later run does not   *)
(* see those of a dead one.  Installers run one at a time.                    *)
(***************************************************************************)
EXTENDS Naturals

CONSTANTS
    Bundles,   \* versions of helper and worker that may be installed
    MaxRuns,   \* bound: installations and removals ever begun
    MaxFaults  \* bound: operations that fail, and deaths of an installer

ASSUME InstallConstants ==
    /\ Bundles \subseteq Nat \ {0}
    /\ MaxRuns \in Nat /\ MaxFaults \in Nat

VARIABLES
    root,    \* the protected runtime directory
    backup,  \* root.backup-<pid> of the current run
    staging, \* root.staging-<pid> of the current run
    task,    \* the scheduled task
    folder,  \* the task folder's descriptor denies deletion
    scratch, \* the privileged scratch root is closed
    pin,     \* the pin file
    run,     \* the transaction
    outcome, \* what the last transaction reported
    runs, faults

machine == <<root, backup, staging, task, folder, scratch, pin>>
vars == <<machine, run, outcome, runs, faults>>

Tree == [ver : Bundles, closed : BOOLEAN, whole : BOOLEAN]
NoTree == [ver |-> 0, closed |-> FALSE, whole |-> FALSE]
Task == [sd : BOOLEAN, enabled : BOOLEAN]
NoTask == [sd |-> FALSE, enabled |-> FALSE, absent |-> TRUE]
Pin == [ver : Bundles, closed : BOOLEAN]
NoPin == [ver |-> 0, closed |-> FALSE]

\* INSTALL_STAGES, with the steps they are made of.
Installing == {"stage", "close staging", "measure staging", "move out", "move in",
               "close root", "measure root", "scratch", "register", "task sd",
               "folder sd", "save pin", "close pin", "measure pin", "verify",
               "start", "confirm"}
Restoring == {"undo task", "undo tree", "undo pin", "redo task", "redo sd", "judge"}
Removing == {"remove task", "remove pin", "remove tree", "remove scratch"}

Snapshot == [task : Task \cup {NoTask}, sddl : BOOLEAN, pin : Pin \cup {NoPin}, tree : Tree \cup {NoTree}]
NoSnapshot == [task |-> NoTask, sddl |-> FALSE, pin |-> NoPin, tree |-> NoTree]
NoRun == [pc |-> "idle", ver |-> 0, snap |-> NoSnapshot, ok |-> TRUE, since |-> 0]
Outcomes == {"none", "installed", "rolled back", "repair required", "removed", "not removed", "died"}

TypeOK ==
    /\ {root, backup, staging} \subseteq Tree \cup {NoTree}
    /\ task \in Task \cup {NoTask}
    /\ folder \in BOOLEAN /\ scratch \in BOOLEAN
    /\ pin \in Pin \cup {NoPin}
    /\ run \in [pc : Installing \cup Restoring \cup Removing \cup {"idle"},
                ver : Bundles \cup {0}, snap : Snapshot, ok : BOOLEAN, since : 0..MaxFaults]
    /\ outcome \in Outcomes
    /\ runs \in 0..MaxRuns /\ faults \in 0..MaxFaults

Init ==
    /\ root = NoTree /\ backup = NoTree /\ staging = NoTree
    /\ task = NoTask /\ folder = FALSE /\ scratch = FALSE /\ pin = NoPin
    /\ run = NoRun /\ outcome = "none" /\ runs = 0 /\ faults = 0

-----------------------------------------------------------------------------
\* verify_installation: pin, runtime and scratch are there, closed, and of one
\* installation, and so are the task and its descriptor.
RuntimeVerifies ==
    /\ pin # NoPin /\ pin.closed
    /\ root # NoTree /\ root.whole /\ root.closed /\ root.ver = pin.ver
    /\ scratch
TaskVerifies == task # NoTask /\ task.sd /\ task.enabled
Verifies == RuntimeVerifies /\ TaskVerifies

Goto(step) == run' = [run EXCEPT !.pc = step]
Advance(from, to) == run.pc = from /\ Goto(to)
End(said) == run' = NoRun /\ outcome' = said
Fault == faults < MaxFaults /\ faults' = faults + 1

-----------------------------------------------------------------------------
\* apply_install.

Begin ==
    /\ run.pc = "idle" /\ runs < MaxRuns /\ runs' = runs + 1
    /\ \E v \in Bundles, sddl \in BOOLEAN :
          /\ sddl => task # NoTask
          /\ ~sddl /\ task # NoTask => faults < MaxFaults
          /\ faults' = IF ~sddl /\ task # NoTask THEN faults + 1 ELSE faults
          /\ run' = [NoRun EXCEPT !.pc = "stage", !.ver = v, !.since = faults,
                        !.snap = [task |-> task, sddl |-> sddl, pin |-> pin, tree |-> root]]
    /\ staging' = NoTree /\ backup' = NoTree
    /\ outcome' = "none"
    /\ UNCHANGED <<root, task, folder, scratch, pin>>

\* The staged copy is hashed against its source before anything uses it.
Stage ==
    /\ Advance("stage", "close staging")
    /\ staging' = [ver |-> run.ver, closed |-> FALSE, whole |-> TRUE]
    /\ UNCHANGED <<root, backup, task, folder, scratch, pin, outcome, runs, faults>>

CloseStaging ==
    /\ Advance("close staging", "measure staging")
    /\ staging' = [staging EXCEPT !.closed = TRUE]
    /\ UNCHANGED <<root, backup, task, folder, scratch, pin, outcome, runs, faults>>

MeasureStaging ==
    /\ Advance("measure staging", "move out")
    /\ staging.closed
    /\ UNCHANGED <<machine, outcome, runs, faults>>

\* Mutant: the pin decides whether there is a runtime to move aside.
MoveOutPinned ==
    /\ Advance("move out", "move in")
    /\ backup' = IF pin # NoPin THEN root ELSE NoTree
    /\ root' = IF pin # NoPin THEN NoTree ELSE root
    /\ UNCHANGED <<staging, task, folder, scratch, pin, outcome, runs, faults>>

MoveOut ==
    /\ Advance("move out", "move in")
    /\ backup' = root
    /\ root' = NoTree
    /\ UNCHANGED <<staging, task, folder, scratch, pin, outcome, runs, faults>>

MoveIn ==
    /\ Advance("move in", "close root")
    /\ root = NoTree
    /\ root' = staging /\ staging' = NoTree
    /\ UNCHANGED <<backup, task, folder, scratch, pin, outcome, runs, faults>>

\* The second rename is refused; the old runtime is put back, or not even that.
MoveInFails ==
    /\ run.pc = "move in"
    /\ root = NoTree => Fault
    /\ root # NoTree => UNCHANGED faults
    /\ \/ root = NoTree /\ root' = backup /\ backup' = NoTree
       \/ UNCHANGED <<root, backup>>
    /\ Goto("undo task")
    /\ UNCHANGED <<staging, task, folder, scratch, pin, outcome, runs>>

\* The list is written again on the canonical path; icacls may stop half-way.
CloseRoot ==
    /\ Advance("close root", "measure root")
    /\ \/ root' = [root EXCEPT !.closed = TRUE] /\ UNCHANGED faults
       \/ root' = [root EXCEPT !.closed = FALSE] /\ Fault
    /\ UNCHANGED <<backup, staging, task, folder, scratch, pin, outcome, runs>>

MeasureRoot ==
    /\ Advance("measure root", "scratch")
    /\ root.closed
    /\ UNCHANGED <<machine, outcome, runs, faults>>

CloseScratch ==
    /\ Advance("scratch", "register")
    /\ scratch' = TRUE
    /\ UNCHANGED <<root, backup, staging, task, folder, pin, outcome, runs, faults>>

\* Registration replaces the task and gives it the default descriptor.
Fresh == [sd |-> FALSE, enabled |-> TRUE]
Register ==
    /\ Advance("register", "task sd")
    /\ task' = Fresh
    /\ UNCHANGED <<root, backup, staging, folder, scratch, pin, outcome, runs, faults>>

TaskSd ==
    /\ Advance("task sd", "folder sd")
    /\ task' = [task EXCEPT !.sd = TRUE]
    /\ UNCHANGED <<root, backup, staging, folder, scratch, pin, outcome, runs, faults>>

\* Mutant: the folder's descriptor is best effort.
FolderSdBestEffort ==
    /\ Advance("folder sd", "save pin")
    /\ folder' \in {folder, TRUE}
    /\ UNCHANGED <<root, backup, staging, task, scratch, pin, outcome, runs, faults>>

FolderSd ==
    /\ Advance("folder sd", "save pin")
    /\ folder' = TRUE
    /\ UNCHANGED <<root, backup, staging, task, scratch, pin, outcome, runs, faults>>

SavePin ==
    /\ Advance("save pin", "close pin")
    /\ pin' = [ver |-> run.ver, closed |-> FALSE]
    /\ UNCHANGED <<root, backup, staging, task, folder, scratch, outcome, runs, faults>>

ClosePin ==
    /\ Advance("close pin", "measure pin")
    /\ pin' = [pin EXCEPT !.closed = TRUE]
    /\ UNCHANGED <<root, backup, staging, task, folder, scratch, outcome, runs, faults>>

MeasurePin ==
    /\ Advance("measure pin", "verify")
    /\ pin.closed
    /\ UNCHANGED <<machine, outcome, runs, faults>>

Verify ==
    /\ Advance("verify", "start")
    /\ Verifies
    /\ UNCHANGED <<machine, outcome, runs, faults>>

\* _commission_task: the task is started and seen to run, and stopped again.
Start ==
    /\ Advance("start", "confirm")
    /\ task.enabled
    /\ UNCHANGED <<machine, outcome, runs, faults>>

\* Mutant: a task that is not seen to run is still a finished installation.
ConfirmUnseen ==
    /\ run.pc = "confirm"
    /\ backup' = NoTree
    /\ End("installed")
    /\ UNCHANGED <<root, staging, task, folder, scratch, pin, runs, faults>>

Confirm ==
    /\ run.pc = "confirm"
    /\ task.enabled
    /\ backup' = NoTree
    /\ End("installed")
    /\ UNCHANGED <<root, staging, task, folder, scratch, pin, runs, faults>>

\* What each stage demands; a stage that finds it missing raises.
Demanded ==
    CASE run.pc = "measure staging" -> staging.closed
      [] run.pc = "measure root" -> root.closed
      [] run.pc = "measure pin" -> pin.closed
      [] run.pc = "verify" -> Verifies
      [] run.pc \in {"start", "confirm"} -> task.enabled
      [] OTHER -> TRUE

\* A stage raises: for want of what it demands, or because a command failed.
Raise ==
    /\ run.pc \in Installing \ {"move in"}
    /\ Goto("undo task")
    /\ IF Demanded THEN Fault ELSE UNCHANGED faults
    /\ UNCHANGED <<machine, outcome, runs>>

InstallStep ==
    \/ Stage \/ CloseStaging \/ MeasureStaging \/ MoveOut \/ MoveIn \/ MoveInFails
    \/ CloseRoot \/ MeasureRoot \/ CloseScratch \/ Register \/ TaskSd \/ FolderSd
    \/ SavePin \/ ClosePin \/ MeasurePin \/ Verify \/ Start \/ Confirm \/ Raise

-----------------------------------------------------------------------------
\* _restore_installation.  Every part is tried, whatever became of the others.

Tried(from, to, worked) ==
    /\ run.pc = from
    /\ run' = [run EXCEPT !.pc = to, !.ok = @ /\ worked]
    /\ IF worked THEN UNCHANGED faults ELSE Fault

\* Nothing runnable may survive, so the task goes first.
UndoTask ==
    /\ \/ Tried("undo task", "undo tree", TRUE) /\ task' = NoTask
       \/ task # NoTask /\ Tried("undo task", "undo tree", FALSE) /\ UNCHANGED task
    /\ UNCHANGED <<root, backup, staging, folder, scratch, pin, outcome, runs>>

\* The backup replaces what was installed; what cannot be deleted stays, in part.
Remains(t) == IF t = NoTree THEN NoTree ELSE [t EXCEPT !.whole = FALSE]
UndoTree ==
    /\ staging' = NoTree
    /\ \/ /\ run.snap.tree # NoTree /\ backup # NoTree
          /\ \/ /\ Tried("undo tree", "undo pin", TRUE)
                /\ root' = backup /\ backup' = NoTree
             \/ /\ Tried("undo tree", "undo pin", FALSE)
                /\ root' = Remains(root) /\ UNCHANGED backup
       \/ /\ run.snap.tree # NoTree /\ backup = NoTree
          /\ run.pc = "undo tree"
          /\ run' = [run EXCEPT !.pc = "undo pin", !.ok = @ /\ root # NoTree]
          /\ UNCHANGED <<root, backup, faults>>
       \/ /\ run.snap.tree = NoTree
          /\ \/ Tried("undo tree", "undo pin", TRUE) /\ root' = NoTree
             \/ root # NoTree /\ Tried("undo tree", "undo pin", FALSE) /\ root' = Remains(root)
          /\ UNCHANGED backup
    /\ UNCHANGED <<task, folder, scratch, pin, outcome, runs>>

\* Mutant: the pin file is written back although there was none.
UndoPinAlways ==
    /\ Tried("undo pin", "redo task", TRUE)
    /\ pin' = [run.snap.pin EXCEPT !.closed = TRUE]
    /\ UNCHANGED <<root, backup, staging, task, folder, scratch, outcome, runs>>

\* The bytes of the old pin are written and closed again; nobody looks whether
\* the closing succeeded.
UndoPin ==
    /\ LET old == run.snap.pin IN
          \/ /\ Tried("undo pin", "redo task", TRUE)
             /\ pin' = IF old = NoPin THEN NoPin ELSE [old EXCEPT !.closed = TRUE]
          \/ /\ old # NoPin /\ run.pc = "undo pin" /\ Goto("redo task") /\ Fault
             /\ pin' = [old EXCEPT !.closed = FALSE]
          \/ Tried("undo pin", "redo task", FALSE) /\ UNCHANGED pin
    /\ UNCHANGED <<root, backup, staging, task, folder, scratch, outcome, runs>>

RedoTask ==
    /\ \/ /\ run.snap.task = NoTask
          /\ Advance("redo task", "judge")
          /\ UNCHANGED <<task, faults>>
       \/ /\ run.snap.task # NoTask
          /\ \/ Tried("redo task", "redo sd", TRUE) /\ task' = Fresh
             \/ Tried("redo task", "judge", FALSE) /\ UNCHANGED task
    /\ UNCHANGED <<root, backup, staging, folder, scratch, pin, outcome, runs>>

\* Its descriptor, if it could be read before, and whether it was disabled.
RedoSd ==
    /\ LET old == run.snap.task  known == run.snap.sddl IN
          \/ /\ known /\ Tried("redo sd", "judge", TRUE)
             /\ task' = [sd |-> old.sd, enabled |-> old.enabled]
          \/ /\ known /\ Tried("redo sd", "judge", FALSE)
             /\ task' = [task EXCEPT !.enabled = old.enabled]
          \/ /\ ~known /\ run.pc = "redo sd"
             /\ run' = [run EXCEPT !.pc = "judge", !.ok = FALSE]
             /\ task' = [task EXCEPT !.enabled = old.enabled]
             /\ UNCHANGED faults
    /\ UNCHANGED <<root, backup, staging, folder, scratch, pin, outcome, runs>>

\* The target is proved, not assumed.
Reached ==
    IF run.snap.task # NoTask \/ run.snap.pin # NoPin
    THEN Verifies
    ELSE task = NoTask /\ pin = NoPin /\ root = NoTree

\* Mutant: the steps that reported no failure are believed.
JudgeBySteps ==
    /\ run.pc = "judge"
    /\ staging' = NoTree
    /\ End(IF run.ok THEN "rolled back" ELSE "repair required")
    /\ UNCHANGED <<root, backup, task, folder, scratch, pin, runs, faults>>

Judge ==
    /\ run.pc = "judge"
    /\ staging' = NoTree
    /\ End(IF run.ok /\ Reached THEN "rolled back" ELSE "repair required")
    /\ UNCHANGED <<root, backup, task, folder, scratch, pin, runs, faults>>

RestoreStep == UndoTask \/ UndoTree \/ UndoPin \/ RedoTask \/ RedoSd \/ Judge

-----------------------------------------------------------------------------
\* apply_remove: every part is tried.

BeginRemove ==
    /\ run.pc = "idle" /\ runs < MaxRuns /\ runs' = runs + 1
    /\ run' = [NoRun EXCEPT !.pc = "remove task"]
    /\ outcome' = "none"
    /\ UNCHANGED <<machine, faults>>

RemoveTask ==
    /\ \/ Tried("remove task", "remove pin", TRUE) /\ task' = NoTask
       \/ Tried("remove task", "remove pin", FALSE) /\ UNCHANGED task
    /\ UNCHANGED <<root, backup, staging, folder, scratch, pin, outcome, runs>>

RemovePin ==
    /\ \/ Tried("remove pin", "remove tree", TRUE) /\ pin' = NoPin
       \/ Tried("remove pin", "remove tree", FALSE) /\ UNCHANGED pin
    /\ UNCHANGED <<root, backup, staging, task, folder, scratch, outcome, runs>>

RemoveTree ==
    /\ \/ Tried("remove tree", "remove scratch", TRUE) /\ root' = NoTree
       \/ root # NoTree /\ Tried("remove tree", "remove scratch", FALSE) /\ root' = Remains(root)
    /\ UNCHANGED <<backup, staging, task, folder, scratch, pin, outcome, runs>>

RemoveScratch ==
    /\ run.pc = "remove scratch"
    /\ \/ scratch' = FALSE /\ End(IF run.ok THEN "removed" ELSE "not removed") /\ UNCHANGED faults
       \/ End("not removed") /\ Fault /\ UNCHANGED scratch
    /\ UNCHANGED <<root, backup, staging, task, folder, pin, runs>>

RemoveStep == RemoveTask \/ RemovePin \/ RemoveTree \/ RemoveScratch

-----------------------------------------------------------------------------
\* The installer dies; what carries its process id is never looked for again.
Die ==
    /\ run.pc # "idle"
    /\ Fault
    /\ End("died")
    /\ backup' = NoTree /\ staging' = NoTree
    /\ UNCHANGED <<root, task, folder, scratch, pin, runs>>

\* An administrator disables the task.
Disable ==
    /\ task # NoTask /\ task.enabled
    /\ task' = [task EXCEPT !.enabled = FALSE]
    /\ Fault
    /\ UNCHANGED <<root, backup, staging, folder, scratch, pin, run, outcome, runs>>

Next ==
    \/ Begin \/ InstallStep \/ RestoreStep
    \/ BeginRemove \/ RemoveStep
    \/ Die
    \/ Disable

Spec == Init /\ [][Next]_vars

-----------------------------------------------------------------------------
\* Properties.

\* A transaction that says it rolled back has: a first installation leaves no
\* task, no pin and no runtime, and a repair leaves runtime, pin and task as it
\* found them, the pin closed if it was not (apply_install,
\* _restore_installation).
RolledBackIsExact ==
    [][outcome # "rolled back" /\ outcome' = "rolled back" =>
          LET old == run.snap IN
          /\ root' = old.tree
          /\ pin'.ver = old.pin.ver
          /\ task' = old.task]_vars

\* One that says it installed leaves an installation that verifies, of the
\* bundle it was given, whose task cannot be deleted out of its folder.
InstalledVerifies ==
    [][outcome # "installed" /\ outcome' = "installed" =>
          Verifies' /\ folder' /\ pin'.ver = run.ver]_vars

\* verify_installation does not look at the task folder; through every failed,
\* dead, repaired or removed installation whatever it accepts is in a folder
\* that was protected (apply_install saves the pin after the folder).
VerifiedIsProtected == Verifies => folder

\* No transaction rolls back unless something failed in it: whatever an earlier
\* one left behind, dead or unrepaired, installing again is a repair
\* (REPAIR_REQUIRED).
RollbackNeedsFault == run.pc \in Restoring => faults > run.since

\* What the restore promises: a task that can be run is never left pointing at a
\* runtime whose access control list was not proven (_restore_installation).
RunnableIsProven ==
    outcome = "repair required" /\ task.enabled /\ root # NoTree => root.closed
=============================================================================
