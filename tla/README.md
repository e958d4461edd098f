# Verification of SAITULS

SAITULS is a Windows toolbox: a C# window (`SAITULS.cs`) that starts a number of
programs, most of them Python or PowerShell. This directory holds TLA+ modules of
those parts of it that keep state over several steps, threads and processes, the TLC
configurations that check them, and TLAPS proofs of what matters most. The code is
the reference; for every definition the lines it stands for are in `PROJECT.json`
under "map".

Contents: 1 inventory, 2 modules and how they correspond to the code, 3 runs, bounds
and fairness, 4 proofs, 5 where the code and its documents part, 6 not modelled.

## 1. Inventory

### Secure Apps (`Scripts/secure_apps`)

A BitLocker container holds the data of one protected application. A hardware key
releases the volume secret; a broker mounts the container, launches the application
and must leave the container detached afterwards.

| Component | State it keeps | Operations | Interacts by |
|---|---|---|---|
| Session broker `sa_broker.py` | per profile: state word, session (secret and two clocks), `pending_reauth`, mode, profile lock, publisher queue | reconcile, recover, open, authenticate_only, note_activity, tick, on_system_event, set_mode, shutdown, protector maintenance | calls into all of the below; a lock per profile; worker threads |
| Durable state `sa_state.py` | a JSON file: profile -> expected state and the nonce of the broker that wrote it | load, record, reconcile | a file every broker process reads and writes |
| Application supervisor `sa_applife.py` | the numbers and births of the processes it has seen | launch, running, close_sequence | operating-system processes |
| Storage back end `sa_storage.py`, `sa_storage_helper.ps1` | the container: missing, detached, attached and locked, mounted; leases | state, unlock_and_mount, unmount, list_protectors | requests to the elevated helper |
| Elevated helper `sa_privhelper.py`, `sa_privtask.py` | a protected runtime, a scheduled task, a pin; one process, one pipe | apply_install, apply_remove, verify; acquire, request, release | named pipe, task scheduler |
| Window and command line `secure_apps_gui.py`, `sa_cli.py` | worker threads, timer, cached facts of the page, single-instance mutex | slots, timer turn, questions, close; sa_cli commands | build a broker each; of the commands modelled here only the window and `sa_cli open` take the mutex: lock, recover, backup, enrolment and credential do not |
| Migration `sa_migrate.py` | a journal of steps, the source tree, its archive, the destination | migrate, resume, rollback, recover | the broker's session; directory renames |
| Backups `sa_backup.py`, `sa_future_gates.py` | generations of the container file, pointers, flat copies, a queue per profile | publish, recover, scrub, reconcile | a publisher thread per profile |
| Keys `sa_layout.py`, `sa_auth.py`, `sa_enroll.py`, `sa_fido_worker.py` | protectors of the volume, layout and journal, wrapped copies of the daily secret, the imported application | enrol, unwrap, portable password, upgrade, retire, import | HID devices, the helper |
| Set-up and acceptance `sa_setup.py`, `sa_acceptance.py`, `sa_acceptance_runner.py` | the acceptance record, the restart marker | evaluate, next action, safety page | files |

Hard here: a second broker process beside the window; a crash between any two steps
of an unlock, a relock, a migration, a publication, an enrolment or an installation;
an application that will not close and processes whose numbers are used again; events
that demand the key again while an operation waits; a cached secret and the clocks
that end it; questions answered too late; what the next start makes of it all.

### Other parts

| Component | What it does | Hard behaviour |
|---|---|---|
| saispin `saispin_watch.ps1`, `saispin_logic.py` | finds spinning processes from samples and ends them; leases of managed workers | streaks over sweeps, numbers used again, read-modify-write of one file by several processes |
| saipatch `Scripts/saipatch` | a prompt queue beside an assistant's server, a viewer that sends and shows, a clipboard monitor | verdicts that are stale when used, two channels racing, transactions that begin late |
| Cleaners `DEL_JUNK.PYW`, `DEL_DUP.PYW`, `verified_file.py` | delete files after a confirmation, with a journal | what was scanned is stale when deleted; a journal that cannot be written |
| Accounts `accounts/sai_relay.py`, `sai_access.py` | relays a log into a staged copy; grants a read right for a while | sources that change under the reader, crashes between publishing and saving; an ACL and a lease that are two files |
| Consoles `claude_hooks.py`, scenarios `BACKUP.py` | write hooks into others' settings; mirror a folder | files others edit between the read and the write |
| Folder automation `FolderAutomation/*.cs` | watches folders, runs rules, journals moves | not modelled |
| `SAITULS.cs`, `Installers`, `Registry`, taskbar, optimiser, `i18n` | window, packaging, system settings, data | not modelled |

### What makes the parts correct

- Broker: nothing is unlocked without the key that was asked for, whatever happened
  in between (`KeyBeforeMount`, `OneTouchPerAggressiveMount`); one process is at the
  vault, although others may hold its secret for a publication or an enrolment
  (`OneVaultOwner`), and the secret dies when its time is up (`AgedSecretDies`); a
  broker does not take the volume from under the application its supervisor tracks
  (`TrackedAppKeepsVault`); LOCKED and
  SESSION_CACHED mean an unreadable volume (`RestIsUnreadable`); a broker that died
  exposed is noticed (`UncleanEndIsNoticed`); exposure does not last in silence
  (`ExposureEnds`).
- Migration: plaintext is where its path or the journal says (`ArchiveIsNamed`),
  nothing is mounted over it (`NothingHidden`), notes are copied into the volume and
  nowhere else (`CopyGoesIntoTheVault`), what is complete is a full copy
  (`CompleteCopy`), and the page says readable notes are readable
  (`ReadableNotesAreSaid`).
- Backups: the file operations implement an archive whose generations appear whole
  and never change (`ArchiveSpec`); a recovery that finishes has healed
  (`RecoveryHeals`); a key in use is not wiped (`KeyInUseIsLive`), PUBLISHING ends
  (`PublishingEnds`).
- Keys: the daily and the break-glass protector the records name stay in the volume
  (`RecoveryRouteStays`); an owner with a good key gets in beside whatever other keys are
  in, unless his call was cut short (`WillingOwnerGetsIn`); an import never leaves less than one runnable application
  (`KnownGoodStays`).
- Window: an answer counts for the question it was given to
  (`ApprovalIsForThisQuestion`); the offered step rests on facts that hold
  (`ActionIsFresh`) and agrees with the list of steps (`GuideAgrees`).
- Processes: nobody is asked or killed who does not look like the application's by the
  parents' numbers (`StrangersAreSpared`), and "closed" means that none it has seen is
  left (`ExitIsReal`).
- Helper: what verifies is protected (`VerifiedIsProtected`), the lease count is the
  leases (`LeasesAreCounted`), and READY was proven of the sources that are there
  (`ReadyMeansProven`).
- Tools: `RemovedIsAnnounced`, `LastCopyStays`, `StreakIsTrue`, `ReservationIsExact`,
  `Converges`, `AnswerHolds`, `NoSilentGap`, `AccessIsLeased`, `TheirsStay`,
  `MirrorCatchesUp`, `OwnIsNotSaved`, `OneStream`; each is stated above its definition.


## 2. Modules and how they correspond to the code

A component is a module without TLC detail; an `MC` module instantiates it for TLC;
a `Proofs` module extends it with the theorems. Where a run takes several parts that
share no state, its `MC` module is their disjoint union: the initial state picks the
part that moves and the others rest. No definition is replaced in a configuration, so
the formulas TLC evaluates are the ones the proofs are about.

| Module | Stands for | Instance, proofs |
|---|---|---|
| `SecureBroker` | `sa_broker.py` for one profile, `sa_state.py`, `sa_cli.py`'s and the window's use of it | `MCSecureBroker`, `SecureBrokerProofs` |
| `VaultMigration`, `SetupTruth` | `sa_migrate.py` beside the owner, the broker and the application; the safety page of `sa_setup.py` over the same state | `MCVaultMigration`, `VaultMigrationProofs` |
| `BackupArchive`, `BackupStore` | what an archive of backups promises; the file operations of `sa_backup.py` and `sa_future_gates.py` | `MCBackup`, `BackupProofs` |
| `BackupPublisher` | the publisher thread and the queue in `sa_broker.py` | `MCBackup`, `BackupProofs` |
| `VaultKeys` | protectors, layout, journal: `sa_layout.py`, `sa_enroll.py`, `sa_broker.py` | `MCOwner`, `OwnerProofs` |
| `KeyUnlock` | the walk over keys and credentials in `sa_auth.py`, `sa_fido_worker.py` | `MCOwner`, `OwnerProofs` |
| `WindowRounds` | the window's timer, worker, questions and close | `MCOwner`, `OwnerProofs` |
| `ProcessFamily` | the supervisor's knowledge of its processes, `sa_applife.py` | `MCOwner`, `OwnerProofs` |
| `AppImport` | import into managed storage, `sa_enroll.py` | `MCOwner`, `OwnerProofs` |
| `HelperInstall` | `apply_install`, `apply_remove`, `verify` of `sa_privtask.py` | `MCHelper`, `HelperProofs` |
| `HelperChannel` | the pipe, leases, pinned helper: `sa_privhelper.py`, `sa_storage.py`, the helper script | `MCHelper`, `HelperProofs` |
| `Acceptance`, `SetupGuide` | the acceptance run and record; the guide of the set-up page | `MCHelper`, `HelperProofs` |
| `JunkSweep`, `DuplicateSweep` | `DEL_JUNK.PYW`; `DEL_DUP.PYW`, `verified_file.py` | `MCSweeps`, `SweepProofs` |
| `SpinWatch` | `saispin_watch.ps1`, `saispin_logic.py` | `MCSweeps`, `SweepProofs` |
| `MessageQueue`, `ViewerSend`, `ViewerText` | the queue's database and manager; sending from the viewer; its text | `MCSaipatch`, `SaipatchProofs` |
| `LogRelay`, `AccessLease`, `HookSettings`, `MirrorBackup`, `ClipboardPlus`, `LiveStream` | one program each | `MCTools`, `ToolsProofs` |

### SecureBroker

| State | In the code |
|---|---|
| `vault` | what `Get-ContainerState` reports of the container |
| `app` | the broker whose supervisor tracks the running application, or `Untracked` |
| `disk` | the profile's row of the state file |
| `guard` | the holder of `SingleInstanceGuard`, the mutex of the window and `sa_cli open` |
| `rt[b]` | the `ProfileRuntime` of broker `b` and the program it belongs to; `pc` is where the operation that holds the profile lock waits |

A restart is another member of `Broker`, which is also the nonce its records carry.
The two session clocks are one field (`fresh`, `idle`, `aged`). `keyed`, `spent` and
`owed` are history that the properties need. `Pages` says which slots of the
window that ask for the key are used beside open. An operation is one action where it does
not wait; it is split where another process, the owner, the clock or a crash gets in:
at the key, the volume, the launch, the close and the helper. A launch that fails may
have left a process running: untracked when its birth could not be read before it was
in the family, tracked when the survey after that failed (`Spawned`). `_set_state` is
`Persist`, which may fail; `_ensure_detached` is `DetachOutcomes`.

| Code | Actions |
|---|---|
| start, end, crash | `Start`, `Exit`, `Crash`, `Reboot`; `First` and `After` give the broker calls of each command |
| `reconcile`, `recover` | `Reconcile`, `ReconcileFails`, `Recover` |
| `open`, `_open_locked`, `_authenticate`, `_fail` | `OpenRefused`, `OpenWhileRunning`, `OpenStartFails`, `OpenWithSession`, `OpenNeedsKey`, `ProviderRefused`, `KeyTouched`, `KeyRefused`, `UnlockSucceeds`, `UnlockFails`, `LaunchSucceeds`, `LaunchFails` |
| `authenticate_only` | `AuthenticateOnly` and the key's actions |
| `publish_backup`, of the window and of `sa_cli backup` | `PublishBackup`, `KeyTouched`, `PublishesUnproven`, `PublishEnds` |
| `enroll_additional`, `remove_credential_authenticated` | `Prove`, `ProofStep`; `wrap` is where the former holds the secret in a buffer of its own |
| `on_system_event`, `shutdown`, `_secure_lock` | `SystemEvent`, `Shutdown`, `CloseConfirmed`, `CloseTimesOut`, `HelperMissing`, `Detach`, `BackupAttaches` |
| `tick` | `TickExit`, `TickExitFails`, `IdleCloses`, `IdleDrops`, `TickEnds` |
| `poll_foreground`, `note_activity`, `set_mode` | `PollForeground`, `NoteInteraction`, `SetMode` |
| the application | `AppExits` |

### VaultMigration

A tree is a function from notes to versions, and equality of trees stands for
equality of SHA-256 manifests. `holds` is what each directory has on disk, `vol` the
volume's content, `at` its mount; `Seen(p)` is what a walk finds under a path, so
that a mount hides what lies beneath. `journal` is the file, `mem` the `Migrator`'s
copy.

| Code | Actions |
|---|---|
| recovery drill, readiness | `Drill`, `Ready` |
| start and end of a run | `Begin`, `End`, `Precheck`, `CreateDestination` |
| copy | `CopyBegins`, `CopyFile`, `CopyEnds` |
| comparison and the application's check | `VerifyTree`, `HashFile`, `HashesMatch`, `VerifyApp`, `Relock`, `Remount` |
| cutover | `CutoverBegins`, `Vacate`, `RenameSource`, `ClaimFinal`, `ProveArchive`, `RestoreArchive`, `ArchiveRestored`, `Publish`, `Published`, `Finish` |
| `recover`, failures | `RecoverCompletes`, `RecoverRollsBack`, `StepFails`, `Fail` |
| others | `WriterStarts`, `WriterExits`, `WriterSaves`, `VaultSaves`, `OpenVault`, `VaultDetached` |

`SetupTruth` adds the page: its rows and its next action are operators over the same
variables, read where the window reads them.

### The other modules

- `BackupStore`: a payload is a version of the container; a damaged payload of
  generation `g` is `-g`, equal to nothing else. `PublishStep` is one file operation of
  `publish_backup` with its failure and its crash; `JobStep` one of the recovery or of
  the reconciliation; decay may come between any two.
- `BackupPublisher`: the lock's caller (`BrokerStep`), the publisher threads
  (`ThreadStep`), the owner's edits. A key is a record of who may still use it.
- `VaultKeys`: `EnrollStep`, `PortableStep` and `UpgradeStep` are one call each on the
  helper, the layout file or the journal; a failing step runs the code's rollback.
- `KeyUnlock`: one action per exchange with a key, between which keys come and go. Half
  an answer (no output, a credential nobody enrolled, no verification of the user) ends
  the elevated worker's walk and not the direct path's (`Halved`); the keys may fail to
  be listed (`Resolve`, `ListFails`).
- `WindowRounds`: the timer, the pool's one worker, the queued signals, the questions
  a worker waits on (`Ask`, `Emit`, `Get`, `Leave`), and the close.
- `ProcessFamily`: a process is a number, a birth and its parent's number, which it goes
  on naming when somebody else has it. `Beneath` is psutil's recursive listing, by these
  numbers and not older than where it began: it takes in lookalikes, the orphans of a
  dead process whose number a member has now. Starting and looking up what was started
  are two steps (`Launch`, `Seed`), and the second may raise and leave a number without a
  family; listing, opening, looking and killing are separate steps too, and a held handle
  pins a number.
- `AppImport`: one action per rename, part copied or part removed; a removal may
  leave anything.
- `HelperInstall`: `InstallStep`, `RestoreStep`, `RemoveStep` walk a table of stages
  (`pc`), one per change of the runtime directory, task or pin; each may fail or die.
- `HelperChannel`: a call is sent, executed, answered; either side may end in between.
- `Acceptance`, `SetupGuide`: what was measured, when, against what is there now; the
  guide's actions are the owner's clicks, the worker's steps and queued results.
- `JunkSweep`: scanning, confirming, reserving, journalling and removing are steps of
  their own, with other programs at the same files; the start gate, the canary record and
  the user's refusal are the ways a sweep may not begin. `DuplicateSweep`: handles held
  without sharing, proofs by content through them.
- `SpinWatch`: a sweep reads, classifies, writes and acts in separate steps; lease
  holders read, change and write one registry.
- `MessageQueue`: a call of the driver is split where its transaction really begins.
  `ViewerSend`: the window's slots, the resolver, the verdict and the sender as queued
  results. `ViewerText`: a durable and a live channel onto one text; of
  the durable rows the observer reads a window, from the latest prompted event or else
  from the last `Recent` rows on (`Hydrate`, `Window`), so a message may come cut.
- `LogRelay`: lease check, probe, poll and save are separate steps; the poll is a
  composition of functions named after the code's. A runner takes the saved state up with
  a marker or without one (`Resume`, by whether the lease has the number of a runner that
  is dead), and `Once` is the single cycle, which looks at no lease. `AccessLease`: one action per
  `icacls` call and per lease write. `HookSettings`: read and write of one file.
  `MirrorBackup`: a copy opens the mirror's file, which empties it, and closes it with
  the folder's time, and may break in between (`OpenFile`, `CloseFile`, `BreakFile`,
  `CutShort`). `ClipboardPlus`: the monitor, the callers, the main thread and other
  programs at one clipboard; its number is read in one step and stored in another
  (`Stamp`, `Remember`; `StampText`, `RememberText`). `LiveStream`: replies, signals and
  commands in any order.

## 3. Runs, bounds and fairness

All twelve runs pass. Deadlock is checked where a rest action says what the end of
everything looks like (`junk`); elsewhere the programs may all have ended and the
faults be used up, and TLC is told so.

| Run | Question | Instance |
|---|---|---|
| `broker` | Does anybody unlock without the key, come to the vault beside another, or take it from under the application he tracks? | two brokers, the window, `open`, lock, status, backup and a key command, the weakest policies, hanging application, failing storage, launches nobody can identify, a migration, a publication and an enrolment in the window |
| `strict` | Do LOCKED and SESSION_CACHED mean unreadable, and is a dead exposed broker noticed? | two brokers with the mutex, all faults but an unwritable state file, close on idle, unmount on exit |
| `live` | Does exposure end, does an aged secret die? | two brokers, `FairSpec`, missing helper, failing storage, crashes |
| `migration` | Where is the plaintext, what is complete? | two notes, two archive names, 3 edits, 1 drill, failure, crash and reboot at every step |
| `store` | Do the file operations implement the archive; does recovery heal? | 2 publishers, versions 0..2, 2 generations, 1 damage |
| `publisher` | Who wipes a key and who ends PUBLISHING? | 2 threads, 1 key |
| `keys` | five parts: `VaultKeys`, `KeyUnlock`, `WindowRounds`, `ProcessFamily`, `AppImport` | 3 passwords, 4 recovery keys, 3 security keys, 3 faults; 2 keys, 4 credentials, 2 tries, 1 pull; 2 questions; 3 numbers, 4 births, 1 unreadable; 3 imports of which 2 at once |
| `helper` | four parts: `HelperInstall`, `HelperChannel`, `Acceptance`, `SetupGuide` | 2 bundles, 4 runs, 3 faults; 3 connections, 1 break; 2 acceptance runs; 2 launches, 2 clicks |
| `junk` | `JunkSweep`: does the journal tell what was removed? | one sweep of two disks and one folder run, a tree of three nodes and a file, 1 edit, 2 faults |
| `dups_spin` | two parts: `DuplicateSweep` and `SpinWatch` | 3 paths, 2 contents, 2 sweeps, 1 edit; 1 number with several lives, 2 lease holders with 2 calls, 4 sweeps, 1 fault |
| `saipatch` | `ViewerSend`, `ViewerText`, `MessageQueue` | 2 sessions, 2 servers, 2 processes, 2 requests, 5 steps of requests, selections, edits and servers together (edits count from 1); 4 rows, a window of 2, a queue of 2, 1 loss, 6 rows, selections and losses together; 2 prompts, 1 window, 1 command line |
| `tools` | six parts | 3 units and 1 change of the log, 2 starts; 3 lease commands; 2 consoles; 2 files, 2 archive slots; 1 photo and 1 note; budget of 2 characters, 3 dials |

Why these are enough. A property of `SecureBroker` relates one broker process to itself
or to one other, beside it or before it; two processes give both, and the safety
properties are proved for any number. Three edits of notes let one happen before the
copy, one between copy and hash, one after. Two generations and two publishers let each
overtake the other and a pointer move from one to the next. The watcher's four sweeps
let a streak grow over three of them, break and begin again around a damaged file or an
unsaved sweep, and two calls of the lease API are what a kill needs, a registration and
a permission. Two keys of a thread would not meet: a key has one owner, and that is
proved for any number. Three process numbers with four births make every number usable
again while a family of two lives, and give a member the number of a dead process with an
orphan. Two requests let a late answer or a failure of the first meet the second's
reservation; four rows with a window of two cut a message. The two joint bounds of `MCSaipatch`, `MaxSteps` and `MaxMoves`, only keep the
last of everything from happening in one behaviour. One relay beside another is
not modelled: `once` runs where no runner does. The bounds of the other parts are the smallest at
which their mutants, listed in `PROJECT.json`, are found. Where a property is proved,
the bounds do not matter. Symmetry is used on members no action tells apart, and never
in the run of a liveness property.

Fairness. `SecureBroker`'s `FairSpec` says that what waits with a time limit ends (a
key, an unlock, a launch, a close, a detach) and that a program's script goes on; the
window's periodic turn is strongly fair because it skips a taken lock and comes again
every few seconds. It says nothing of the owner, the application, the next start or
any fault; `live` has no hanging application because the code waits for that one as
long as the owner's policy says. `BackupPublisher` assumes that a running thread runs
on. Nothing else states fairness.

## 4. Proofs

Eight modules hold theorems; TLAPS checks them to the last leaf, with Z3, Zenon and
LS4. Each proof is an inductive invariant `IInv`, a lemma per action, and a theorem of
the specification per property. Where an invariant could be put to TLC it was, on
small instances, before it was proved.

### `SecureBrokerProofs`, for any set of brokers, policies and faults

`MountNeedsKey`, `AggressiveTouch`, `OneOwner`, `VaultUnderOwnApp`,
`RestStaysUnreadable`, over `TypeCorrect` and `Invariance`. `IInv` is the types and
two parts. `Local`, of one broker: a process that is not up has no secret; a
command that takes no mutex mounts nothing, and holds a secret only if it is one that
asks for the key (`KeyCommands`), when its next call is the end; a secret was keyed or the key is demanded again; who waits
for an unlock or a launch was keyed and nothing has been demanded since; an aggressive
touch is unspent. `Shared`, of two: a live guarded command holds the mutex, as
does whoever tracks the application and lives, so no two are at the vault; a broker that
waits for a key to mount, the volume or a detach tracks no running application. The properties
themselves are not inductive: a touch that is used at the mount must be known to be
good at every wait before it. `Preserves`, `Stays` and `Calm` are lemmas for the many
actions that touch one broker, nothing shared, or no secret.

`RestStaysUnreadable` has the run's policy as its hypothesis (every program takes the
mutex, unmount on exit, close on idle, no migration) and `RestInv` as its invariant: where
every program takes the mutex only one is up, so whoever reads LOCKED or
SESSION_CACHED wrote it himself, or his start-up reconciliation is behind it, which
writes LOCKED only over a volume that is not mounted.

`DeadAreNoticed` (`UncleanEndIsNoticed`) supposes that every program takes the mutex and
that the state file takes every write. Its invariant `RowInv` says that the row a broker
wrote last is its own word, that the file holds it until another writes, and that the
row a new broker has read is what the dead one said last; and only `Reconcile`, with its
failure, moves a broker past its start-up reconciliation. Both hypotheses are needed, as TLC
shows: a `sa_cli lock` that started beside the window has read its row before the window
dies on another word, and a write that fails leaves an older word in the file.

### `VaultMigrationProofs`, for any notes and archive names

`PlaintextIsNeverHidden` (from `HiddenInv`), `NotesStayEncrypted` (`CopyInv`),
`ArchiveStaysNamed` (`ArchiveInv`), `ReadableNotesAreToldOf` (`ToldInv`),
`CopyIsComplete` (`CoveredInv`). The second, the third and the fourth are for a vault
that is not open in the process that migrates, the third and the fourth for at most one
drill: with more, or from that process, they do not hold (section 5). Each ties the step
the migrator is at to what it has made sure of: which directory is at the final path,
what the mount is on, and, for the archive, `Versions` (what an archive holds is what
the source held), `Tracked` (an archive that is away is the one the journal names) and
`Away` (between the two renames the journal is at the cutover).

`ReadableNotesAreToldOf` is about the page of `SetupTruth`: wherever notes lie readable
during or after a migration, one of its rows says so or names the copy. `ToldInv` ties
what the page reads, the journal and the directories, to the notes at each step, a
recovery beside a run included.

`CopyIsComplete` needs no hypothesis: `CompleteCopy` itself speaks only of a migration
that no command runs beside. `Covered` (every note is in the volume as it was last
verified, or later) is broken whenever a hash raises `verified`, so `Proving` says when
that can happen: during the second walk the volume is at the staging path and nobody
else writes to it, a note once verified never leaves the volume, a run under way has in
memory what is on the disk, and a journal that is inside the cutover, the only one that
a last step or `recover()` completes, was marked after the walk.

### `BackupProofs`, for any publishers, generations, decay, threads and keys

The files (`BackupStore`). `Implements` is the refinement `Spec => ArchiveSpec`;
`RecoveryHasHealed`, `PointersAreWhole`, `VerifiedIsOriginal` are invariants. `IInv` is
the types, `Generations` (a generation is published exactly if its directory has been
renamed, and its payload is what was published, a ruin of it, or gone), `Publishing`
(what a staging directory holds at each step of its owner) and `Maintaining` (what the
maintenance operation, which runs alone, has established). One lemma per action proves
`IInv'` and "a step of the archive, or none" together, since the second needs the first
in the same case.

The publisher (`BackupPublisher`). `KeysStayLive`, `KeysAreOwned`,
`ForegroundStaysWhole`. A key has one owner at any
moment, the lock that derived it, the queued request, or the thread that took it.
Who wipes it is its owner, so nobody wipes a key under another.

### `HelperProofs`, for any bundles, back ends, profiles, runs and failures

The installation (`HelperInstall`): `VerifiedStaysProtected`; `RollbackIsCaused` (nothing
is put back unless something failed), `InstallationVerifies` (a run that reports success
verifies), `RollbackIsExact` (one that reports a clean rollback has left what it found).
The invariant says what each stage has closed and measured, where the parts of the old
installation are, and what a restoration has put back so far.

The other three parts are of `MCHelper`'s disjoint union, `AllSpec`.

- `ReadyStaysProven` (`AcceptInv`): what a run has measured and proved by each of its
  phases, and that the record and the temporary file, which two runs share, hold only
  facts that some run proved with every check.
- `LeasesStayCounted` (`ChanInv`): a line's counter is the number of back ends that hold
  a lease on it, through every retry, late answer and dead helper. That is a cardinality
  of a changing set, hence the assumption that the back ends are finitely many.
- `PageStaysFresh` (`GuideInv`): where the last report is (queued, in the inbox, or on
  the page), and what will still make the page look again if it is out of date.
- `GuideStaysInAgreement`: the step the page offers is that of the first line of the
  guide that is missing. The two are computed by different code, a chain of conditions
  and a table with a search; the proof takes the search's minimum from the
  well-foundedness of the natural numbers and then compares line by line.

The attempts found `CASE` arms in the model that overlapped (`NextAction`, `After`,
`Answered`), where TLC silently takes the first and the code's order decides; they are
now disjoint.

### `OwnerProofs`, for any value of the constants of `MCOwner`'s parts

- The protectors (`VaultKeys`): `RouteStays` over `Inductive`: through enrolment,
  portable password and upgrade, the daily and the break-glass protector the layout
  names are in the volume, whichever step failed and whether or not its undoing failed
  too. The invariant adds what each stage of the three operations has made, and what the
  journal says of it.
- `StrangersStaySpared`, `ForgottenIsGone`: the argument is about births. A process that
  has ended never lives again, so what a member was when it was looked at it still is,
  if it lives. Everything the supervisor holds is dead, or of the kin: started by the
  application, or not older than the launch and beneath one of the kin by the parents'
  numbers. That kin is closed under the listing is kept by every birth and by the first
  look-up, and what a listing brings is kin as long as the process it began from lives.
  Who is kin and not the application's is struck (`LookalikesAreSpared` is refuted), and
  what the supervisor has never seen may outlive it (`NothingIsLeftBehind` is refuted).
- `KnownGoodIsKept`, over `ImportInv`: an import that is alone knows at each stage where
  the whole application is (in place, in its staging directory or under the name its
  settling looks for), and a dead import leaves it where the next one's settling finds
  it. Two imports side by side are left to the flag `overlapped`, as the code takes no
  lock.
- `ApprovalsAreForTheirQuestions`, over `RoundInv`: a question, the dialog that shows it
  and the slot its worker waits on carry the same number, so an answer that comes late
  is left in a slot that nobody looks into again.
- `WillingOwnerAlwaysGetsIn`, over `UnlockInv`: as long as the owner has refused
  nothing, his key is among those left in the group at hand, or a group that comes has a
  credential of it, and on the path through the helper the PIN in use is his. Excepted are
  the calls the ghost `cut` marks: keys that could not be listed, and half an answer of
  another key in a group his key opens, through the helper. That the
  walk offers every key uses that an injection of the keys into as many places reaches
  each (the pigeonhole fact of `FiniteSetTheorems`).

### `ToolsProofs`, for any value of the tools' bounds

`AllSpec` is the disjoint union, so each theorem is about one part in its turn and about
a part at rest otherwise.

- `NoGapIsSilent`: unless the source was changed behind the probe (`blind`), history is
  honest but for the places where an unsaved state was taken up without a word (`Seam`), the saved and the running state each follow the source (the bytes pending run
  up to the offset, in the epoch whose identity was last seen), and the running state
  joins the published end, or a marker stands between. The poll has a lemma for every
  function it is made of (`Marked`, `Flushes`, `Absent`, `Returned`, `Replaced`,
  `Truncated`, `Reads`, `Present`, `Polls`).
- `AccessStaysLeased`: a right that can be read has a lease, or a grant under way that
  will write one, as long as no grant died between the two or ran beside a revocation
  (`calm`); a revocation about to mark a lease has left nothing readable.
- `MirrorHasCaughtUp`: of every file that is not in `missed` the mirror is never ahead of
  the source, and has caught up with the hash it holds, and with the walk's once it is
  passed. A file is in `missed` while it is copied and stays there when the copy was cut
  or the file was edited under it, until the next edit, whose time is newer than any.
- `OwnStaysUnsaved`: its own noted picture on the clipboard means that the number it saw
  is about to be stored, or is the one stored. A picture whose number was never stored, or
  lost to an older one stored later, is `stray` and not spoken of.
- `StreamStaysOne`: at most one reply, the current one, is on the wire; a worker that is
  live has one, and one that is stopped has none.

### `SaipatchProofs`, for any prompts, windows, command lines, files and requests

- `AnswersHold`, over `Queue`: what a window or a command line was told of an edit or a
  drop is what the session runs, although the server promotes a prompt between the read
  and the write of the call. A row that can still run has not run and has the text that
  was promised; and an id is never given twice, so what left the queue stays away.
- `ReservationsAreExact`, over `OneRequest`: as long as an admission is reserved its
  request is in exactly one place (a dialog, the files to read, the jobs, the sender, the
  answers) under its number, and every other place is empty, through every selection,
  refusal, loss and late answer.

### `SweepProofs`, for any trees, disks, runs, processes and callers

- `LastCopyIsKept`, over `SweepInv`: what a sweep for duplicates holds keeps its names
  and its content, an object that is to be deleted is held by nobody else, and the keeper
  it was compared with is another file with the same content, held until the deletion.
- `RemovedStaysAnnounced`, over `JunkInv`: the candidate a sweep works on is one of its
  own, what it lists lies inside it, and from the check to the removal its INTENT is in
  the journal or behind a torn line. What is removed then belongs to that candidate and to
  no other, since the trees of one run's candidates are disjoint.
- `StreaksAreTrue`, over `SpinInv`: a streak that is decided but not yet saved is what
  will have been seen once it is, so writing the file and having seen are one step; a
  damaged file, a number used again or a watcher that dies only begin anew.

### Assumptions on the constants

`ConstantsOK` (`SecureBroker`, `VaultMigration`: a name that is not a broker, sets of
the known events and faults), `StoreConstants`, `PublisherConstants`, `KeyConstants`,
`InstallConstants` and `FamilyConstants` (bounds are natural numbers, a process number
is not 0, a "none" is none of the others), `FewBackends` (the back ends are finitely
many), `OwnerConstants` (keys, salts and imports are finitely many, what is enrolled is
an enrolment, bounds are natural numbers), `SetupsOK` (the set-ups a window may start
from are set-ups), `ToolConstants` (`MaxUnits` is a natural number),
`SaipatchConstants` (bounds are natural numbers), `DuplicateConstants` (what is not a
file is no identity, the sweeps meet names of the tree), `SpinConstants` (thresholds and
times are positive) and `SweepConstants`. The last one says also that the candidates of one
sweep of all disks have disjoint trees: the walk does not go down into a directory it has
made a candidate (`DEL_JUNK.PYW:2230`). All are evaluated
by TLC on the runs' instances.

### What stays with TLC

- `ExposureEnds`, `AgedSecretDies` and `PublishingEnds` are liveness under fairness,
  which needs `ENABLED`.
- `TheirsStay` compares sequences filtered by `SelectSeq`: what that recursive operator
  does to a sequence that is changed in the middle is an induction over data.
- `Converges` compares a text put together from pieces, some of them twice, with the text
  that was written: another induction, over the events of a message.

Every other invariant and action property of the runs is proved.

## 5. Where the code and its documents part

Observed while modelling. Those with the name of a definition are stated in the module
and are violated there; adding the name to a configuration of the module, with the
faults or the policy its comment names, makes TLC print the steps. No run checks them,
so that the runs say what holds.

Broker

- `sa_applife.py:738`: an application that outlives its broker is unknown to the next
  one, whose recovery detaches the volume under it (`NeverDetachedUnderApp`).
- `sa_applife.py:577`: a launch starts the process and then may fail to read its birth;
  the relock of the same broker finds an empty family, calls it exited and detaches under
  it (the same property).
- `sa_cli.py:410`: `sa_cli lock` and `status` take no mutex; the former takes the vault
  from a live window (`LiveBrokerKeepsItsVault`).
- `sa_broker.py:1506`: `sa_cli backup` and `enroll --additional` hold the volume secret
  beside the window's, as they take no mutex (`OneVaultOwner` says what remains true); a
  publication whose touch fails swallows the failure and leaves AUTHENTICATING standing,
  over ERROR too.
- `sa_broker.py:594`: a failed recovery turns RECOVERY_REQUIRED into ERROR, which owes no
  relock (`NoUnlockWhileRelockOwed`, `RecoverRelocks`).
- `sa_broker.py:650`: `authenticate_only` while a session is exposed overwrites RUNNING
  with SESSION_CACHED. With `close_app_on_idle` off an idle session is dropped to LOCKED
  while the volume is mounted. `secure_apps_gui.py:624` notes activity before the idle
  check of the same turn.
- `sa_state.py:122`: an unreadable state file yields no rows, and no row reads as LOCKED.
  A refused key leaves AUTH_REQUIRED over a mounted volume. With
  `unmount_storage_on_app_exit` off the volume stays mounted under SESSION_CACHED.

Migration and its page

- `sa_migrate.py:956`: the destination is detached before the comparison that reads it,
  so a migration in place is rolled back (`FaithfulCopyCutsOver`).
- `sa_migrate.py:1055`: a new drill forgets a cutover under way (`UntouchedBeforeCutover`).
- `sa_cli.py:558`: a run resumed in the same window copies into the staging directory
  (`CopiedIntoAStagingMount`), which is why the proved properties name `SameWindow`.
- From elsewhere: no archive is recorded, so "fully protected" is said though the source
  remains; edits after the last hash are compared with nothing; a deleted note makes
  every later run fail. A crash between the cutover's mark and its rename makes
  `recover` answer "manual"; `recover` calls a cutover complete when the owner opened
  the vault meanwhile.
- The page looks for notes at the mount path, so notes elsewhere are called missing, an
  open vault's content is called plaintext, and during the cutover its button may lead to
  a path that is gone (`ExitIsPlaintext`, `MissingIsMissing`).

Backups

- `sa_broker.py:1637`: a request queued after the publisher has left its loop waits for
  the next one (`RequestsServed`). `sa_broker.py:708`: a copy may be torn by a write into
  the mounted vault (`NothingTorn`). `state()` outside the `try` can leave PUBLISHING and
  the key behind.
- A standalone reconciliation copies a rotten CURRENT over a good flat copy; rebuilt
  sidecars drop `portable_enrollments`; the space check covers one copy of two;
  generations of one second sort at random; scrub, reconcile and recover have no caller
  in production.

Keys, window, set-up

- `sa_fido_worker.py:301`: half an answer of one key ends the walk over the others, so a
  broken key plugged in beside a good one locks a willing owner out on the path through the
  helper; the direct path goes on to the next key.
- `sa_applife.py:203`: psutil lists children by their parents' numbers, so the orphans of
  a dead process whose number a member was given are closed and killed with the family
  (`LookalikesAreSpared`), while a process whose launch was not identified, or whose
  parent died before a survey, is left behind (`NothingIsLeftBehind`).
- `sa_auth.py:1439`: `KEY_MIGRATION_PENDING` is raised inside the `try` that swallows it.
  One wrong PIN is tried on every key and group; a cancelled touch goes on to the next
  key; new credentials are always `direct-ctap-v1`.
- `remove_portable_password` on a vault without a layout removes its daily protector; a
  failed `UndoKey` leaves a stale enrolment; maintenance requires LOCKED where the helper
  requires unlocked; reconciliation may record "no portable password" while a new one
  exists (`DriftIsJournaled`).
- Import: a second import drops the first one's staging and a torn tree is swapped in
  (`KnownGoodStaysAnyway`); a crash while the backup is removed makes later imports refuse.
- Acceptance exercises the code loaded at start while the record names the files measured
  at preparation; a record that cannot be saved leaves an older READY.
- Window: a step's question stays answerable after its page has moved on; a late "ok" of
  a worker closes after the watchdog called it failed; a blocking put can hang the window.
- The guide's list of steps ignores the profile for two rows, a clock step of two minutes
  retires the restart marker, and an unreadable marker counts as not pending.

Helper

- `sa_privhelper.py`'s "retried EXACTLY once" covers failures before the write only;
  responses are not matched by number (`StopsOnlyTheStale`, `UnresolvedKeepsTheLease`).
- `apply_remove` removes "the task and the pin, and NOTHING else", and removes runtime
  and scratch; after a double fault the old task is registered again over a runtime
  nobody proved.

Tools

- `DEL_JUNK.PYW`: a candidate that vanishes between its check and its identity raises past
  the INTENT; cancelling after a partial removal is reported as "before mutation"; a retry
  removes changed content; a torn record hides later ones (`EndedIsSettled`,
  `CancelledIsClean`, `RemovedAsWitnessed`, `JournalIsReadable`).
- `saispin_logic.py`: "a stale streak can only delay a detection" is not so; leases with
  an empty end never authorise; concurrent registrations are lost.
- `sai_relay.py`: stop and start within an interval makes two runners; a second write of
  the lease can undo a stop; a change between `stat` and read goes unseen (`blind`); a
  runner that is resumed says so only when the lease has the number of a dead one
  (`sai_relay.py:788`), and repeats lines in silence after a crash between publishing
  and saving otherwise, as `once` always does.
- `sai_access.py`: `/remove:g` takes every entry of the account; a crash between `icacls`
  and the lease leaves a right without one; a sweep writes back the lease it read.
- `claude_hooks.py`: drifted hooks are reported current; edits between read and write are
  lost. `BACKUP.py`: a locked file is skipped and its hash recorded as done; a copy
  cut by the tray's `os._exit` or a full disk leaves a mirror file newer than the folder's,
  which is not copied again before the next edit.
- `clipboard+.pyw`: `ignore_next_change` set by Safe Copy is reset only by the picture's
  timer; a failed write is reported as done; restoring consumes the text either way;
  a clipboard that fails to close, or a number stored late by another thread, makes the
  monitor save its own picture.
- `queue_core.py`: updates do not look at `promoted_seq`; clearing removes pending steer
  prompts; a swap reads before its transaction. Viewer: a late "started" after a lost
  connection retires a newer durable message; a pending preset goes to whatever is selected;
  the reconnect delay never grows, since a connection counts as live before data came;
  a message cut by the observer's window leaves a part of an older one beside those of the
  newest (`NothingOlderIsShown`).

## 6. Not modelled, and what is next

- Device protocol and encodings: `sa_ctap.py`, `sa_hid.py`, `sa_cbor.py` (nothing in
  production imports them), `sa_mnemonic.py` (a word list), wrapping and hashing. A
  `KeyUnlock` of an external helper provider, of the fake one, or with user verification
  discouraged is left out.
- Straight-line code without interleaving: `sa_recovery.py`, `sa_capacity.py`,
  `sa_audit.py`, `sa_ffs.py`, tag and image tools, `DEL_SAME`, `DEL_EMPTY`.
- Folder automation, account switcher and `SAITULS.cs` (C#), the optimiser, the taskbar,
  installers, registry files, translations.
- Of modelled programs: the window's shutdown barrier and diagnostics; the relay's
  `--keep 0` and bound on pending bytes; Clipboard+'s status, hotkeys and sanitiser
  rules; the music half of `BACKUP.py`; SpinWatch's settings, mutex and notifications;
  frame boundaries and UTF-8 widths of `LiveStream`; foreground and attach of the
  supervisor. Two installers at a time are not modelled (the elevation prompt is modal).

Next: the lemmas on filtered sequences that `TheirsStay` and `Converges` need, should a
prover of inductions be at hand; the parts above that keep state over several steps,
first the folder automation with its journal of moves.
