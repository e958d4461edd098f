---------------------------- MODULE SecureBroker ----------------------------
(***************************************************************************)
(* The Secure Apps session broker (Scripts/secure_apps/sa_broker.py) for    *)
(* one protected profile, with what it shares with other processes: the     *)
(* container, the protected application, the durable state file and the     *)
(* single-instance mutex.                                                   *)
(*                                                                          *)
(* A Broker is one broker PROCESS, so a restart is a different Broker and   *)
(* the nonce the code binds its records to is the Broker itself.  An        *)
(* operation that waits (for a key touch, for the volume, for the           *)
(* application to exit) is split at the wait: pc says where the operation   *)
(* that holds the profile lock stands, and other processes, the user, the   *)
(* clock and crashes act in between.                                        *)
(***************************************************************************)

CONSTANTS
    Broker,           \* broker processes, one per start of the GUI or of sa_cli
    NoBroker,         \* "nobody"
    Untracked,        \* "an application no supervisor tracks"
    Commands,         \* what users start: "gui" and the sa_cli commands
    Faults,           \* which failures the environment may produce
    LockOn,           \* events whose policy flag lock_on_* is set
    ReauthOn,         \* events with a require_auth_after_* condition
    UnmountOnExit,    \* unmount_when_app_closes or unmount_storage_on_app_exit
    ReauthAfterExit,  \* condition require_auth_after_app_exit
    CloseOnIdle,      \* condition close_app_on_idle
    HardLifetime,     \* condition require_auth_after_minutes
    Pages             \* which of PageOps the window's pages come to

FaultKinds == {"app_hang", "helper", "storage", "state_file", "state_corrupt",
               "provider", "identity", "crash", "reboot"}

\* Events of _EVENT_POLICY_FLAG; Lock Now has no flag and always applies.
FlaggedEvents == {"workstation_lock", "logoff", "suspend", "shutdown",
                  "broker_shutdown"}
Events == FlaggedEvents \cup {"manual_lock"}

\* "credential" stands for the commands that prove ownership with a key and
\* keep no session: credential, enroll --additional.
AllCommands == {"gui", "open", "lock", "recover", "mode", "credential", "status",
                "backup"}

\* The first broker call of a command, and the one after op.  "any" is the
\* window's event loop, "supervise" the polling loop of "sa_cli open".
First(c) == CASE c = "mode" -> "set_mode"
              [] c = "credential" -> "prove"
              [] c = "backup" -> "publish_backup"
              [] OTHER -> "reconcile"
After(c, op) ==
    CASE c = "gui" -> "any"
      [] c = "open" -> IF op = "reconcile" THEN "open" ELSE "supervise"
      [] c = "status" -> "exit"
      [] c = "lock" /\ op = "reconcile" -> "manual_lock"
      [] c = "recover" /\ op = "reconcile" -> "recover"
      [] OTHER -> "broker_shutdown"

\* A migration in the window, "Publish Backup Now", and its key pages.
PageOps == {"authenticate_only", "publish_backup", "prove"}

ASSUME ConstantsOK ==
    /\ NoBroker \notin Broker
    /\ Untracked \notin Broker \cup {NoBroker}
    /\ Commands \subseteq AllCommands
    /\ Faults \subseteq FaultKinds
    /\ LockOn \subseteq FlaggedEvents
    /\ ReauthOn \subseteq {"workstation_lock", "logoff", "suspend"}
    /\ Pages \subseteq PageOps
    /\ {UnmountOnExit, ReauthAfterExit, CloseOnIdle, HardLifetime} \subseteq BOOLEAN

States == {"LOCKED", "AUTH_REQUIRED", "AUTHENTICATING", "UNLOCKING", "MOUNTED",
           "RUNNING", "SESSION_CACHED", "LOCKING", "RECOVERY_REQUIRED", "ERROR"}
Exposed == {"UNLOCKING", "MOUNTED", "RUNNING", "LOCKING", "RECOVERY_REQUIRED"}
VaultStates == {"missing", "detached", "attached_locked", "mounted"}

\* Only the window and "sa_cli open" take the SingleInstanceGuard (a migration
\* does too, and runs as the window's here); "backup" and "credential" ask for
\* the key without it.
WindowOnlyGuarded == {"gui"}     \* mutant: cmd_open forgets the guard
Guarded == {"gui", "open"}
GuiOps == {"reconcile", "open", "set_mode", "tick", "poll", "note"} \cup Pages
            \cup Events
Ops == GuiOps \cup PageOps \cup {"recover", "any", "supervise", "exit"}

VARIABLES
    vault,   \* what Get-ContainerState reports of the container
    app,     \* the broker whose supervisor tracks the live application
    disk,    \* the profile's row in the state file: [state, by]
    guard,   \* the holder of the mutex
    rt       \* per broker: its ProfileRuntime, and the auxiliary fields

vars == <<vault, app, disk, guard, rt>>

\* A missing row reads as LOCKED, owned by nobody (sa_state.reconcile).
NoRow == [state |-> "LOCKED", by |-> NoBroker]
Row == [state : States, by : Broker \cup {NoBroker}]

\* sess: "none", or a live secret whose clocks say fresh, idle for too long, or
\* older than the hard lifetime.  keyed, spent and owed are auxiliary: the key
\* was touched since the last event that demands it; the present secret has
\* been used for a mount; a relock is owed since RECOVERY_REQUIRED.  At "wrap"
\* an enrolment holds the volume secret in a buffer of its own.
Runtime ==
    [life : {"new", "up", "gone"}, cmd : AllCommands, todo : Ops,
     pc : {"idle", "auth_open", "auth_only", "auth_backup", "unlock", "launch",
           "publish", "prove", "wrap", "close", "detach", "tick"},
     why : Events \cup {"none", "idle", "recovery", "launch_failed"},
     st : States, sess : {"none", "fresh", "idle", "aged"},
     reauth : BOOLEAN, aggressive : BOOLEAN, down : BOOLEAN,
     started : BOOLEAN, backup : BOOLEAN, mem : Row,
     keyed : BOOLEAN, spent : BOOLEAN, owed : BOOLEAN]

NewRuntime ==
    [life |-> "new", cmd |-> "gui", todo |-> "exit", pc |-> "idle", why |-> "none",
     st |-> "LOCKED", sess |-> "none", reauth |-> FALSE, aggressive |-> FALSE,
     down |-> FALSE, started |-> FALSE, backup |-> FALSE, mem |-> NoRow,
     keyed |-> FALSE, spent |-> FALSE, owed |-> FALSE]

TypeOK ==
    /\ vault \in VaultStates
    /\ app \in Broker \cup {NoBroker, Untracked}
    /\ disk \in Row
    /\ guard \in Broker \cup {NoBroker}
    /\ rt \in [Broker -> Runtime]

Init ==
    /\ vault \in {"missing", "detached"}
    /\ app = NoBroker
    /\ disk = NoRow
    /\ guard = NoBroker
    /\ rt = [b \in Broker |-> NewRuntime]

-----------------------------------------------------------------------------
\* Helpers.

Up(b) == rt[b].life = "up"
Running(b) == app = b
UnexpiredSession(b) == rt[b].sess = "fresh"     \* mutant: pending_reauth unread
SessionValid(b) == rt[b].sess = "fresh" /\ ~rt[b].reauth
StaleModeNeedsKey(b, force) == force \/ ~SessionValid(b)   \* mutant: mode unread
NeedsKey(b, force) == force \/ rt[b].aggressive \/ ~SessionValid(b)
Refreshed(sess) == IF sess = "idle" THEN "fresh" ELSE sess
IdleOnlyExpired(sess) == sess = "idle"     \* mutant: the hard lifetime unread
Expired(sess) == sess \in {"idle", "aged"}

\* The profile lock is free and b's program comes to op: the window serves any
\* slot once bootstrap has reconciled, a command follows its script.
May(b, op) ==
    /\ Up(b)
    /\ rt[b].pc = "idle"
    /\ CASE rt[b].todo = "any" -> op \in GuiOps
         [] rt[b].todo = "supervise" -> op \in {"tick", "poll", "broker_shutdown"}
         [] OTHER -> op = rt[b].todo

\* b's runtime once its program has moved past the operation op it starts; the
\* window reconciles again only to recover.
Begun(b, op) ==
    [rt[b] EXCEPT !.todo = IF @ = "any" /\ op = "reconcile" THEN "recover"
                             ELSE After(rt[b].cmd, op)]

\* "sa_cli open" does not supervise a launch that was refused.
GivenUp(r) == IF r.cmd = "open" THEN [r EXCEPT !.todo = "broker_shutdown"] ELSE r

Keep(b, r) == rt' = [rt EXCEPT ![b] = r] /\ UNCHANGED disk

\* _set_state: the runtime and the store's row change together; the file may
\* refuse the write, which the code logs and ignores.
Persist(b, r) ==
    LET row == [state |-> r.st, by |-> b]
    IN  /\ rt' = [rt EXCEPT ![b] = [r EXCEPT !.mem = row]]
        /\ \/ disk' = row
           \/ "state_file" \in Faults /\ UNCHANGED disk

\* _ensure_detached from container state v: its answer and what it leaves.
DetachOutcomes(v) ==
    (CASE v = "mounted" -> {[ok |-> TRUE, left |-> "detached"]}
       [] v = "attached_locked" -> {[ok |-> FALSE, left |-> v]}
       [] OTHER -> {[ok |-> TRUE, left |-> v]})
    \cup
    (IF "storage" \notin Faults THEN {}
     ELSE IF v = "mounted"
       THEN {[ok |-> FALSE, left |-> w] : w \in VaultStates \ {"missing"}}
       ELSE {[ok |-> FALSE, left |-> v]})

\* What a handler reports once _ensure_detached has answered.  Mutants: LOCKED
\* whatever the answer; the container's word in place of the session's.
DetachedAnyway(r, ok) == [r EXCEPT !.st = "LOCKED", !.owed = FALSE]
DetachedVerbatim(r, ok) == [r EXCEPT !.st = IF ok THEN "detached" ELSE "ERROR"]
Detached(r, ok) == IF ok THEN [r EXCEPT !.st = "LOCKED", !.owed = FALSE]
                         ELSE [r EXCEPT !.st = "ERROR"]

\* The head of _secure_lock: LOCKING is recorded, then the application closes.
\* Mutant: the volume goes first.
LockingUnclosed(r, why) == [r EXCEPT !.st = "LOCKING", !.pc = "detach", !.why = why]
Locking(r, why) == [r EXCEPT !.st = "LOCKING", !.pc = "close", !.why = why]

\* A process that ended: its memory is lost, its last state and row remembered.
Gone(r) == [NewRuntime EXCEPT !.life = "gone", !.st = r.st, !.mem = r.mem]

\* The caller's tail after _secure_lock: the ending events demand the key
\* again, and a process whose shutdown is done exits (the window only when
\* every profile relocked).
Ending == {"shutdown", "broker_shutdown", "logoff"}
Locked(r, ok) ==
    LET reauth == r.reauth \/ r.why \in Ending
        after == [r EXCEPT !.pc = "idle", !.why = "none", !.reauth = reauth,
                           !.keyed = @ /\ r.why \notin Ending,
                           !.st = IF ok /\ reauth /\ r.why \in Events
                                    THEN "AUTH_REQUIRED" ELSE @]
    IN  IF r.why = "broker_shutdown" /\ (ok \/ r.cmd # "gui")
          THEN Gone(after) ELSE after

\* Leaving the process releases the mutex.
Release(b) ==
    guard' = IF guard = b /\ rt'[b].life = "gone" THEN NoBroker ELSE guard

-----------------------------------------------------------------------------
\* Processes.

\* A user starts the window or a command; the store reads its file, of which
\* an unreadable one yields no rows.
Start(b, c) ==
    /\ rt[b].life = "new"
    /\ c \in Guarded => guard = NoBroker
    /\ guard' = IF c \in Guarded THEN b ELSE guard
    /\ \E row \in {disk} \cup (IF "state_corrupt" \in Faults THEN {NoRow} ELSE {}) :
          rt' = [rt EXCEPT ![b].life = "up", ![b].cmd = c,
                           ![b].todo = First(c), ![b].mem = row]
    /\ UNCHANGED <<vault, app, disk>>

Exit(b) ==
    /\ May(b, "exit")
    /\ Keep(b, Gone(rt[b]))
    /\ Release(b)
    /\ UNCHANGED <<vault, app>>

Crash(b) ==
    /\ "crash" \in Faults
    /\ Up(b)
    /\ Keep(b, Gone(rt[b]))
    /\ Release(b)
    /\ UNCHANGED <<vault, app>>

\* Power loss or a restart of Windows: no process survives, nothing stays
\* attached, the state file keeps what was written.
Reboot ==
    /\ "reboot" \in Faults
    /\ rt' = [b \in Broker |-> IF Up(b) THEN Gone(rt[b]) ELSE rt[b]]
    /\ vault' = IF vault = "missing" THEN vault ELSE "detached"
    /\ app' = NoBroker
    /\ guard' = NoBroker
    /\ UNCHANGED disk

\* The protected application ends by itself.
AppExits ==
    /\ app # NoBroker
    /\ app' = NoBroker
    /\ UNCHANGED <<vault, disk, guard, rt>>

\* The two clocks of a ProtectedSession reach their limits.
SessionIdles(b) ==
    /\ Up(b)
    /\ rt[b].sess = "fresh"
    /\ Keep(b, [rt[b] EXCEPT !.sess = "idle"])
    /\ UNCHANGED <<vault, app, guard>>

SessionAges(b) ==
    /\ HardLifetime
    /\ Up(b)
    /\ rt[b].sess \in {"fresh", "idle"}
    /\ Keep(b, [rt[b] EXCEPT !.sess = "aged"])
    /\ UNCHANGED <<vault, app, guard>>

-----------------------------------------------------------------------------
\* reconcile, recover.

\* sa_state.reconcile: the verdict on row m when the backend reports vault.
\* Mutant: a volume that is down now settles the matter.
VerdictOfVolume(b, m) ==
    IF vault \in {"mounted", "attached_locked"} THEN "RECOVERY_REQUIRED" ELSE "LOCKED"

Verdict(b, m) ==
    IF vault = "mounted"
      THEN IF m.by = b /\ m.state \in {"MOUNTED", "RUNNING", "UNLOCKING", "LOCKING"}
             THEN m.state ELSE "RECOVERY_REQUIRED"
      ELSE IF (m.state \in Exposed /\ m.by # b) \/ vault = "attached_locked"
             THEN "RECOVERY_REQUIRED" ELSE "LOCKED"

ReconcileFails(b) ==
    /\ May(b, "reconcile")
    /\ "storage" \in Faults
    /\ \E started \in {rt[b].started, TRUE} :
          Persist(b, [Begun(b, "reconcile") EXCEPT !.st = "ERROR", !.started = started])
    /\ UNCHANGED <<vault, app, guard>>

Reconcile(b) ==
    /\ May(b, "reconcile")
    /\ LET r == [Begun(b, "reconcile") EXCEPT !.started = TRUE]
           verdict == Verdict(b, rt[b].mem)
       IN  CASE vault = "missing" ->
                  Persist(b, [r EXCEPT !.st = "LOCKED"])
             [] vault # "missing" /\ verdict = "RECOVERY_REQUIRED" ->
                  Persist(b, [r EXCEPT !.st = verdict, !.owed = TRUE])
             [] vault # "missing" /\ verdict = "LOCKED" /\ ~Running(b) ->
                  Persist(b, [r EXCEPT !.owed = FALSE,
                                       !.st = IF SessionValid(b)
                                                THEN "SESSION_CACHED" ELSE verdict])
             [] OTHER ->
                  Keep(b, IF verdict \in Exposed THEN [r EXCEPT !.st = verdict] ELSE r)
    /\ UNCHANGED <<vault, app, guard>>

Recover(b) ==
    /\ May(b, "recover")
    /\ IF rt[b].st = "RECOVERY_REQUIRED"
         THEN Persist(b, Locking(Begun(b, "recover"), "recovery"))
         ELSE Keep(b, Begun(b, "recover"))
    /\ UNCHANGED <<vault, app, guard>>

-----------------------------------------------------------------------------
\* open, authenticate_only.

Admitted(b) == ~rt[b].down /\ rt[b].st # "RECOVERY_REQUIRED"

\* Refused, a publication that does not cancel in time, or a backend that
\* cannot even be asked: nothing changes.
OpenRefused(b) ==
    /\ May(b, "open")
    /\ \/ ~Admitted(b) \/ vault = "missing" \/ "storage" \in Faults
       \/ rt[b].backup /\ ~Running(b)
    /\ Keep(b, GivenUp(Begun(b, "open")))
    /\ UNCHANGED <<vault, app, guard>>

\* The application runs already: note_activity on whatever session is alive.
OpenWhileRunning(b) ==
    /\ May(b, "open")
    /\ Admitted(b)
    /\ Running(b)
    /\ Keep(b, [Begun(b, "open") EXCEPT !.sess = Refreshed(@)])
    /\ UNCHANGED <<vault, app, guard>>

OpenStartFails(b) ==
    /\ May(b, "open")
    /\ Admitted(b)
    /\ ~Running(b)
    /\ ~rt[b].started
    /\ "storage" \in Faults
    /\ Persist(b, GivenUp([Begun(b, "open") EXCEPT !.st = "ERROR"]))
    /\ UNCHANGED <<vault, app, guard>>

\* The session still serves: no key interaction.
OpenWithSession(b) ==
    /\ May(b, "open")
    /\ Admitted(b)
    /\ ~Running(b)
    /\ vault # "missing"
    /\ ~NeedsKey(b, FALSE)
    /\ Persist(b, [Begun(b, "open") EXCEPT !.started = TRUE, !.st = "UNLOCKING",
                                   !.pc = "unlock"])
    /\ UNCHANGED <<vault, app, guard>>

\* _authenticate up to its wait for the touch: the old secret is gone.
Authenticating(r, pc) == [r EXCEPT !.st = "AUTHENTICATING", !.sess = "none",
                                   !.pc = pc]

OpenNeedsKey(b, force) ==
    /\ May(b, "open")
    /\ Admitted(b)
    /\ ~Running(b)
    /\ vault # "missing"
    /\ NeedsKey(b, force)
    /\ Persist(b, Authenticating([Begun(b, "open") EXCEPT !.started = TRUE], "auth_open"))
    /\ UNCHANGED <<vault, app, guard>>

\* Migration asks for the secret without mounting.
AuthenticateOnly(b, force) ==
    /\ "authenticate_only" \in Pages
    /\ May(b, "authenticate_only")
    /\ Admitted(b)
    /\ IF ~force /\ SessionValid(b)
         THEN Keep(b, rt[b])
         ELSE Persist(b, Authenticating(rt[b], "auth_only"))
    /\ UNCHANGED <<vault, app, guard>>

\* The provider cannot be built: _fail before the session is touched.
ProviderRefused(b, st, force) ==
    /\ "provider" \in Faults
    /\ \/ /\ May(b, "open")
          /\ vault # "missing" /\ ~Running(b)
          /\ NeedsKey(b, force)
       \/ /\ "authenticate_only" \in Pages
          /\ May(b, "authenticate_only") /\ (force \/ ~SessionValid(b))
    /\ Admitted(b)
    /\ Persist(b, GivenUp([Begun(b, "open") EXCEPT !.st = st]))
    /\ UNCHANGED <<vault, app, guard>>

\* A publication changes no state of the session when its touch succeeds.
KeyTouched(b) ==
    /\ Up(b)
    /\ rt[b].pc \in {"auth_open", "auth_only", "auth_backup"}
    /\ LET r == [rt[b] EXCEPT !.sess = "fresh", !.reauth = FALSE,
                              !.keyed = TRUE, !.spent = FALSE]
       IN  CASE r.pc = "auth_open" ->
                  Persist(b, [r EXCEPT !.st = "UNLOCKING", !.pc = "unlock"])
             [] r.pc = "auth_only" ->
                  Persist(b, [r EXCEPT !.st = "SESSION_CACHED", !.pc = "idle"])
             [] OTHER -> Keep(b, [r EXCEPT !.pc = "publish"])
    /\ UNCHANGED <<vault, app, guard>>

\* The exception of a publication's touch is swallowed: AUTHENTICATING stays.
PublishesUnproven(b) ==
    /\ Up(b)
    /\ rt[b].pc = "auth_backup"
    /\ Keep(b, [rt[b] EXCEPT !.pc = "publish"])
    /\ UNCHANGED <<vault, app, guard>>

\* _fail for a cancelled, refused or broken key interaction.
KeyRefused(b, st) ==
    /\ Up(b)
    /\ rt[b].pc \in {"auth_open", "auth_only"}
    /\ Persist(b, GivenUp([rt[b] EXCEPT !.st = st, !.pc = "idle"]))
    /\ UNCHANGED <<vault, app, guard>>

UnlockSucceeds(b) ==
    /\ Up(b)
    /\ rt[b].pc = "unlock"
    /\ vault' = "mounted"
    /\ Persist(b, [rt[b] EXCEPT !.st = "MOUNTED", !.pc = "launch", !.spent = TRUE])
    /\ UNCHANGED <<app, guard>>

\* Invoke-UnlockMount stops after any of its steps, or the mount path is not
\* there; _fail detaches as far as it can and drops the session.
UnlockFails(b) ==
    /\ Up(b)
    /\ rt[b].pc = "unlock"
    /\ "storage" \in Faults
    /\ \E v \in {vault, "attached_locked", "mounted"} : \E d \in DetachOutcomes(v) :
          vault' = d.left
    /\ Persist(b, GivenUp([rt[b] EXCEPT !.st = "ERROR", !.sess = "none", !.pc = "idle"]))
    /\ UNCHANGED <<app, guard>>

\* AppSupervisor.launch refuses while another instance of the executable runs.
LaunchSucceeds(b) ==
    /\ Up(b)
    /\ rt[b].pc = "launch"
    /\ app = NoBroker
    /\ app' = b
    /\ Persist(b, [rt[b] EXCEPT !.st = "RUNNING", !.sess = Refreshed(@), !.pc = "idle"])
    /\ UNCHANGED <<vault, guard>>

\* What launch() leaves running when the identity of what it spawned cannot be
\* read: the seed of the family raises with nothing tracked, the survey after
\* it with the root tracked.
Spawned(b) ==
    IF "identity" \in Faults /\ app = NoBroker THEN {Untracked, b} ELSE {}

\* A mount without an application is an exposed vault: relock, whatever part
\* of the launch failed.
LaunchFails(b) ==
    /\ Up(b)
    /\ rt[b].pc = "launch"
    /\ app' \in {app} \cup Spawned(b)
    /\ Persist(b, Locking(GivenUp(rt[b]), "launch_failed"))
    /\ UNCHANGED <<vault, guard>>

-----------------------------------------------------------------------------
\* publish_backup and the proofs of ownership: the window's buttons and the
\* commands "backup", "enroll --additional" and "credential".

\* Without a secret the publication authenticates, whatever the session's
\* state; with one, or without a provider, it goes on.
PublishBackup(b) ==
    /\ May(b, "publish_backup")
    /\ LET r == Begun(b, "publish_backup")
       IN  \/ /\ rt[b].sess = "none"
              /\ Persist(b, Authenticating(r, "auth_backup"))
           \/ /\ rt[b].sess # "none" \/ "provider" \in Faults
              /\ Keep(b, [r EXCEPT !.pc = "publish"])
    /\ UNCHANGED <<vault, app, guard>>

\* A detached container is asked for its protectors, which attaches it; any
\* other, or a refused manifest key, ends the publication with an error.
PublishEnds(b) ==
    /\ Up(b)
    /\ rt[b].pc = "publish"
    /\ vault' \in {vault} \cup (IF vault = "detached" THEN {"attached_locked"} ELSE {})
    /\ Keep(b, [rt[b] EXCEPT !.pc = "idle"])
    /\ UNCHANGED <<app, guard>>

\* enroll_additional, remove_credential_authenticated: refused at once, or up
\* to the touch of an enrolled key.
Prove(b) ==
    /\ May(b, "prove")
    /\ \E pc \in {"idle", "prove"} : Keep(b, [Begun(b, "prove") EXCEPT !.pc = pc])
    /\ UNCHANGED <<vault, app, guard>>

\* The touch hands the secret to an enrolment, which waits for the new key; a
\* removal zeroizes it, and so does the end of either.
ProofStep(b) ==
    /\ Up(b)
    /\ rt[b].pc \in {"prove", "wrap"}
    /\ \E pc \in {"wrap", "idle"} \ {rt[b].pc} : Keep(b, [rt[b] EXCEPT !.pc = pc])
    /\ UNCHANGED <<vault, app, guard>>

-----------------------------------------------------------------------------
\* System events, shutdown and the secure-lock sequence.

SystemEvent(b, e) ==
    /\ May(b, e)
    /\ e # "broker_shutdown"
    /\ IF e \in LockOn \cup {"manual_lock"}
         THEN Persist(b, Locking([Begun(b, e) EXCEPT !.reauth = @ \/ e \in ReauthOn,
                                                  !.keyed = @ /\ e \notin ReauthOn], e))
         ELSE Keep(b, Begun(b, e))
    /\ UNCHANGED <<vault, app, guard>>

\* shutdown(): no more sessions, then the broker_shutdown event; a profile the
\* policy leaves alone counts as settled unless it reports RECOVERY_REQUIRED.
\* A window whose shutdown failed stays, and asks no second time.
Shutdown(b) ==
    /\ May(b, "broker_shutdown")
    /\ ~rt[b].down
    /\ LET r == [Begun(b, "broker_shutdown") EXCEPT !.down = TRUE]
       IN  IF "broker_shutdown" \in LockOn
             THEN Persist(b, Locking(r, "broker_shutdown"))
             ELSE Keep(b, IF r.cmd # "gui" \/ r.st # "RECOVERY_REQUIRED"
                            THEN Gone(r) ELSE r)
    /\ Release(b)
    /\ UNCHANGED <<vault, app>>

\* close_sequence: the family this supervisor tracks is gone, by itself, on
\* request or by force; with nothing tracked it returns at once.
CloseConfirmed(b) ==
    /\ Up(b)
    /\ rt[b].pc = "close"
    /\ app' = IF Running(b) THEN NoBroker ELSE app
    /\ Keep(b, [rt[b] EXCEPT !.pc = "detach"])
    /\ UNCHANGED <<vault, guard>>

LockError(b) == Detached(rt[b], FALSE)

\* Step 5 failed: nothing is detached and the session is kept.
CloseTimesOut(b) ==
    /\ Up(b)
    /\ rt[b].pc = "close"
    /\ Running(b)
    /\ "app_hang" \in Faults
    /\ Persist(b, Locked(LockError(b), FALSE))
    /\ Release(b)
    /\ UNCHANGED <<vault, app>>

HelperMissing(b) ==
    /\ Up(b)
    /\ rt[b].pc = "detach"
    /\ "helper" \in Faults
    /\ Persist(b, Locked(LockError(b), FALSE))
    /\ Release(b)
    /\ UNCHANGED <<vault, app>>

\* Unmount, zeroize, report; a relock that succeeds queues a backup.
Detach(b) ==
    /\ Up(b)
    /\ rt[b].pc = "detach"
    /\ \E d \in DetachOutcomes(vault) :
          /\ vault' = d.left
          /\ LET r == [rt[b] EXCEPT !.sess = "none"]
             IN  Persist(b, Locked([Detached(r, d.ok) EXCEPT
                                      !.backup = @ \/ (d.ok /\ vault # "missing")], d.ok))
    /\ Release(b)
    /\ UNCHANGED app

\* The publisher thread looks at the container and, finding it detached, asks
\* for its protectors, which attaches it; nothing detaches it again.
BackupAttaches(b) ==
    /\ Up(b)
    /\ rt[b].backup
    /\ vault' = IF vault = "detached" THEN "attached_locked" ELSE vault
    /\ Keep(b, [rt[b] EXCEPT !.backup = FALSE])
    /\ UNCHANGED <<app, guard>>

-----------------------------------------------------------------------------
\* The periodic turn: poll_foreground, then tick.

PollForeground(b) ==
    /\ May(b, "poll")
    /\ Running(b)
    /\ Keep(b, [rt[b] EXCEPT !.sess = Refreshed(@)])
    /\ UNCHANGED <<vault, app, guard>>

NoteInteraction(b) ==
    /\ May(b, "note")
    /\ Keep(b, [rt[b] EXCEPT !.sess = Refreshed(@)])
    /\ UNCHANGED <<vault, app, guard>>

\* Mutant: the exit waits for the idle clock.
AppExitedAndIdle(b) == rt[b].st = "RUNNING" /\ ~Running(b) /\ Expired(rt[b].sess)
AppHasExited(b) == rt[b].st = "RUNNING" /\ ~Running(b)

\* _handle_app_exit up to a failure to detach.
TickExitFails(b) ==
    /\ May(b, "tick")
    /\ AppHasExited(b)
    /\ UnmountOnExit
    /\ \/ "helper" \in Faults /\ UNCHANGED vault
       \/ \E d \in DetachOutcomes(vault) : ~d.ok /\ vault' = d.left
    /\ Persist(b, [rt[b] EXCEPT !.st = "ERROR", !.pc = "tick"])
    /\ UNCHANGED <<app, guard>>

TickExit(b) ==
    /\ May(b, "tick")
    /\ AppHasExited(b)
    /\ IF UnmountOnExit
         THEN \E d \in DetachOutcomes(vault) : d.ok /\ vault' = d.left
         ELSE UNCHANGED vault
    /\ LET r == [rt[b] EXCEPT !.pc = "tick"]
       IN  Persist(b, IF r.aggressive \/ ReauthAfterExit
                        THEN [r EXCEPT !.st = "LOCKED", !.sess = "none"]
                        ELSE [r EXCEPT !.st = "SESSION_CACHED"])
    /\ UNCHANGED <<app, guard>>

\* The second half of _tick_profile, after the first or without it.
AtIdleCheck(b) ==
    \/ Up(b) /\ rt[b].pc = "tick"
    \/ May(b, "tick") /\ ~AppHasExited(b)

MustClose(b) ==
    Running(b) /\ (CloseOnIdle \/ rt[b].st \in {"RUNNING", "MOUNTED"})

IdleCloses(b) ==
    /\ AtIdleCheck(b)
    /\ Expired(rt[b].sess)
    /\ MustClose(b)
    /\ Persist(b, Locking(rt[b], "idle"))
    /\ UNCHANGED <<vault, app, guard>>

\* Only a profile whose application is not running is detached here.
IdleDrops(b) ==
    /\ AtIdleCheck(b)
    /\ Expired(rt[b].sess)
    /\ ~MustClose(b)
    /\ LET r == [rt[b] EXCEPT !.sess = "none", !.pc = "idle"]
       IN  \/ Running(b) /\ UNCHANGED vault /\ Persist(b, [r EXCEPT !.st = "LOCKED"])
           \/ ~Running(b) /\ \E d \in DetachOutcomes(vault) :
                /\ vault' = d.left
                /\ Persist(b, Detached(r, d.ok))
    /\ UNCHANGED <<app, guard>>

TickEnds(b) ==
    /\ Up(b)
    /\ rt[b].pc = "tick"
    /\ ~Expired(rt[b].sess)
    /\ Keep(b, [rt[b] EXCEPT !.pc = "idle"])
    /\ UNCHANGED <<vault, app, guard>>

-----------------------------------------------------------------------------

\* Tightening takes effect now: a cached session is dropped and the volume
\* proven detached before LOCKED is reported.
SetMode(b, aggressive) ==
    /\ May(b, "set_mode")
    /\ LET r == [Begun(b, "set_mode") EXCEPT !.aggressive = aggressive]
       IN  IF aggressive /\ ~Running(b) /\ r.sess # "none"
             THEN \E d \in DetachOutcomes(vault) :
                    /\ vault' = d.left
                    /\ Persist(b, Detached([r EXCEPT !.sess = "none"], d.ok))
             ELSE Keep(b, r) /\ UNCHANGED vault
    /\ UNCHANGED <<app, guard>>

OpenStep(b) ==
    \/ OpenRefused(b) \/ OpenWhileRunning(b) \/ OpenStartFails(b)
    \/ OpenWithSession(b)
    \/ \E force \in BOOLEAN : OpenNeedsKey(b, force) \/ AuthenticateOnly(b, force)
    \/ \E st \in {"AUTH_REQUIRED", "ERROR"} :
          KeyRefused(b, st) \/ \E force \in BOOLEAN : ProviderRefused(b, st, force)
    \/ KeyTouched(b) \/ UnlockSucceeds(b) \/ UnlockFails(b)
    \/ LaunchSucceeds(b) \/ LaunchFails(b)

KeyStep(b) ==
    PublishBackup(b) \/ PublishesUnproven(b) \/ PublishEnds(b) \/ Prove(b) \/ ProofStep(b)

LockStep(b) ==
    \/ CloseConfirmed(b) \/ CloseTimesOut(b) \/ HelperMissing(b) \/ Detach(b)

TickStep(b) ==
    TickExitFails(b) \/ TickExit(b) \/ IdleCloses(b) \/ IdleDrops(b) \/ TickEnds(b)

Next ==
    \/ Reboot \/ AppExits
    \/ \E b \in Broker :
         \/ \E c \in Commands : Start(b, c)
         \/ Exit(b) \/ Crash(b) \/ SessionIdles(b) \/ SessionAges(b)
         \/ ReconcileFails(b) \/ Reconcile(b) \/ Recover(b)
         \/ OpenStep(b) \/ KeyStep(b) \/ LockStep(b) \/ TickStep(b)
         \/ \E e \in Events : SystemEvent(b, e)
         \/ Shutdown(b) \/ BackupAttaches(b)
         \/ PollForeground(b) \/ NoteInteraction(b)
         \/ \E m \in BOOLEAN : SetMode(b, m)

Spec == Init /\ [][Next]_vars

\* A command's script runs on to its end.
Scripted(b) ==
    /\ rt[b].todo \notin {"any", "supervise"}
    /\ \/ Reconcile(b) \/ ReconcileFails(b) \/ Recover(b) \/ OpenStep(b)
       \/ PublishBackup(b) \/ Prove(b)
       \/ \E e \in Events : SystemEvent(b, e)
       \/ \E m \in BOOLEAN : SetMode(b, m)
       \/ Shutdown(b) \/ Exit(b)

\* Each wait of an operation is bounded by a timeout, the window's event loop
\* serves every timer turn, and a polling loop goes on polling.  Nothing is
\* assumed of users, of the application or of the next start.
Fairness ==
    \A b \in Broker :
        /\ WF_vars(LockStep(b))
        /\ WF_vars(KeyTouched(b) \/ \E st \in {"AUTH_REQUIRED", "ERROR"} : KeyRefused(b, st))
        /\ WF_vars(KeyTouched(b) \/ PublishesUnproven(b))
        /\ WF_vars(PublishEnds(b) \/ ProofStep(b))
        /\ WF_vars(UnlockSucceeds(b) \/ UnlockFails(b))
        /\ WF_vars(LaunchSucceeds(b) \/ LaunchFails(b))
        /\ WF_vars(Scripted(b))
        /\ SF_vars(TickStep(b))

FairSpec == Spec /\ Fairness

-----------------------------------------------------------------------------
\* Properties that hold whatever the policy, the commands and the faults.

\* A volume is unlocked only on a secret whose key was touched after the last
\* event that demanded the key again: no path to UNLOCKING skips pending_reauth.
KeyBeforeMount ==
    \A b \in Broker :
        rt[b].pc \in {"unlock", "launch"} =>
            rt[b].keyed /\ ~rt[b].reauth /\ rt[b].sess # "none"

\* In aggressive mode one touch pays for one mount: the secret that is about to
\* unlock the volume has not unlocked it before.
OneTouchPerAggressiveMount ==
    \A b \in Broker :
        rt[b].pc = "unlock" /\ rt[b].aggressive => ~rt[b].spent

\* Who is at the vault: it authenticates for a mount, mounts, launches, or its
\* supervisor tracks the live application.
AtVault(b) ==
    Up(b) /\ (rt[b].pc \in {"auth_open", "auth_only", "unlock", "launch"} \/ app = b)

HoldsSecret(b) == rt[b].sess # "none" \/ rt[b].pc = "wrap"

\* The processes that take no mutex - a publication, an enrolment, a removal of
\* a key - may hold the volume secret beside the window's, and mount nothing
\* with it: at most one process is at the vault, and whoever else holds a
\* secret meanwhile is a command whose next broker call ends it.
OneVaultOwner ==
    \A a, b \in Broker :
        AtVault(a) /\ a # b =>
            /\ ~AtVault(b)
            /\ HoldsSecret(b) => rt[b].todo = "broker_shutdown"

\* A broker never takes the vault from under the application its supervisor
\* tracks, in the lock sequence, in tick, in a failed open or launch, or in a
\* mode switch.  (A launch whose spawned process could not be identified is
\* tracked by nobody: its own broker relocks under it, NeverDetachedUnderApp.)
TrackedAppKeepsVault ==
    [][\A b \in Broker :
          /\ vault = "mounted" /\ vault' # "mounted"
          /\ app = b /\ app' = b
          => rt'[b] = rt[b]]_vars

-----------------------------------------------------------------------------
\* Properties that need something of the policy or of the environment.

AtRest(b) == Up(b) /\ rt[b].pc = "idle" /\ rt[b].todo # "reconcile"

\* No comfortable word over a readable vault: a broker that reports LOCKED or
\* SESSION_CACHED has left the volume unreadable.  Holds for a policy with
\* close_app_on_idle and an unmount on exit, while only guarded brokers run and
\* none migrates.
RestIsUnreadable ==
    \A b \in Broker :
        AtRest(b) /\ rt[b].st \in {"LOCKED", "SESSION_CACHED"} => vault # "mounted"

\* A broker process that ended while the vault was exposed is noticed: the next
\* one, if its row is the dead broker's, asks for recovery even when the volume
\* is down by now.  Needs a state file that is written and readable.
UncleanEndIsNoticed ==
    [][\A a, b \in Broker :
          /\ rt[a].life = "gone" /\ rt[a].st \in Exposed
          /\ Up(b) /\ rt[b].todo = "reconcile" /\ rt[b].mem.by = a
          /\ rt'[b].life = "up" /\ rt'[b].todo # "reconcile"
          /\ vault # "missing"
          => rt'[b].st \in {"RECOVERY_REQUIRED", "ERROR"}]_vars

\* A mounted vault without an application is a passing condition, or one that
\* every live broker asks its user to act on.  AUTH_REQUIRED is among those
\* words because a refused key leaves the volume as it was: the application
\* ends, the user opens again before the tick, and the key is refused.  So is
\* AUTHENTICATING, which a publication writes over ERROR and leaves there.
\* Needs a policy with an unmount on exit and close_app_on_idle.
ExposureEnds ==
    (vault = "mounted" /\ app = NoBroker)
      ~> \/ vault # "mounted" \/ app # NoBroker
         \/ \A b \in Broker :
              Up(b) => rt[b].st \in {"ERROR", "RECOVERY_REQUIRED", "AUTH_REQUIRED",
                                     "AUTHENTICATING"}

\* A secret past its hard lifetime is zeroized, although the helper is missing
\* or the volume does not detach.  (An application that never closes keeps it
\* for as long as close_app_on_idle makes every expiry wait for the close.)
AgedSecretDies ==
    \A b \in Broker : rt[b].sess = "aged" ~> rt[b].sess # "aged"

-----------------------------------------------------------------------------
\* What the documents say and the code does not do, stated for the record: TLC
\* refutes each when it is added to a configuration, and no run includes them.

\* "storage is never detached while a process in the tree is alive": another
\* broker's recovery, or a launch whose seed raised, detaches under it.
NeverDetachedUnderApp ==
    [][vault = "mounted" /\ vault' # "mounted" => app' = NoBroker]_vars

\* "One broker per user session": a broker that owns the running application
\* is not rid of its volume by another one.
LiveBrokerKeepsItsVault ==
    [][\A b \in Broker :
          Up(b) /\ app = b /\ app' = b /\ vault = "mounted" => vault' = "mounted"]_vars

\* "RECOVERY_REQUIRED refuses new launches until Recover completes a safe
\* relock."
NoUnlockWhileRelockOwed ==
    \A b \in Broker : rt[b].pc = "unlock" => ~rt[b].owed

\* "RECOVERY_REQUIRED refuses new launches until Recover completes a safe
\* relock": where no fault happens, Recover completes it.
RecoverRelocks ==
    [][\A b \in Broker :
          rt[b].pc = "detach" /\ rt[b].why = "recovery" /\ rt'[b].life = "up"
          => rt'[b] = rt[b] \/ rt'[b].st = "LOCKED"]_vars

=============================================================================
