----------------------------- MODULE VaultKeys -----------------------------
(***************************************************************************)
(* What opens a vault, and the records that say so: the BitLocker protectors   *)
(* in the container, the layout file and the mutation journal beside it         *)
(* (sa_layout.py), and the wrapped copies of the daily secret in the credential  *)
(* store (sa_auth.py).  Enrolment (sa_enroll.py), the portable password and the   *)
(* upgrade to a new daily secret (sa_broker.py) change them in several steps,     *)
(* each of which may fail, and the broker may die between any two.                *)
(*                                                                          *)
(* A protector is an identifier, of a password or of a recovery password; an     *)
(* enrolment is the generation it belongs to and the protector it unwraps.  One   *)
(* worker thread runs the operations one after the other; an enrolment waits for  *)
(* its answer in between.                                                        *)
(***************************************************************************)
EXTENDS Naturals, FiniteSets

CONSTANTS
    Passwords,  \* identifiers for Password protectors
    Recoveries, \* identifiers for RecoveryPassword protectors
    None,       \* no protector
    MaxKeys,    \* bound: enrolments in the store
    MaxFaults   \* bound: steps that fail, and deaths of the broker

ASSUME KeyConstants ==
    /\ Passwords \cap Recoveries = {} /\ None \notin Passwords \cup Recoveries
    /\ MaxKeys \in Nat /\ MaxFaults \in Nat

VARIABLES
    container, \* the container file exists
    native,    \* the protectors in it
    unlocked,  \* the volume is attached and readable
    layout,    \* the layout file
    journal,   \* the mutation journal
    creds,     \* the enrolments of the credential store
    active,    \* its active_daily_generation
    pend,      \* the PendingEnrollment in memory
    upgrade,   \* runtime.pending_migration_*
    op,        \* the operation under runtime.lock
    faults

vault == <<container, native, unlocked>>
files == <<layout, journal, creds, active>>
memory == <<pend, upgrade>>
vars == <<vault, files, memory, op, faults>>

Ids == Passwords \cup Recoveries
MaybeId == Ids \cup {None}
Gens == 1..3

NoLayout == [on |-> FALSE, daily |-> None, glass |-> None, portable |-> None]
NoJournal == [on |-> FALSE, old |-> None]
NoUpgrade == [on |-> FALSE, secret |-> FALSE, old |-> None, new |-> None, glass |-> None,
              gen |-> 1, wanted |-> FALSE]
NoPend == [state |-> "none", daily |-> None, glass |-> None, portable |-> None, key |-> None]
Idle == [pc |-> "idle", old |-> None, new |-> None, other |-> None, port |-> None, flag |-> FALSE]

EnrollStates == {"none", "await", "layout", "release", "ready", "rolled back", "failed",
                 "detach", "rollback"}
Steps == {"idle", "add layout", "add undo", "change", "verify", "restore", "unescrow",
          "change layout", "change done", "remove", "remove layout", "remove done",
          "upgrade key", "upgrade switch", "undo key", "undo native",
          "finish old", "finish portable", "finish layout"}

TypeOK ==
    /\ container \in BOOLEAN /\ unlocked \in BOOLEAN
    /\ native \subseteq Ids
    /\ layout \in [on : BOOLEAN, daily : MaybeId, glass : MaybeId, portable : MaybeId]
    /\ journal \in [on : BOOLEAN, old : MaybeId]
    /\ creds \subseteq [gen : Gens, wraps : Ids, nr : 1..MaxKeys]
    /\ active \in Gens
    /\ pend \in [state : EnrollStates, daily : MaybeId, glass : MaybeId, portable : MaybeId, key : MaybeId]
    /\ upgrade \in [on : BOOLEAN, secret : BOOLEAN, old : MaybeId, new : MaybeId, glass : MaybeId,
                    gen : Gens, wanted : BOOLEAN]
    /\ op \in [pc : Steps, old : MaybeId, new : MaybeId, other : MaybeId, port : MaybeId, flag : BOOLEAN]
    /\ faults \in 0..MaxFaults

\* A machine without a vault.
Init ==
    /\ container = FALSE /\ native = {} /\ unlocked = FALSE
    /\ layout = NoLayout /\ journal = NoJournal
    /\ creds = {} /\ active = 1
    /\ pend = NoPend /\ upgrade = NoUpgrade /\ op = Idle
    /\ faults = 0

-----------------------------------------------------------------------------
Settled == op.pc = "idle" /\ pend.state \notin {"layout", "release"}
Fault == faults < MaxFaults /\ faults' = faults + 1
Advance(from, to) == op.pc = from /\ op' = [op EXCEPT !.pc = to]
Return == op' = Idle

\* Identifiers nobody has written down anywhere.
Known == native \cup {layout.daily, layout.glass, layout.portable, journal.old,
                      pend.daily, pend.glass, pend.portable, pend.key,
                      upgrade.old, upgrade.new, upgrade.glass,
                      op.old, op.new, op.other, op.port}
               \cup {c.wraps : c \in creds}
Fresh(S) == CHOOSE i \in S : i \notin Known
Room(S, n) == Cardinality(S \ Known) >= n

Recs == native \cap Recoveries
Pwds == native \cap Passwords

\* CredentialStore.add: a new credential each time.
Free == {n \in 1..MaxKeys : \A c \in creds : c.nr # n}
AddKey(gen, id) ==
    /\ Free # {}
    /\ creds' = creds \cup {[gen |-> gen, wraps |-> id, nr |-> CHOOSE n \in Free : TRUE]}

\* CredentialStore.remove refuses the last one.
DropKey(c) == Cardinality(creds) > 1 /\ creds' = creds \ {c}

\* is_enrolled, and what unwrap_volume_secret can use.
Usable(gen) == {c \in creds : c.gen = gen}

-----------------------------------------------------------------------------
\* Enrolment.

\* Mutant: what a plain vault gives the key to wrap is the portable secret.
BeginPlainNoKey ==
    /\ Settled /\ pend.state # "await"
    /\ Usable(active) = {} /\ ~container
    /\ Room(Passwords, 1) /\ Room(Recoveries, 1)
    /\ container' = TRUE /\ unlocked' = TRUE
    /\ native' = {Fresh(Passwords), Fresh(Recoveries)}
    /\ pend' = [NoPend EXCEPT !.state = "await"]
    /\ UNCHANGED <<files, upgrade, op, faults>>

\* Without a portable password the secret becomes the one password and no layout
\* is ever written; with one, the first recovery password is the daily secret.
BeginPlain ==
    /\ Settled /\ pend.state # "await"
    /\ Usable(active) = {} /\ ~container
    /\ Room(Passwords, 1) /\ Room(Recoveries, 1)
    /\ container' = TRUE /\ unlocked' = TRUE
    /\ LET p == Fresh(Passwords)  r == Fresh(Recoveries) IN
          /\ native' = {p, r}
          /\ pend' = [NoPend EXCEPT !.state = "await", !.key = p]
    /\ UNCHANGED <<files, upgrade, op, faults>>

BeginPortable ==
    /\ Settled /\ pend.state # "await"
    /\ Usable(active) = {} /\ ~container
    /\ Room(Passwords, 1) /\ Room(Recoveries, 2)
    /\ container' = TRUE /\ unlocked' = TRUE
    /\ LET p == Fresh(Passwords)
           d == Fresh(Recoveries)
           g == Fresh(Recoveries \ {d})
       IN /\ native' = {p, d, g}
          /\ pend' = [state |-> "await", daily |-> d, glass |-> g, portable |-> p, key |-> d]
    /\ UNCHANGED <<files, upgrade, op, faults>>

\* backend.create raises half-way: created is still False, nothing is rolled back.
BeginFails ==
    /\ Settled /\ pend.state # "await"
    /\ Usable(active) = {} /\ ~container
    /\ Fault
    /\ container' = TRUE
    /\ UNCHANGED <<native, unlocked, files, memory, op>>

\* _rollback_container: the backend detaches if it can and deletes the file.
Destroyed == container' = FALSE /\ native' = {} /\ unlocked' = FALSE
Stays == unlocked' \in {FALSE, unlocked} /\ UNCHANGED <<container, native>>

\* accept: the key is created, wrapped and stored, the layout written, the staging
\* volume released; what fails before the release removes the container.
AcceptKey ==
    /\ op.pc = "idle" /\ pend.state = "await"
    /\ AddKey(1, pend.key)
    /\ pend' = [pend EXCEPT !.state = "layout"]
    /\ UNCHANGED <<vault, layout, journal, active, upgrade, op, faults>>

AcceptLayout ==
    /\ pend.state = "layout"
    /\ layout' = IF pend.daily # None
                 THEN [on |-> TRUE, daily |-> pend.daily, glass |-> pend.glass, portable |-> pend.portable]
                 ELSE layout
    /\ pend' = [pend EXCEPT !.state = "release"]
    /\ UNCHANGED <<vault, journal, creds, active, upgrade, op, faults>>

AcceptFails ==
    /\ op.pc = "idle" /\ pend.state \in {"await", "layout"}
    /\ Fault
    /\ pend' = [NoPend EXCEPT !.state = "failed"]
    /\ Destroyed \/ Stays
    /\ UNCHANGED <<files, upgrade, op>>

\* Mutant: a staging volume that cannot be detached is only reported.
ReleaseBestEffort ==
    /\ op.pc = "idle" /\ pend.state \in {"release", "detach"}
    /\ pend' = [NoPend EXCEPT !.state = "ready"]
    /\ unlocked' \in {FALSE, unlocked}
    /\ UNCHANGED <<container, native, files, upgrade, op, faults>>

\* The end of accept, and retry_cleanup after it.
Release ==
    /\ op.pc = "idle" /\ pend.state \in {"release", "detach"}
    /\ \/ pend' = [NoPend EXCEPT !.state = "ready"] /\ unlocked' = FALSE /\ UNCHANGED faults
       \/ pend' = [NoPend EXCEPT !.state = "detach"] /\ Fault /\ UNCHANGED unlocked
    /\ UNCHANGED <<container, native, files, upgrade, op>>

\* decline, cancel, the timeout, and retry_cleanup after them.
Decline ==
    /\ op.pc = "idle" /\ pend.state \in {"await", "rollback"}
    /\ \/ pend' = [NoPend EXCEPT !.state = "rolled back"] /\ Destroyed /\ UNCHANGED faults
       \/ pend' = [NoPend EXCEPT !.state = "rollback"] /\ Fault /\ Stays
    /\ UNCHANGED <<files, upgrade, op>>

EnrollStep == BeginPlain \/ BeginPortable \/ BeginFails \/ AcceptKey \/ AcceptLayout
              \/ AcceptFails \/ Release \/ Decline

\* enroll_additional: the new enrolment takes the default generation.
AddAnother ==
    /\ Settled
    /\ \E c \in Usable(active) : AddKey(1, c.wraps)
    /\ UNCHANGED <<vault, layout, journal, active, memory, op, faults>>

\* remove_credential_authenticated: another key is proved, by a store that knows
\* no generation and so takes it for 1.
Remove(c) ==
    /\ Settled
    /\ \E d \in creds \ {c} : d.gen = 1
    /\ DropKey(c)
    /\ UNCHANGED <<vault, layout, journal, active, memory, op, faults>>

-----------------------------------------------------------------------------
\* The portable password.  The broker says LOCKED and the helper wants an unlocked
\* volume: somebody opened it by hand, or the proof of the old password did.

Portable(id) == layout' = [layout EXCEPT !.portable = id]

\* reconcile_protector_journal: the target of both operations that write a journal
\* is no portable protector.
Reconcile ==
    IF journal.on
    THEN /\ layout.on
         /\ Portable(IF journal.old \in native THEN journal.old ELSE None)
         /\ journal' = NoJournal
    ELSE UNCHANGED <<layout, journal>>

Add ==
    /\ Room(Passwords, 1)
    /\ unlocked /\ Pwds = {}
    /\ Settled
    /\ op' = [Idle EXCEPT !.pc = "add layout", !.new = Fresh(Passwords)]
    /\ native' = native \cup {Fresh(Passwords)}
    /\ UNCHANGED <<container, unlocked, files, memory, faults>>

AddLayout ==
    /\ op.pc = "add layout"
    /\ \/ layout.on /\ Portable(op.new) /\ Return /\ UNCHANGED faults
       \/ ~layout.on /\ Advance("add layout", "add undo") /\ UNCHANGED <<layout, faults>>
       \/ layout.on /\ Advance("add layout", "add undo") /\ Fault /\ UNCHANGED layout
    /\ UNCHANGED <<vault, journal, creds, active, memory>>

\* The best effort of an except clause; it may fail in silence.
Discard(id) ==
    \/ native' = native \ {id} /\ UNCHANGED faults
    \/ Fault /\ UNCHANGED native

AddUndo ==
    /\ op.pc = "add undo"
    /\ Discard(op.new)
    /\ Return
    /\ UNCHANGED <<container, unlocked, files, memory>>

\* change_portable_password up to the helper's answer: an old journal is reconciled,
\* the layout is held against the protectors, the old password, if given, is proved,
\* which leaves the volume open, and the journal is written.
Verified(l) == {l.daily, l.glass} \subseteq native /\ l.portable \in native \cup {None}

Change(knows) ==
    /\ Settled /\ layout.on /\ ~journal.on /\ container
    /\ Verified(layout)
    /\ knows => Pwds # {}
    /\ unlocked' = (unlocked \/ knows)
    /\ journal' = [on |-> TRUE, old |-> layout.portable]
    /\ op' = [Idle EXCEPT !.pc = "change", !.old = layout.portable, !.flag = knows]
    /\ UNCHANGED <<container, native, layout, creds, active, memory, faults>>

ChangeReconciles ==
    /\ Settled /\ journal.on /\ container
    /\ Reconcile
    /\ UNCHANGED <<vault, creds, active, memory, op, faults>>

\* Invoke-PortablePasswordChange.  The old password is removed before the new one
\* is added, under an escrow.
Expected(id) == IF id = None THEN IF Cardinality(Recs) < 2 THEN {} ELSE Pwds ELSE {id} \cap Pwds

ChangeNative ==
    /\ op.pc = "change"
    /\ unlocked /\ Room(Recoveries, 1) /\ Room(Passwords, 1)
    /\ \E old \in Expected(op.old) :
          LET e == Fresh(Recoveries)  n == Fresh(Passwords) IN
          \/ /\ native' = (native \ {old}) \cup {e, n}
             /\ op' = [op EXCEPT !.pc = "verify", !.new = n, !.other = e]
             /\ UNCHANGED faults
          \/ /\ native' \in {native, native \cup {e}, (native \ {old}) \cup {e}}
                              \cup (IF op.flag THEN {(native \ {old}) \cup {e, n}} ELSE {})
             /\ Return /\ Fault
    /\ UNCHANGED <<container, unlocked, files, memory>>

\* The helper refuses: the volume is locked, or the protector is not there.
ChangeRefused ==
    /\ op.pc = "change"
    /\ ~unlocked \/ Expected(op.old) = {}
    /\ Return
    /\ UNCHANGED <<vault, files, memory, faults>>

\* Invoke-VerifyPassword detaches the volume and opens it again with the password;
\* when that fails it stays detached, when it raises early it stays open.
Verify ==
    /\ op.pc = "verify"
    /\ \/ Advance("verify", "unescrow") /\ op.new \in native /\ UNCHANGED <<unlocked, faults>>
       \/ Advance("verify", "restore") /\ Fault /\ unlocked' \in {FALSE, unlocked}
    /\ UNCHANGED <<container, native, files, memory>>

\* With the old password at hand it is put back, under a new identifier, and once
\* it is proved the escrow goes and the journal with it.  Raises in any case.
Restore ==
    /\ op.pc = "restore"
    /\ \/ /\ op.flag /\ unlocked /\ op.new \in native /\ Room(Passwords, 1)
          /\ LET n == Fresh(Passwords) IN
                \/ native' = ((native \ {op.new}) \cup {n}) \ {op.other} /\ journal' = NoJournal /\ UNCHANGED faults
                \/ native' = (native \ {op.new}) \cup {n} /\ Fault /\ journal' \in {journal, NoJournal}
       \/ ~(op.flag /\ unlocked) /\ UNCHANGED <<native, journal, faults>>
    /\ Return
    /\ UNCHANGED <<container, unlocked, layout, creds, active, memory>>

\* Mutant: the escrow is kept for the next time.
UnescrowKeeps ==
    /\ Advance("unescrow", "change layout")
    /\ UNCHANGED <<vault, files, memory, faults>>

\* Mutant: the escrow is found by its type.
UnescrowByType ==
    /\ Advance("unescrow", "change layout")
    /\ \E r \in Recs : native' = native \ {r}
    /\ UNCHANGED <<container, unlocked, files, memory, faults>>

\* remove_protector(escrow): before the layout is written.
Unescrow ==
    /\ op.pc = "unescrow"
    /\ \/ Advance("unescrow", "change layout") /\ native' = native \ {op.other} /\ UNCHANGED faults
       \/ Return /\ Fault /\ UNCHANGED native
    /\ UNCHANGED <<container, unlocked, files, memory>>

ChangeLayout ==
    /\ op.pc = "change layout"
    /\ \/ layout.on /\ Portable(op.new) /\ Advance("change layout", "change done") /\ UNCHANGED faults
       \/ Return /\ Fault /\ UNCHANGED layout
    /\ UNCHANGED <<vault, journal, creds, active, memory>>

\* Deleting the journal is not checked.
Complete(from) ==
    /\ op.pc = from
    /\ \/ journal' = NoJournal /\ UNCHANGED faults
       \/ Fault /\ UNCHANGED journal
    /\ Return
    /\ UNCHANGED <<vault, layout, creds, active, memory>>

ChangeDone == Complete("change done")

\* Mutant: the journal is begun once the protector is gone.
RemoveUnjournaled ==
    /\ Settled /\ ~journal.on /\ container
    /\ op' = [Idle EXCEPT !.pc = "remove", !.old = layout.portable]
    /\ UNCHANGED <<vault, files, memory, faults>>

\* remove_portable_password: nothing is held against the protectors, and the layout
\* may be missing.
RemoveBegin ==
    /\ Settled /\ ~journal.on /\ container
    /\ journal' = [on |-> TRUE, old |-> layout.portable]
    /\ op' = [Idle EXCEPT !.pc = "remove", !.old = layout.portable]
    /\ UNCHANGED <<vault, layout, creds, active, memory, faults>>

\* Invoke-PortablePasswordRemove; without a name any one password is meant.
NothingToRemove == op.old = None /\ Pwds = {} /\ Cardinality(Recs) >= 2

RemoveNative ==
    /\ op.pc = "remove"
    /\ \/ /\ unlocked
          /\ \/ \E old \in Expected(op.old) : native' = native \ {old}
             \/ NothingToRemove /\ UNCHANGED native
          /\ Advance("remove", "remove layout") /\ UNCHANGED faults
       \/ /\ ~unlocked \/ (Expected(op.old) = {} /\ ~NothingToRemove)
          /\ Return /\ UNCHANGED <<native, faults>>
       \/ Return /\ Fault /\ UNCHANGED native
    /\ UNCHANGED <<container, unlocked, files, memory>>

RemoveLayout ==
    /\ op.pc = "remove layout"
    /\ \/ layout.on /\ Portable(None) /\ Advance("remove layout", "remove done") /\ UNCHANGED faults
       \/ ~layout.on /\ Return /\ UNCHANGED <<layout, faults>>
       \/ Return /\ Fault /\ UNCHANGED layout
    /\ UNCHANGED <<vault, journal, creds, active, memory>>

RemoveDone == Complete("remove done")

PortableStep ==
    \/ Add \/ AddLayout \/ AddUndo
    \/ \E knows \in BOOLEAN : Change(knows)
    \/ ChangeReconciles \/ ChangeNative \/ ChangeRefused \/ Verify \/ Restore \/ Unescrow
    \/ ChangeLayout \/ ChangeDone
    \/ RemoveBegin \/ RemoveNative \/ RemoveLayout \/ RemoveDone

-----------------------------------------------------------------------------
\* upgrade_legacy_vault: a new daily secret beside the old password; the old one
\* goes when no enrolment of an older generation is left.  Its callers take an
\* enrolled profile, which the code does not check.

Older(gen) == {c \in creds : c.gen < gen}
NewGen == active + 1

Upgrade(port) ==
    /\ Settled /\ unlocked /\ creds # {}
    /\ Cardinality(Pwds) = 1 /\ Cardinality(Recs) = 1
    /\ NewGen \in Gens /\ Room(Recoveries, 1)
    /\ native' = native \cup {Fresh(Recoveries)}
    /\ op' = [Idle EXCEPT !.pc = "upgrade key", !.flag = port, !.new = Fresh(Recoveries),
                          !.old = CHOOSE p \in Pwds : TRUE, !.other = CHOOSE r \in Recs : TRUE]
    /\ UNCHANGED <<container, unlocked, files, memory, faults>>

\* Mutant: what the new enrolment wraps is the old secret, and nobody reads it back.
UpgradeKeyUnread ==
    /\ AddKey(NewGen, op.old) /\ Advance("upgrade key", "upgrade switch")
    /\ UNCHANGED <<vault, layout, journal, active, memory, faults>>

\* The new enrolment is unwrapped again and compared before anything rests on it.
UpgradeKey ==
    /\ op.pc = "upgrade key"
    /\ \/ AddKey(NewGen, op.new) /\ Advance("upgrade key", "upgrade switch") /\ UNCHANGED faults
       \/ Advance("upgrade key", "undo native") /\ Fault /\ UNCHANGED creds
    /\ UNCHANGED <<vault, layout, journal, active, memory>>

UpgradeSwitch ==
    /\ op.pc = "upgrade switch"
    /\ \/ /\ active' = NewGen
          /\ IF Older(NewGen) # {}
             THEN /\ upgrade' = [on |-> TRUE, secret |-> TRUE, old |-> op.old, new |-> op.new,
                                 glass |-> op.other, gen |-> NewGen, wanted |-> op.flag]
                  /\ Return
             ELSE Advance("upgrade switch", "finish old") /\ UNCHANGED upgrade
          /\ UNCHANGED faults
       \/ Advance("upgrade switch", "undo key") /\ Fault /\ UNCHANGED <<active, upgrade>>
    /\ UNCHANGED <<vault, layout, journal, creds, pend>>

\* The new enrolment goes, if the store lets it, then the new protector.
UndoKey ==
    /\ op.pc = "undo key"
    /\ Advance("undo key", "undo native")
    /\ LET new == {c \in creds : c.wraps = op.new /\ c.gen = NewGen} IN
          \/ creds \ new # {} /\ creds' = creds \ new /\ UNCHANGED faults
          \/ creds \ new = {} /\ UNCHANGED <<creds, faults>>
          \/ Fault /\ UNCHANGED creds
    /\ UNCHANGED <<vault, layout, journal, active, memory>>

UndoNative ==
    /\ op.pc = "undo native"
    /\ Discard(op.new)
    /\ Return
    /\ UNCHANGED <<container, unlocked, files, memory>>

\* migrate_additional_key: one more credential of the new generation.
Migrate ==
    /\ Settled /\ upgrade.secret
    /\ AddKey(upgrade.gen, upgrade.new)
    /\ IF Older(upgrade.gen) = {}
       THEN /\ active' = upgrade.gen
            /\ op' = [Idle EXCEPT !.pc = "finish old", !.old = upgrade.old, !.new = upgrade.new,
                                  !.other = upgrade.glass, !.flag = upgrade.wanted]
       ELSE UNCHANGED <<active, op>>
    /\ UNCHANGED <<vault, layout, journal, memory, faults>>

\* retire_legacy_key: the last older enrolment to go ends the upgrade, if this
\* process is the one that began it.
Retire(c) ==
    /\ Settled
    /\ DropKey(c)
    /\ IF upgrade.on /\ Older(upgrade.gen) \subseteq {c}
       THEN op' = [Idle EXCEPT !.pc = "finish old", !.old = upgrade.old, !.new = upgrade.new,
                               !.other = upgrade.glass, !.flag = upgrade.wanted]
       ELSE UNCHANGED op
    /\ UNCHANGED <<vault, layout, journal, active, memory, faults>>

\* The old daily protector, the portable password, the layout.
FinishOld ==
    /\ op.pc = "finish old"
    /\ \/ /\ unlocked /\ op.old \in native
          /\ native' = native \ {op.old}
          /\ Advance("finish old", IF op.flag THEN "finish portable" ELSE "finish layout")
          /\ UNCHANGED faults
       \/ Return /\ (IF unlocked /\ op.old \in native THEN Fault ELSE UNCHANGED faults) /\ UNCHANGED native
    /\ UNCHANGED <<container, unlocked, files, memory>>

FinishPortable ==
    /\ op.pc = "finish portable"
    /\ \/ /\ unlocked /\ Pwds = {} /\ Room(Passwords, 1)
          /\ native' = native \cup {Fresh(Passwords)}
          /\ op' = [op EXCEPT !.pc = "finish layout", !.port = Fresh(Passwords)]
          /\ UNCHANGED faults
       \/ Return /\ (IF unlocked THEN Fault ELSE UNCHANGED faults) /\ UNCHANGED native
    /\ UNCHANGED <<container, unlocked, files, memory>>

FinishLayout ==
    /\ op.pc = "finish layout"
    /\ \/ /\ layout' = [on |-> TRUE, daily |-> op.new, glass |-> op.other, portable |-> op.port]
          /\ upgrade' = [upgrade EXCEPT !.secret = FALSE]
          /\ UNCHANGED faults
       \/ Fault /\ UNCHANGED <<layout, upgrade>>
    /\ Return
    /\ UNCHANGED <<vault, journal, creds, active, pend>>

UpgradeStep ==
    \/ \E port \in BOOLEAN : Upgrade(port)
    \/ UpgradeKey \/ UpgradeSwitch \/ UndoKey \/ UndoNative \/ Migrate
    \/ FinishOld \/ FinishPortable \/ FinishLayout

-----------------------------------------------------------------------------
\* The volume opened by hand, and closed.
OpenByHand ==
    /\ native # {} /\ ~unlocked /\ unlocked' = TRUE
    /\ UNCHANGED <<container, native, files, memory, op, faults>>

CloseByHand ==
    /\ unlocked /\ unlocked' = FALSE
    /\ UNCHANGED <<container, native, files, memory, op, faults>>

\* What was in memory is gone: the answer to an enrolment, the secret of an upgrade.
Die ==
    /\ Fault
    /\ pend' = NoPend /\ upgrade' = NoUpgrade /\ op' = Idle
    /\ UNCHANGED <<vault, files>>

Next ==
    \/ EnrollStep \/ AddAnother
    \/ \E c \in creds : Remove(c) \/ Retire(c)
    \/ PortableStep \/ UpgradeStep
    \/ OpenByHand \/ CloseByHand \/ Die

Spec == Init /\ [][Next]_vars

-----------------------------------------------------------------------------
\* Properties.

\* Through every failed, interrupted or reconciled operation the daily and the
\* break-glass protector the layout names stay in the volume: no rotation, escrow,
\* upgrade or undo removes the last ways in (the safety checks of
\* change_portable_password and of the helper).
RecoveryRouteStays ==
    container /\ layout.on => {layout.daily, layout.glass} \subseteq native

\* As long as nobody takes an enrolment away, no rotation, upgrade, undo or
\* completion takes away the protector of the last enrolment that opens the vault.
\* (Removing the password of a vault without a layout is let off: there an upgrade
\* cut short makes the daily password look like a portable one.)
Fits == \E c \in creds : c.wraps \in native
LastKeyStays ==
    [][Fits /\ container' /\ creds \subseteq creds' /\ (op.pc = "remove" => layout.on)
            => Fits']_vars

\* A layout that names a portable protector which is not there, with no journal to
\* say why, is a stale name only: a password still opens the volume (Restore).
DriftKeepsAPassword ==
    container /\ layout.on /\ ~journal.on /\ layout.portable \notin native \cup {None}
        => Pwds # {}

\* ENROLLMENT_READY is said of a detached vault, and when accept says it an
\* enrolled key opens that vault; ENROLL_ROLLED_BACK when no container is left.
VerdictIsTrue ==
    [][/\ pend.state # "ready" /\ pend'.state = "ready" =>
              /\ ~unlocked'
              /\ pend.state = "release" => container' /\ \E c \in creds' : c.wraps \in native'
       /\ pend.state # "rolled back" /\ pend'.state = "rolled back" => ~container']_vars

\* A rotation that returns leaves one password, the one the layout names, and
\* nothing of the escrow or of the old one.
RotationIsComplete ==
    [][op.pc = "change done" /\ op'.pc = "idle" /\ pend' = pend /\ journal' # journal =>
          /\ layout'.portable = op.new
          /\ native' \cap {op.old, op.other} = {}]_vars

\* After a restored rotation, too, the journal is there while the layout and the
\* protectors disagree.
DriftIsJournaled ==
    container /\ layout.on /\ layout.portable \notin native \cup {None} => journal.on

\* An enrolled profile has a container, or an enrolment under way.
EnrolledHasContainer == creds # {} => container
=============================================================================
