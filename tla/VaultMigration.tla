--------------------------- MODULE VaultMigration ---------------------------
(***************************************************************************)
(* The migration of a plaintext vault into the encrypted container          *)
(* (Scripts/secure_apps/sa_migrate.py): migrate() with its gates, the steps *)
(* of Migrator.run, the journal they leave behind, and recover(), which the *)
(* callers run without a secret and which takes no mutex, so it may run     *)
(* beside a migration.                                                      *)
(*                                                                          *)
(* A tree of notes is a function from notes to versions, 0 for a note that  *)
(* is not there; versions are never reused, so equal trees have equal bytes.*)
(* Directories, volume and journal survive a crash; the rest is memory.     *)
(***************************************************************************)
EXTENDS Naturals

CONSTANTS
    Notes,        \* relative paths of the vault
    Archives,     \* timestamped names "<final>.plaintext-..."
    NoName,       \* the journal records no archive
    MaxEdits,     \* bound: versions ever written
    MaxDrills,    \* bound: recovery-readiness drills ever run
    Faults,       \* which failures the environment may produce
    SameWindow    \* migrate and open are served by one process (the window)

ASSUME ConstantsOK ==
    /\ MaxEdits \in Nat \ {0}
    /\ MaxDrills \in Nat
    /\ NoName \notin Archives \cup {"source", "final", "staging"}
    /\ Archives \cap {"source", "final", "staging"} = {}
    /\ Faults \subseteq {"crash", "reboot", "storage"}
    /\ SameWindow \in BOOLEAN

Tree == [Notes -> 0..MaxEdits]
Empty == [n \in Notes |-> 0]
Present(tree) == {n \in Notes : tree[n] # 0}

Places == {"source", "final", "staging"} \cup Archives

\* STEP_ORDER; "none" is a journal that is not there yet.
Rank == [none |-> 0, PRECHECK |-> 1, CREATE |-> 2, COPY |-> 3, VERIFY_TREE |-> 4,
         VERIFY_SIZES |-> 5, VERIFY_HASHES |-> 6, VERIFY_APP |-> 7, CLOSE_APP |-> 8,
         RELOCK |-> 9, REMOUNT |-> 10, REVERIFY |-> 11, CUTOVER_BEGIN |-> 12,
         CUTOVER_VERIFY |-> 13, CUTOVER_MOUNTED |-> 14, COMPLETE |-> 15]
Steps == DOMAIN Rank
Journal == [last : Steps, archive : Archives \cup {NoName}]

VARIABLES
    inPlace,   \* --source is the profile's mount path
    beside,    \* sa_cli lock or migrate-recover, which take no mutex, run beside it
    exists,    \* the directories that exist, of source, final and archives
    holds,     \* what each directory holds on the ordinary disk
    vol,       \* what the encrypted volume holds
    at,        \* where the volume is mounted
    opened,    \* the migrating process has the vault open itself
    writer,    \* the unmanaged application is running on the source
    proof,     \* the manifest in the readiness record
    drills,    \* how many drills have run
    edits,     \* the newest version written
    journal,   \* migration-<profile>.json
    mem,       \* the journal in the Migrator's memory
    pc,        \* where the run stands
    todo,      \* the files the present walk has still to visit
    verified   \* auxiliary: what REVERIFY last hashed on the plaintext side

disk == <<exists, holds, vol, at>>
env == <<inPlace, beside, opened, writer, proof, drills, edits>>
vars == <<disk, env, journal, mem, pc, todo, verified>>

Working == {"precheck", "create", "copy", "copying", "tree", "hash", "app", "relock",
            "remount", "retree", "rehash", "cutover", "vacate", "rename", "claim",
            "prove", "publish", "published", "finish"}

TypeOK ==
    /\ inPlace \in BOOLEAN /\ beside \in BOOLEAN /\ opened \in BOOLEAN /\ writer \in BOOLEAN
    /\ exists \subseteq Places
    /\ holds \in [Places -> Tree]
    /\ vol \in Tree /\ proof \in Tree /\ verified \in Tree
    /\ at \subseteq {"source", "final", "staging"}
    /\ drills \in 0..MaxDrills
    /\ edits \in 1..MaxEdits
    /\ journal \in Journal /\ mem \in Journal
    /\ pc \in Working \cup {"idle", "restore", "restored", "end"}
    /\ todo \subseteq Notes

Init ==
    /\ inPlace \in BOOLEAN /\ beside \in BOOLEAN
    /\ exists = {"source"}
    /\ holds = [p \in Places |-> [n \in Notes |-> IF p = "source" THEN 1 ELSE 0]]
    /\ vol = Empty /\ at = {} /\ opened = FALSE
    /\ writer = FALSE /\ proof = Empty /\ drills = 0 /\ edits = 1
    /\ journal = [last |-> "none", archive |-> NoName]
    /\ mem = journal /\ pc = "idle" /\ todo = {} /\ verified = Empty

-----------------------------------------------------------------------------
\* Helpers.

Final == IF inPlace THEN "source" ELSE "final"

\* What a walk of p sees: the volume when it is mounted there.
Seen(p) == IF p \in at THEN vol ELSE holds[p]

\* Invoke-UnlockMount takes a new access path only if nothing is in its way.
\* Mutant: at the real path the check of ClaimFinal is good enough.
MountableAsClaimed(p) == p \in at \/ p = Final \/ holds[p] = Empty
Mountable(p) == p \in at \/ holds[p] = Empty

Reached(step) == Rank[mem.last] >= Rank[step]

\* MigrationJournal.mark, save.
Write(j) == journal' = j /\ mem' = j
Mark(step) == Write([mem EXCEPT !.last = step])

\* What run() does with any exception: the journal is saved as it stands.
\* Mutant: the run ends where it failed.
FailNamed == pc' = "failed" /\ Write(mem)
Fail == pc' = "end" /\ Write(mem)

\* os.rename(source, archive) and back; the directory that is renamed onto is
\* not there, or is empty and removed first.
MoveAside(a) ==
    /\ exists' = (exists \ {"source"}) \cup {a}
    /\ holds' = [holds EXCEPT ![a] = holds["source"], !["source"] = Empty]
MoveBack(a) ==
    /\ exists' = (exists \ {a}) \cup {Final}
    /\ holds' = [holds EXCEPT ![Final] = holds[a], ![a] = Empty]

-----------------------------------------------------------------------------
\* The user, other programs, and failures.

WriterStarts ==
    /\ ~writer
    /\ "source" \in exists
    /\ writer' = TRUE
    /\ UNCHANGED <<disk, inPlace, beside, opened, proof, drills, edits, journal, mem, pc, todo, verified>>

WriterExits ==
    /\ writer
    /\ writer' = FALSE
    /\ UNCHANGED <<disk, inPlace, beside, opened, proof, drills, edits, journal, mem, pc, todo, verified>>

\* The unmanaged application saves or deletes a note in the source directory.
WriterSaves(n) ==
    /\ writer
    /\ "source" \in exists /\ "source" \notin at
    /\ \/ /\ edits < MaxEdits
          /\ edits' = edits + 1
          /\ holds' = [holds EXCEPT !["source"][n] = edits + 1]
       \/ /\ holds["source"][n] # 0
          /\ holds' = [holds EXCEPT !["source"][n] = 0]
          /\ UNCHANGED edits
    /\ UNCHANGED <<exists, vol, at, inPlace, beside, opened, writer, proof, drills,
                   journal, mem, pc, todo, verified>>

\* create_recovery_readiness_proof, with a drill that succeeds.
Drill ==
    /\ drills < MaxDrills
    /\ "source" \in exists
    /\ drills' = drills + 1
    /\ proof' = Seen("source")
    /\ UNCHANGED <<disk, inPlace, beside, opened, writer, edits, journal, mem, pc, todo, verified>>

\* SecureBroker.open, which knows nothing of migrations, and its application.
OpenVault ==
    /\ pc = "idle"
    /\ at = {}
    /\ Mountable(Final)
    /\ at' = {Final}
    /\ exists' = exists \cup {Final}
    /\ opened' = SameWindow
    /\ UNCHANGED <<holds, vol, inPlace, beside, writer, proof, drills, edits, journal, mem, pc, todo, verified>>

VaultSaves(n) ==
    /\ Final \in at
    /\ edits < MaxEdits
    /\ edits' = edits + 1
    /\ vol' = [vol EXCEPT ![n] = edits + 1]
    /\ UNCHANGED <<exists, holds, at, inPlace, beside, opened, writer, proof, drills,
                   journal, mem, pc, todo, verified>>

\* A relock, between two runs or by a command that takes no mutex: sa_cli lock,
\* and migrate-recover, whose broker relocks when it shuts down.
VaultDetached ==
    /\ pc = "idle" \/ beside
    /\ at # {}
    /\ at' = {}
    /\ opened' = FALSE
    /\ UNCHANGED <<exists, holds, vol, inPlace, beside, writer, proof, drills, edits,
                   journal, mem, pc, todo, verified>>

Forget == pc' = "idle" /\ todo' = {} /\ mem' = [last |-> "none", archive |-> NoName]

Crash ==
    /\ "crash" \in Faults
    /\ pc # "idle"
    /\ Forget
    /\ opened' = FALSE
    /\ UNCHANGED <<disk, inPlace, beside, writer, proof, drills, edits, journal, verified>>

Reboot ==
    /\ "reboot" \in Faults
    /\ Forget
    /\ at' = {} /\ opened' = FALSE /\ writer' = FALSE
    /\ UNCHANGED <<exists, holds, vol, inPlace, beside, proof, drills, edits, journal, verified>>

-----------------------------------------------------------------------------
\* migrate() up to Migrator.run: the readiness gate, reconcile, the key.

\* Mutant: the record is there, its manifest is not compared.
ReadyOnRecord == "source" \in exists /\ drills > 0
Ready == "source" \in exists /\ drills > 0 /\ Seen("source") = proof

\* A volume that is mounted by nobody this process knows is
\* RECOVERY_REQUIRED, and authenticate_only refuses.
Begin(restart) ==
    /\ pc = "idle"
    /\ Ready
    /\ mem' = journal
    /\ \/ pc' = "end"
       \/ /\ at = {} \/ opened
          /\ pc' = IF restart \/ journal.last = "none" THEN "precheck" ELSE "create"
    /\ UNCHANGED <<disk, env, journal, todo, verified>>

\* relock_after_migration: lock_now, which may fail and say so.
End ==
    /\ pc = "end"
    /\ Forget
    /\ \/ at' = {}
       \/ "storage" \in Faults /\ UNCHANGED at
    /\ opened' = FALSE
    /\ UNCHANGED <<exists, holds, vol, inPlace, beside, writer, proof, drills, edits, journal, verified>>

-----------------------------------------------------------------------------
\* Migrator.run.

\* A step refuses or breaks: a helper or file error, a key that is not
\* touched, an application that does not close or does not launch.
StepFails ==
    /\ pc \in Working
    /\ \/ "storage" \in Faults
       \/ pc \in {"copy", "app", "cutover", "rename"} /\ writer
    /\ \/ Fail
       \/ pc = "app" /\ Mark("VERIFY_APP") /\ pc' = "end"
    /\ UNCHANGED <<disk, env, todo, verified>>

Precheck ==
    /\ pc = "precheck"
    /\ IF Seen("source") = Empty
         THEN Fail
         ELSE Mark("PRECHECK") /\ pc' = "create"
    /\ UNCHANGED <<disk, env, todo, verified>>

\* Mutant: a run that resumes after CREATE does not ask the backend.
StagedByJournal == Reached("CREATE")
Staged == Reached("CREATE") /\ at # {}

CreateDestination ==
    /\ pc = "create"
    /\ IF Staged
         THEN pc' = "copy" /\ UNCHANGED <<at, journal, mem>>
         ELSE IF Seen("staging") = Empty
           THEN at' = at \cup {"staging"} /\ Mark("CREATE") /\ pc' = "copy"
           ELSE Fail /\ UNCHANGED at
    /\ UNCHANGED <<exists, holds, vol, env, todo, verified>>

\* copy_tree, unless the journal says it is done: quiesce_source, the walk.
CopyBegins ==
    /\ pc = "copy"
    /\ IF Reached("COPY")
         THEN pc' = "tree" /\ UNCHANGED <<writer, todo>>
         ELSE pc' = "copying" /\ writer' = FALSE /\ todo' = Notes
    /\ UNCHANGED <<disk, inPlace, beside, opened, proof, drills, edits, journal, mem, verified>>

CopyFile(n) ==
    LET version == Seen("source")[n]
    IN  /\ pc = "copying"
        /\ n \in todo
        /\ todo' = todo \ {n}
        /\ IF version = 0
             THEN UNCHANGED <<vol, holds>>
             ELSE IF "staging" \in at
               THEN vol' = [vol EXCEPT ![n] = version] /\ UNCHANGED holds
               ELSE holds' = [holds EXCEPT !["staging"][n] = version] /\ UNCHANGED vol
        /\ UNCHANGED <<exists, at, env, journal, mem, pc, verified>>

CopyEnds ==
    /\ pc = "copying"
    /\ todo = {}
    /\ Mark("COPY")
    /\ pc' = "tree"
    /\ UNCHANGED <<disk, env, todo, verified>>

\* verify_tree and verify_sizes, on one scan of each side.  Trees that differ
\* in content may differ in size.
VerifyTree ==
    /\ pc \in {"tree", "retree"}
    /\ \/ /\ Present(Seen("source")) # Present(Seen("staging"))
          /\ Fail
          /\ UNCHANGED todo
       \/ /\ Present(Seen("source")) = Present(Seen("staging"))
          /\ Seen("source") # Seen("staging")
          /\ Mark("VERIFY_TREE") /\ pc' = "end"
          /\ UNCHANGED todo
       \/ /\ Present(Seen("source")) = Present(Seen("staging"))
          /\ Mark("VERIFY_SIZES")
          /\ todo' = Present(Seen("source"))
          /\ pc' = IF pc = "tree" THEN "hash" ELSE "rehash"
    /\ UNCHANGED <<disk, env, verified>>

\* Mutant: sizes suffice.
SameSize(n) == Seen("source")[n] # 0 /\ Seen("staging")[n] # 0
SameBytes(n) == Seen("source")[n] # 0 /\ Seen("staging")[n] = Seen("source")[n]

\* verify_hashes over the files of the scan, one file at a time.
HashFile(n) ==
    /\ pc \in {"hash", "rehash"}
    /\ n \in todo
    /\ IF SameBytes(n)
         THEN /\ todo' = todo \ {n}
              /\ verified' = IF pc = "rehash"
                               THEN [verified EXCEPT ![n] = Seen("source")[n]] ELSE verified
              /\ UNCHANGED <<pc, journal, mem>>
         ELSE Fail /\ UNCHANGED <<todo, verified>>
    /\ UNCHANGED <<disk, env>>

HashesMatch ==
    /\ pc \in {"hash", "rehash"}
    /\ todo = {}
    /\ IF pc = "hash"
         THEN Mark("VERIFY_HASHES") /\ pc' = "app"
         ELSE Mark("REVERIFY") /\ pc' = "cutover"
    /\ UNCHANGED <<disk, env, todo, verified>>

\* verify_app, or its two marks alone; the application may write to the copy.
VerifyApp ==
    /\ pc = "app"
    /\ Mark("CLOSE_APP")
    /\ pc' = "relock"
    /\ \/ UNCHANGED <<vol, edits>>
       \/ /\ ~writer /\ "staging" \in at /\ edits < MaxEdits
          /\ edits' = edits + 1
          /\ \E n \in Notes : vol' = [vol EXCEPT ![n] = edits + 1]
    /\ UNCHANGED <<exists, holds, at, inPlace, beside, opened, writer, proof, drills, todo, verified>>

Relock ==
    /\ pc = "relock"
    /\ at' = {}
    /\ Mark("RELOCK")
    /\ pc' = "remount"
    /\ UNCHANGED <<exists, holds, vol, env, todo, verified>>

Remount ==
    /\ pc = "remount"
    /\ IF Mountable("staging")
         THEN at' = {"staging"} /\ Mark("REMOUNT") /\ pc' = "retree"
         ELSE Fail /\ UNCHANGED at
    /\ UNCHANGED <<exists, holds, vol, env, todo, verified>>

-----------------------------------------------------------------------------
\* cutover(), one action per thing it does to the disk.

\* quiesce_source; the journal names the archive before the rename.
CutoverBegins ==
    /\ pc = "cutover"
    /\ writer' = FALSE
    /\ \E a \in IF inPlace THEN Archives ELSE {NoName} :
          Write([last |-> "CUTOVER_BEGIN", archive |-> a])
    /\ pc' = "vacate"
    /\ UNCHANGED <<disk, inPlace, beside, opened, proof, drills, edits, todo, verified>>

Vacate ==
    /\ pc = "vacate"
    /\ at' = {}
    /\ pc' = "rename"
    /\ UNCHANGED <<exists, holds, vol, env, journal, mem, todo, verified>>

RenameSource ==
    /\ pc = "rename"
    /\ IF mem.archive = NoName
         THEN pc' = "claim" /\ UNCHANGED <<exists, holds, journal, mem>>
         ELSE IF mem.archive \in exists \/ "source" \notin exists
           THEN Fail /\ UNCHANGED <<exists, holds>>
           ELSE MoveAside(mem.archive) /\ pc' = "claim" /\ UNCHANGED <<journal, mem>>
    /\ UNCHANGED <<vol, at, env, todo, verified>>

ClaimFinal ==
    /\ pc = "claim"
    /\ exists' = exists \cup {Final}
    /\ IF Seen(Final) = Empty
         THEN pc' = "prove" /\ UNCHANGED <<journal, mem>>
         ELSE Fail
    /\ UNCHANGED <<holds, vol, at, env, todo, verified>>

\* _verify_archive_against_destination: the staging directory is walked after
\* the volume has left it.
ProveArchive ==
    LET archived == holds[mem.archive]
    IN  /\ pc = "prove"
        /\ IF mem.archive = NoName
             THEN pc' = "publish" /\ UNCHANGED <<journal, mem>>
             ELSE IF \A n \in Present(archived) : Seen("staging")[n] = archived[n]
               THEN pc' = "publish" /\ Mark("CUTOVER_VERIFY")
               ELSE pc' = "restore" /\ UNCHANGED <<journal, mem>>
        /\ UNCHANGED <<disk, env, todo, verified>>

\* _restore_archive: the name goes back unless something is in its way.
RestoreArchive ==
    /\ pc = "restore"
    /\ IF mem.archive \in exists /\ Seen(Final) = Empty
         THEN MoveBack(mem.archive) /\ pc' = "restored" /\ UNCHANGED <<journal, mem>>
         ELSE Fail /\ UNCHANGED <<exists, holds>>
    /\ UNCHANGED <<vol, at, env, todo, verified>>

ArchiveRestored ==
    /\ pc = "restored"
    /\ Write([mem EXCEPT !.archive = NoName])
    /\ pc' = "end"
    /\ UNCHANGED <<disk, env, todo, verified>>

Publish ==
    /\ pc = "publish"
    /\ IF Mountable(Final)
         THEN at' = {Final} /\ pc' = "published" /\ UNCHANGED <<journal, mem>>
         ELSE Fail /\ UNCHANGED at
    /\ UNCHANGED <<exists, holds, vol, env, todo, verified>>

Published ==
    /\ pc = "published"
    /\ Mark("CUTOVER_MOUNTED")
    /\ pc' = "finish"
    /\ UNCHANGED <<disk, env, todo, verified>>

Finish ==
    /\ pc = "finish"
    /\ Mark("COMPLETE")
    /\ pc' = "end"
    /\ UNCHANGED <<disk, env, todo, verified>>

-----------------------------------------------------------------------------
\* recover(), for a journal that stopped inside the cutover: from the window,
\* which does nothing beside it, or from sa_cli migrate-recover.

InCutover(j) == j.last \in {"CUTOVER_BEGIN", "CUTOVER_VERIFY", "CUTOVER_MOUNTED"}

\* The volume is at the real path: the journal catches up.
RecoverCompletes ==
    /\ pc = "idle" \/ beside
    /\ InCutover(journal)
    /\ Final \in at
    /\ journal' = [journal EXCEPT !.last = "COMPLETE"]
    /\ UNCHANGED <<disk, env, mem, pc, todo, verified>>

\* _rollback_archive; the process may die between the rename and the mark.
RecoverRollsBack ==
    /\ pc = "idle" \/ beside
    /\ InCutover(journal)
    /\ at = {}
    /\ journal.archive \in exists
    /\ holds[Final] = Empty
    /\ MoveBack(journal.archive)
    /\ \/ journal' = [last |-> "REVERIFY", archive |-> NoName]
       \/ "crash" \in Faults /\ UNCHANGED journal
    /\ UNCHANGED <<vol, at, env, mem, pc, todo, verified>>

-----------------------------------------------------------------------------

Run ==
    \/ StepFails \/ Precheck \/ CreateDestination \/ CopyBegins \/ CopyEnds
    \/ VerifyTree \/ HashesMatch \/ VerifyApp \/ Relock \/ Remount
    \/ \E n \in Notes : CopyFile(n) \/ HashFile(n)

Cutover ==
    \/ CutoverBegins \/ Vacate \/ RenameSource \/ ClaimFinal \/ ProveArchive
    \/ RestoreArchive \/ ArchiveRestored \/ Publish \/ Published \/ Finish

Next ==
    \/ WriterStarts \/ WriterExits \/ Drill \/ OpenVault \/ VaultDetached
    \/ \E n \in Notes : WriterSaves(n) \/ VaultSaves(n)
    \/ Crash \/ Reboot
    \/ \E restart \in BOOLEAN : Begin(restart)
    \/ End \/ Run \/ Cutover \/ RecoverCompletes \/ RecoverRollsBack

Spec == Init /\ [][Next]_vars

-----------------------------------------------------------------------------
\* Properties.

\* Whatever crashes, plaintext that has left its path is at a name the durable
\* journal records, in a journal that recover() does not take for one from
\* before the cutover.  Needs a readiness record of a vault that was not empty,
\* which is not renewed once the cutover began.
ArchiveIsNamed ==
    proof # Empty =>
        \A a \in Archives :
            holds[a] # Empty =>
                journal.archive = a /\ (InCutover(journal) \/ journal.last = "COMPLETE")

\* The walk that copies the notes writes into the encrypted volume, never into
\* an ordinary directory, also when a run resumes after a crash.  Needs the
\* vault not to be open in the process that migrates, and no command beside it.
CopyGoesIntoTheVault == ~beside /\ pc = "copying" => "staging" \in at

\* The volume is never mounted over plaintext, which would hide it: not when
\* recover() puts the archive back beside a migration that is about to publish.
NothingHidden == \A p \in at : holds[p] = Empty

\* A migration that is called complete has every note that the plaintext side
\* still holds as REVERIFY saw it, at that version or a later one.  Needs
\* that no command runs beside it: a detached volume compares as an empty tree.
CompleteCopy ==
    [][~beside /\ journal.last # "COMPLETE" /\ journal'.last = "COMPLETE"
       => LET plain == IF inPlace /\ journal.archive # NoName
                         THEN holds[journal.archive] ELSE holds["source"]
          IN  \A n \in Present(plain) :
                 plain[n] = verified[n] => vol[n] >= plain[n]]_vars

-----------------------------------------------------------------------------
\* What the documents say and the code does not do, stated for the record: TLC
\* refutes each when it is added to a configuration, and no run includes them.

\* "comparing the ARCHIVE ... against the encrypted destination in full": an
\* archive the volume holds byte for byte passes.
FaithfulCopyCutsOver ==
    [][pc = "prove" /\ mem.archive # NoName /\ holds[mem.archive] = vol
       => pc' # "restore"]_vars

\* "Before the cutover the plaintext still owns its path".
UntouchedBeforeCutover ==
    Rank[journal.last] < Rank["CUTOVER_BEGIN"] =>
        \A a \in Archives : holds[a] = Empty

\* "It copies from the plaintext path into a staging mount", whoever runs beside:
\* no note is ever in the ordinary directory under the mount.
CopiedIntoAStagingMount == holds["staging"] = Empty

=============================================================================
