------------------------ MODULE VaultMigrationProofs ------------------------
(***************************************************************************)
(* Theorems about VaultMigration and about the page SetupTruth computes     *)
(* from it, for every set of notes and of archive names, every bound and    *)
(* every set of faults, from ConstantsOK alone unless a theorem says more.  *)
(***************************************************************************)
EXTENDS SetupTruth, TLAPS

-----------------------------------------------------------------------------
\* What the helpers return.

\* The step names of the journal.
LEMMA StepNames ==
    /\ {"none", "PRECHECK", "CREATE", "COPY", "VERIFY_TREE", "VERIFY_SIZES", "VERIFY_HASHES",
        "VERIFY_APP", "CLOSE_APP", "RELOCK", "REMOUNT", "REVERIFY", "CUTOVER_BEGIN",
        "CUTOVER_VERIFY", "CUTOVER_MOUNTED", "COMPLETE"} = Steps
  BY DEF Steps, Rank

\* A tree without notes is a tree.
LEMMA EmptyIsTree == Empty \in Tree
  BY ConstantsOK DEF Empty, Tree

\* A note that is written or deleted leaves a tree.
LEMMA TreeUpdate ==
    ASSUME NEW t \in Tree, NEW n \in Notes, NEW version \in 0..MaxEdits
    PROVE  [t EXCEPT ![n] = version] \in Tree
  BY DEF Tree

\* A version that is read from a tree is one that was written.
LEMMA TreeVersion ==
    ASSUME NEW t \in Tree, NEW n \in Notes
    PROVE  t[n] \in 0..MaxEdits
  BY DEF Tree

\* A walk returns a tree, of the volume or of a directory.
LEMMA SeenIsTree ==
    ASSUME TypeOK, NEW p \in Places
    PROVE  Seen(p) \in Tree
  BY DEF TypeOK, Seen

\* The real path is a place, and not the name of an archive.
LEMMA FinalIsPlace == Final \in {"source", "final"} /\ Final \in Places
  BY DEF Final, Places

\* What the journal records is no place when it records no archive.
LEMMA NoNameIsNoPlace == NoName \notin Places
  BY ConstantsOK DEF Places

\* A journal that is marked stays a journal.
LEMMA MarkType ==
    ASSUME NEW step \in Steps, mem \in Journal, Mark(step)
    PROVE  journal' \in Journal /\ mem' \in Journal
  BY DEF Mark, Write, Journal

\* A run that fails keeps what it knew of the journal.
LEMMA FailType ==
    ASSUME mem \in Journal, Fail
    PROVE  journal' \in Journal /\ mem' \in Journal /\ pc' = "end"
  BY DEF Fail, Write

\* A process that is gone knows nothing.
LEMMA ForgetType ==
    ASSUME Forget
    PROVE  mem' \in Journal /\ pc' = "idle" /\ todo' \subseteq Notes
  BY StepNames DEF Forget, Journal

\* A rename keeps the shape of the directories.
LEMMA MoveType ==
    ASSUME TypeOK, NEW a \in Archives, MoveAside(a) \/ MoveBack(a)
    PROVE  exists' \subseteq Places /\ holds' \in [Places -> Tree]
  <1>1. a \in Places /\ "source" \in Places  BY DEF Places
  <1>2. CASE MoveAside(a)
    BY <1>1, <1>2, EmptyIsTree DEF MoveAside, TypeOK
  <1>3. CASE MoveBack(a)
    BY <1>1, <1>3, EmptyIsTree, FinalIsPlace DEF MoveBack, TypeOK
  <1>. QED  BY <1>2, <1>3

\* A walk visits notes.
LEMMA PresentAreNotes == \A tree : Present(tree) \subseteq Notes
  BY DEF Present

\* A note that is written to or deleted from a directory leaves directories.
LEMMA HoldsUpdate ==
    ASSUME TypeOK, NEW p \in Places, NEW n \in Notes, NEW version \in 0..MaxEdits
    PROVE  [holds EXCEPT ![p][n] = version] \in [Places -> Tree]
  <1>1. holds[p] \in Tree
    BY DEF TypeOK
  <1>2. [holds[p] EXCEPT ![n] = version] \in Tree
    BY <1>1, TreeUpdate
  <1>. QED  BY <1>2 DEF TypeOK

-----------------------------------------------------------------------------
\* Type correctness.

LEMMA TypeStep ==
    ASSUME TypeOK, [Next]_vars
    PROVE  TypeOK'
  <1>1. CASE WriterStarts
    BY <1>1 DEF TypeOK, WriterStarts, disk
  <1>2. CASE WriterExits
    BY <1>2 DEF TypeOK, WriterExits, disk
  <1>3. CASE Drill
    BY <1>3, SeenIsTree, ConstantsOK DEF TypeOK, Drill, disk, Places
  <1>4. CASE OpenVault
    BY <1>4, FinalIsPlace, ConstantsOK DEF TypeOK, OpenVault
  <1>5. CASE VaultDetached
    BY <1>5 DEF TypeOK, VaultDetached
  <1>6. CASE Crash
    BY <1>6, ForgetType DEF TypeOK, Crash, disk
  <1>7. CASE Reboot
    BY <1>7, ForgetType DEF TypeOK, Reboot
  <1>8. CASE End
    BY <1>8, ForgetType DEF TypeOK, End
  <1>9. CASE StepFails
    BY <1>9, StepNames, MarkType, FailType DEF TypeOK, StepFails, disk, env
  <1>10. CASE Precheck
    BY <1>10, StepNames, MarkType, FailType DEF TypeOK, Precheck, disk, env, Working
  <1>11. CASE CreateDestination
    BY <1>11, StepNames, MarkType, FailType DEF TypeOK, CreateDestination, env, Working
  <1>12. CASE CopyBegins
    BY <1>12 DEF TypeOK, CopyBegins, disk, Working
  <1>13. CASE CopyEnds
    BY <1>13, StepNames, MarkType DEF TypeOK, CopyEnds, disk, env, Working
  <1>14. CASE VerifyTree
    <2>1. todo' \subseteq Notes
      BY <1>14, PresentAreNotes DEF VerifyTree, TypeOK
    <2>2. journal' \in Journal /\ mem' \in Journal
      BY <1>14, StepNames, MarkType, FailType DEF VerifyTree, TypeOK
    <2>3. pc' \in Working \cup {"end"}
      BY <1>14 DEF VerifyTree, Fail, Working
    <2>. QED  BY <1>14, <2>1, <2>2, <2>3 DEF TypeOK, VerifyTree, disk, env
  <1>15. CASE HashesMatch
    BY <1>15, StepNames, MarkType DEF TypeOK, HashesMatch, disk, env, Working
  <1>16. CASE VerifyApp
    <2>1. vol' \in Tree /\ edits' \in 1..MaxEdits
      <3>1. CASE UNCHANGED <<vol, edits>>
        BY <3>1 DEF TypeOK
      <3>2. ASSUME NEW n \in Notes, edits < MaxEdits, edits' = edits + 1,
                   vol' = [vol EXCEPT ![n] = edits + 1]
            PROVE  vol' \in Tree /\ edits' \in 1..MaxEdits
        <4>1. edits + 1 \in 1..MaxEdits /\ edits + 1 \in 0..MaxEdits
          BY <3>2, ConstantsOK DEF TypeOK
        <4>. QED  BY <3>2, <4>1, TreeUpdate DEF TypeOK
      <3>. QED  BY <1>16, <3>1, <3>2 DEF VerifyApp
    <2>2. journal' \in Journal /\ mem' \in Journal
      BY <1>16, StepNames, MarkType DEF VerifyApp, TypeOK
    <2>. QED  BY <1>16, <2>1, <2>2 DEF TypeOK, VerifyApp, Working
  <1>17. CASE Relock
    BY <1>17, StepNames, MarkType DEF TypeOK, Relock, env, Working
  <1>18. CASE Remount
    BY <1>18, StepNames, MarkType, FailType DEF TypeOK, Remount, env, Working
  <1>19. CASE CutoverBegins
    <2>1. journal' \in Journal /\ mem' \in Journal
      BY <1>19, StepNames DEF CutoverBegins, Write, Journal
    <2>. QED  BY <1>19, <2>1 DEF TypeOK, CutoverBegins, disk, Working
  <1>20. CASE Vacate
    BY <1>20 DEF TypeOK, Vacate, env, Working
  <1>21. CASE RenameSource
    <2>1. mem.archive \in Archives \cup {NoName}
      BY DEF TypeOK, Journal
    <2>2. exists' \subseteq Places /\ holds' \in [Places -> Tree]
      BY <1>21, <2>1, MoveType DEF RenameSource, TypeOK
    <2>3. journal' \in Journal /\ mem' \in Journal /\ pc' \in {"claim", "end"}
      BY <1>21, FailType DEF RenameSource, TypeOK
    <2>. QED  BY <1>21, <2>2, <2>3 DEF TypeOK, RenameSource, env, Working
  <1>22. CASE ClaimFinal
    BY <1>22, FinalIsPlace, FailType DEF TypeOK, ClaimFinal, env, Working
  <1>23. CASE ProveArchive
    BY <1>23, StepNames, MarkType DEF TypeOK, ProveArchive, disk, env, Working
  <1>24. CASE RestoreArchive
    <2>1. mem.archive \in Archives \cup {NoName} /\ NoName \notin exists
      BY ConstantsOK, NoNameIsNoPlace DEF TypeOK, Journal
    <2>2. exists' \subseteq Places /\ holds' \in [Places -> Tree]
      BY <1>24, <2>1, MoveType DEF RestoreArchive, TypeOK
    <2>3. journal' \in Journal /\ mem' \in Journal /\ pc' \in {"restored", "end"}
      BY <1>24, FailType DEF RestoreArchive, TypeOK
    <2>. QED  BY <1>24, <2>2, <2>3 DEF TypeOK, RestoreArchive, env, Working
  <1>25. CASE ArchiveRestored
    <2>1. journal' \in Journal /\ mem' \in Journal
      BY <1>25 DEF ArchiveRestored, Write, Journal, TypeOK
    <2>. QED  BY <1>25, <2>1 DEF TypeOK, ArchiveRestored, disk, env
  <1>26. CASE Publish
    BY <1>26, FinalIsPlace, FailType DEF TypeOK, Publish, env, Working
  <1>27. CASE Published
    BY <1>27, StepNames, MarkType DEF TypeOK, Published, disk, env, Working
  <1>28. CASE Finish
    BY <1>28, StepNames, MarkType DEF TypeOK, Finish, disk, env, Working
  <1>29. CASE RecoverCompletes
    <2>1. journal' \in Journal
      BY <1>29, StepNames DEF RecoverCompletes, Journal, TypeOK
    <2>. QED  BY <1>29, <2>1 DEF TypeOK, RecoverCompletes, disk, env
  <1>30. CASE RecoverRollsBack
    <2>1. journal.archive \in Archives \cup {NoName} /\ NoName \notin exists
      BY ConstantsOK, NoNameIsNoPlace DEF TypeOK, Journal
    <2>2. exists' \subseteq Places /\ holds' \in [Places -> Tree]
      BY <1>30, <2>1, MoveType DEF RecoverRollsBack
    <2>3. journal' \in Journal
      BY <1>30, StepNames DEF RecoverRollsBack, Journal, TypeOK
    <2>. QED  BY <1>30, <2>2, <2>3 DEF TypeOK, RecoverRollsBack, env
  <1>31. ASSUME NEW n \in Notes, WriterSaves(n)  PROVE TypeOK'
    <2>1. "source" \in Places
      BY DEF Places
    <2>2. CASE edits < MaxEdits /\ edits' = edits + 1 /\ holds' = [holds EXCEPT !["source"][n] = edits + 1]
      <3>1. edits + 1 \in 1..MaxEdits /\ edits + 1 \in 0..MaxEdits
        BY <2>2, ConstantsOK DEF TypeOK
      <3>. QED  BY <1>31, <2>1, <2>2, <3>1, HoldsUpdate DEF TypeOK, WriterSaves
    <2>3. CASE holds' = [holds EXCEPT !["source"][n] = 0] /\ UNCHANGED edits
      <3>1. 0 \in 0..MaxEdits
        BY ConstantsOK
      <3>. QED  BY <1>31, <2>1, <2>3, <3>1, HoldsUpdate DEF TypeOK, WriterSaves
    <2>. QED  BY <1>31, <2>2, <2>3 DEF WriterSaves
  <1>32. ASSUME NEW n \in Notes, VaultSaves(n)  PROVE TypeOK'
    <2>1. edits + 1 \in 1..MaxEdits /\ edits + 1 \in 0..MaxEdits
      BY <1>32, ConstantsOK DEF TypeOK, VaultSaves
    <2>2. vol' \in Tree
      BY <1>32, <2>1, TreeUpdate DEF TypeOK, VaultSaves
    <2>. QED  BY <1>32, <2>1, <2>2 DEF TypeOK, VaultSaves
  <1>33. ASSUME NEW n \in Notes, CopyFile(n)  PROVE TypeOK'
    <2>. DEFINE version == Seen("source")[n]
    <2>1. version \in 0..MaxEdits
      BY SeenIsTree, TreeVersion DEF Places
    <2>2. holds' \in [Places -> Tree] /\ vol' \in Tree
      <3>1. CASE vol' = [vol EXCEPT ![n] = version] /\ UNCHANGED holds
        BY <2>1, <3>1, TreeUpdate DEF TypeOK
      <3>2. CASE holds' = [holds EXCEPT !["staging"][n] = version] /\ UNCHANGED vol
        BY <2>1, <3>2, HoldsUpdate DEF TypeOK, Places
      <3>3. CASE UNCHANGED <<vol, holds>>
        BY <3>3 DEF TypeOK
      <3>. QED  BY <1>33, <3>1, <3>2, <3>3 DEF CopyFile
    <2>. QED  BY <1>33, <2>2 DEF TypeOK, CopyFile, env
  <1>34. ASSUME NEW n \in Notes, HashFile(n)  PROVE TypeOK'
    BY <1>34, ConstantsOK, SeenIsTree, TreeUpdate, TreeVersion, StepNames, FailType
       DEF TypeOK, HashFile, disk, env, Working, Places
  <1>35. ASSUME NEW restart \in BOOLEAN, Begin(restart)  PROVE TypeOK'
    BY <1>35 DEF TypeOK, Begin, disk, env, Working
  <1>36. CASE UNCHANGED vars
    BY <1>36 DEF TypeOK, vars, disk, env
  <1>. QED
    BY Zenon, <1>1, <1>2, <1>3, <1>4, <1>5, <1>6, <1>7, <1>8, <1>9, <1>10, <1>11, <1>12, <1>13,
       <1>14, <1>15, <1>16, <1>17, <1>18, <1>19, <1>20, <1>21, <1>22, <1>23, <1>24, <1>25,
       <1>26, <1>27, <1>28, <1>29, <1>30, <1>31, <1>32, <1>33, <1>34, <1>35, <1>36 DEF Next,
       Run, Cutover

\* The first state is well typed.
LEMMA TypeInit == Init => TypeOK
  <1>. SUFFICES ASSUME Init  PROVE TypeOK
    OBVIOUS
  <1>1. [n \in Notes |-> 1] \in Tree /\ [n \in Notes |-> 0] \in Tree
    BY ConstantsOK DEF Tree
  <1>2. holds \in [Places -> Tree]
    BY <1>1 DEF Init
  <1>3. journal \in Journal /\ mem \in Journal
    BY StepNames DEF Init, Journal
  <1>4. exists \subseteq Places /\ edits \in 1..MaxEdits /\ drills \in 0..MaxDrills
    BY ConstantsOK DEF Init, Places
  <1>. QED
    BY <1>2, <1>3, <1>4, EmptyIsTree DEF Init, TypeOK

\* No step of a run, of a recovery or of a crash leaves a tree that is not one, a
\* journal that is not one, or a directory that is not of the migration.
THEOREM TypeCorrect == Spec => []TypeOK
  BY TypeInit, TypeStep, PTL DEF Spec

-----------------------------------------------------------------------------
\* CopyGoesIntoTheVault.  The copy asks nothing of the volume; what makes it
\* right is decided when the run begins and when it resumes.

CopyInv ==
    /\ opened = FALSE
    /\ pc \in {"precheck", "create"} => at = {}
    /\ ~beside /\ pc \in {"copy", "copying"} => "staging" \in at

\* CopyInv is inductive when the vault is not open in the migrating process.
LEMMA CopyStep ==
    ASSUME ~SameWindow, CopyInv, [Next]_vars
    PROVE  CopyInv'
  <1>1. CASE WriterStarts
    BY <1>1 DEF CopyInv, WriterStarts, disk
  <1>2. CASE WriterExits
    BY <1>2 DEF CopyInv, WriterExits, disk
  <1>3. CASE Drill
    BY <1>3 DEF CopyInv, Drill, disk
  <1>4. CASE OpenVault
    BY <1>4 DEF CopyInv, OpenVault
  <1>5. CASE VaultDetached
    BY <1>5 DEF CopyInv, VaultDetached
  <1>6. CASE Crash
    BY <1>6 DEF CopyInv, Crash, disk, Forget
  <1>7. CASE Reboot
    BY <1>7 DEF CopyInv, Reboot, Forget
  <1>8. CASE End
    BY <1>8 DEF CopyInv, End, Forget
  <1>9. CASE StepFails
    BY <1>9 DEF CopyInv, StepFails, disk, env, Fail
  <1>10. CASE Precheck
    BY <1>10 DEF CopyInv, Precheck, disk, env, Fail
  <1>11. CASE CreateDestination
    BY <1>11 DEF CopyInv, CreateDestination, env, Fail, Staged
  <1>12. CASE CopyBegins
    BY <1>12 DEF CopyInv, CopyBegins, disk
  <1>13. CASE CopyEnds
    BY <1>13 DEF CopyInv, CopyEnds, disk, env
  <1>14. CASE VerifyTree
    BY <1>14 DEF CopyInv, VerifyTree, disk, env, Fail
  <1>15. CASE HashesMatch
    BY <1>15 DEF CopyInv, HashesMatch, disk, env
  <1>16. CASE VerifyApp
    BY <1>16 DEF CopyInv, VerifyApp
  <1>17. CASE Relock
    BY <1>17 DEF CopyInv, Relock, env
  <1>18. CASE Remount
    BY <1>18 DEF CopyInv, Remount, env, Fail
  <1>19. CASE CutoverBegins
    BY <1>19 DEF CopyInv, CutoverBegins, disk
  <1>20. CASE Vacate
    BY <1>20 DEF CopyInv, Vacate, env
  <1>21. CASE RenameSource
    BY <1>21 DEF CopyInv, RenameSource, env, Fail
  <1>22. CASE ClaimFinal
    BY <1>22 DEF CopyInv, ClaimFinal, env, Fail
  <1>23. CASE ProveArchive
    BY <1>23 DEF CopyInv, ProveArchive, disk, env
  <1>24. CASE RestoreArchive
    BY <1>24 DEF CopyInv, RestoreArchive, env, Fail
  <1>25. CASE ArchiveRestored
    BY <1>25 DEF CopyInv, ArchiveRestored, disk, env
  <1>26. CASE Publish
    BY <1>26 DEF CopyInv, Publish, env, Fail
  <1>27. CASE Published
    BY <1>27 DEF CopyInv, Published, disk, env
  <1>28. CASE Finish
    BY <1>28 DEF CopyInv, Finish, disk, env
  <1>29. CASE RecoverCompletes
    BY <1>29 DEF CopyInv, RecoverCompletes, disk, env
  <1>30. CASE RecoverRollsBack
    BY <1>30 DEF CopyInv, RecoverRollsBack, env
  <1>31. ASSUME NEW n \in Notes, WriterSaves(n)  PROVE CopyInv'
    BY <1>31 DEF CopyInv, WriterSaves
  <1>32. ASSUME NEW n \in Notes, VaultSaves(n)  PROVE CopyInv'
    BY <1>32 DEF CopyInv, VaultSaves
  <1>33. ASSUME NEW n \in Notes, CopyFile(n)  PROVE CopyInv'
    BY <1>33 DEF CopyInv, CopyFile, env
  <1>34. ASSUME NEW n \in Notes, HashFile(n)  PROVE CopyInv'
    BY <1>34 DEF CopyInv, HashFile, disk, env, Fail
  <1>35. ASSUME NEW restart \in BOOLEAN, Begin(restart)  PROVE CopyInv'
    BY <1>35 DEF CopyInv, Begin, disk, env
  <1>36. CASE UNCHANGED vars
    BY <1>36 DEF CopyInv, vars, disk, env
  <1>. QED
    BY Zenon, <1>1, <1>2, <1>3, <1>4, <1>5, <1>6, <1>7, <1>8, <1>9, <1>10, <1>11, <1>12, <1>13,
       <1>14, <1>15, <1>16, <1>17, <1>18, <1>19, <1>20, <1>21, <1>22, <1>23, <1>24, <1>25,
       <1>26, <1>27, <1>28, <1>29, <1>30, <1>31, <1>32, <1>33, <1>34, <1>35, <1>36 DEF Next,
       Run, Cutover

\* Whatever crashes and resumes, notes are copied into the mounted volume and never
\* into the ordinary directory under it, when the vault is not open in the process
\* that migrates and no command runs beside it.
THEOREM NotesStayEncrypted ==
    ASSUME ~SameWindow
    PROVE  Spec => []CopyGoesIntoTheVault
  <1>1. Init => CopyInv
    BY DEF Init, CopyInv
  <1>2. CopyInv /\ [Next]_vars => CopyInv'
    BY CopyStep
  <1>3. CopyInv => CopyGoesIntoTheVault
    BY DEF CopyInv, CopyGoesIntoTheVault
  <1>. QED  BY <1>1, <1>2, <1>3, PTL DEF Spec

-----------------------------------------------------------------------------
\* NothingHidden.  The plaintext changes its name only while the volume is
\* mounted nowhere, and the volume asks before it takes a directory.

HiddenInv ==
    /\ TypeOK
    /\ NothingHidden
    /\ pc \in {"rename", "claim", "prove", "restore", "restored", "publish"} => at = {}

\* HiddenInv is inductive.
LEMMA HiddenStep ==
    ASSUME HiddenInv, [Next]_vars
    PROVE  HiddenInv'
  <1>. DEFINE Bare == pc \in {"rename", "claim", "prove", "restore", "restored", "publish"} => at = {}
  <1>. TypeOK'
    BY TypeStep DEF HiddenInv
  <1>. SUFFICES NothingHidden' /\ Bare'
    BY DEF HiddenInv
  <1>. NothingHidden /\ Bare
    BY DEF HiddenInv
  <1>1. CASE WriterStarts
    BY <1>1 DEF WriterStarts, disk, NothingHidden
  <1>2. CASE WriterExits
    BY <1>2 DEF WriterExits, disk, NothingHidden
  <1>3. CASE Drill
    BY <1>3 DEF Drill, disk, NothingHidden
  <1>4. CASE OpenVault
    BY <1>4 DEF OpenVault, NothingHidden, Mountable
  <1>5. CASE VaultDetached
    BY <1>5 DEF VaultDetached, NothingHidden
  <1>6. CASE Crash
    BY <1>6 DEF Crash, disk, Forget, NothingHidden
  <1>7. CASE Reboot
    BY <1>7 DEF Reboot, Forget, NothingHidden
  <1>8. CASE End
    BY <1>8 DEF End, Forget, NothingHidden
  <1>9. CASE StepFails
    BY <1>9 DEF StepFails, disk, env, Fail, NothingHidden
  <1>10. CASE Precheck
    BY <1>10 DEF Precheck, disk, env, Fail, NothingHidden
  <1>11. CASE CreateDestination
    BY <1>11 DEF CreateDestination, env, Fail, NothingHidden, Staged, Seen
  <1>12. CASE CopyBegins
    BY <1>12 DEF CopyBegins, disk, NothingHidden
  <1>13. CASE CopyEnds
    BY <1>13 DEF CopyEnds, disk, env, NothingHidden
  <1>14. CASE VerifyTree
    BY <1>14 DEF VerifyTree, disk, env, Fail, NothingHidden
  <1>15. CASE HashesMatch
    BY <1>15 DEF HashesMatch, disk, env, NothingHidden
  <1>16. CASE VerifyApp
    BY <1>16 DEF VerifyApp, NothingHidden
  <1>17. CASE Relock
    BY <1>17 DEF Relock, env, NothingHidden
  <1>18. CASE Remount
    BY <1>18 DEF Remount, env, Fail, NothingHidden, Mountable
  <1>19. CASE CutoverBegins
    BY <1>19 DEF CutoverBegins, disk, NothingHidden
  <1>20. CASE Vacate
    BY <1>20 DEF Vacate, env, NothingHidden
  <1>21. CASE RenameSource
    <2>1. at = {} /\ at' = {} /\ pc' \in {"claim", "end"}
      BY <1>21 DEF RenameSource, Fail
    <2>. QED  BY <2>1 DEF NothingHidden
  <1>22. CASE ClaimFinal
    BY <1>22 DEF ClaimFinal, env, Fail, NothingHidden
  <1>23. CASE ProveArchive
    BY <1>23 DEF ProveArchive, disk, env, NothingHidden
  <1>24. CASE RestoreArchive
    <2>1. at = {} /\ at' = {}
      BY <1>24 DEF RestoreArchive
    <2>. QED  BY <2>1 DEF NothingHidden
  <1>25. CASE ArchiveRestored
    BY <1>25 DEF ArchiveRestored, disk, env, NothingHidden
  <1>26. CASE Publish
    BY <1>26 DEF Publish, env, Fail, NothingHidden, Mountable
  <1>27. CASE Published
    BY <1>27 DEF Published, disk, env, NothingHidden
  <1>28. CASE Finish
    BY <1>28 DEF Finish, disk, env, NothingHidden
  <1>29. CASE RecoverCompletes
    BY <1>29 DEF RecoverCompletes, disk, env, NothingHidden
  <1>30. CASE RecoverRollsBack
    <2>1. at = {} /\ at' = {}
      BY <1>30 DEF RecoverRollsBack
    <2>. QED  BY <2>1 DEF NothingHidden
  <1>31. ASSUME NEW n \in Notes, WriterSaves(n)  PROVE NothingHidden' /\ Bare'
    <2>1. \A p \in at : p # "source"
      BY <1>31 DEF WriterSaves
    <2>2. \A p \in at : holds'[p] = holds[p]
      BY <1>31, <2>1 DEF WriterSaves, HiddenInv, TypeOK, Places
    <2>. QED  BY <1>31, <2>2 DEF WriterSaves, NothingHidden
  <1>32. ASSUME NEW n \in Notes, VaultSaves(n)  PROVE NothingHidden' /\ Bare'
    BY <1>32 DEF VaultSaves, NothingHidden
  <1>33. ASSUME NEW n \in Notes, CopyFile(n)  PROVE NothingHidden' /\ Bare'
    <2>1. \A p \in at : holds'[p] = holds[p]
      BY <1>33 DEF CopyFile, HiddenInv, TypeOK, Places
    <2>. QED  BY <1>33, <2>1 DEF CopyFile, NothingHidden
  <1>34. ASSUME NEW n \in Notes, HashFile(n)  PROVE NothingHidden' /\ Bare'
    BY <1>34 DEF HashFile, disk, env, Fail, NothingHidden
  <1>35. ASSUME NEW restart \in BOOLEAN, Begin(restart)  PROVE NothingHidden' /\ Bare'
    BY <1>35 DEF Begin, disk, env, NothingHidden
  <1>36. CASE UNCHANGED vars
    BY <1>36 DEF vars, disk, env, NothingHidden
  <1>. HIDE DEF Bare
  <1>. QED
    BY Zenon, <1>1, <1>2, <1>3, <1>4, <1>5, <1>6, <1>7, <1>8, <1>9, <1>10, <1>11, <1>12, <1>13,
       <1>14, <1>15, <1>16, <1>17, <1>18, <1>19, <1>20, <1>21, <1>22, <1>23, <1>24, <1>25,
       <1>26, <1>27, <1>28, <1>29, <1>30, <1>31, <1>32, <1>33, <1>34, <1>35, <1>36 DEF Next,
       Run, Cutover

\* The volume is never mounted over plaintext: no crash, and no recovery beside a
\* run, puts notes into a directory that the volume then covers.
THEOREM PlaintextIsNeverHidden == Spec => []NothingHidden
  <1>1. Init => HiddenInv
    BY TypeInit DEF Init, HiddenInv, NothingHidden
  <1>2. HiddenInv /\ [Next]_vars => HiddenInv'
    BY HiddenStep
  <1>3. HiddenInv => NothingHidden
    BY DEF HiddenInv
  <1>. QED  BY <1>1, <1>2, <1>3, PTL DEF Spec
-----------------------------------------------------------------------------
\* ArchiveIsNamed.  An archive appears in one step only, the rename; the journal
\* names it since the step before.  What remains is that no later run overwrites
\* that journal while the archive is there: Begin compares the emptied path with
\* the manifest of the drill, and whatever is written there is newer.

\* No tree holds a version that was not written.
Versions ==
    \A n \in Notes :
        vol[n] <= edits /\ proof[n] <= edits /\ \A p \in Places : holds[p][n] <= edits

\* The archives there are.
Aside == exists \cap Archives

\* Without a drill nothing has happened.
NotYet == drills = 0 => proof = Empty /\ pc = "idle" /\ Aside = {}

HeldIfThere == \A a \in Archives : a \notin exists => holds[a] = Empty

\* Until the source is renamed the volume is at the staging path or nowhere.
Away ==
    /\ opened = FALSE
    /\ pc \in {"precheck", "create"} => at = {}
    /\ pc \in {"copy", "copying", "tree", "hash", "app", "relock", "remount", "retree",
               "rehash", "cutover", "vacate", "rename"} => at \subseteq {"staging"}

Named(j, a) == j.archive = a /\ (InCutover(j) \/ j.last = "COMPLETE")

BeforeRename == {"precheck", "create", "copy", "copying", "tree", "hash", "app", "relock",
                 "remount", "retree", "rehash", "cutover", "vacate", "rename", "restored"}
AfterRename == {"claim", "prove", "restore", "publish", "published", "finish"}

Tracked ==
    /\ \A a \in Aside : Named(journal, a)
    /\ Aside # {} => \A n \in Notes : holds["source"][n] # 0 => holds["source"][n] > proof[n]
    /\ pc \in BeforeRename => Aside = {}
    /\ pc \in {"vacate", "rename"} => mem = journal /\ mem.last = "CUTOVER_BEGIN"
    /\ pc \in AfterRename => \A a \in Aside : Named(mem, a)

ArchiveInv ==
    /\ TypeOK
    /\ Versions
    /\ NotYet
    /\ HeldIfThere
    /\ Away
    /\ proof # Empty => Tracked

\* The steps that change what a directory, the volume or the record holds.
LEMMA DiskChanges ==
    ASSUME [Next]_vars
    PROVE  \/ UNCHANGED <<exists, holds, vol, proof, edits>>
           \/ Drill \/ OpenVault \/ VerifyApp \/ RenameSource \/ ClaimFinal
           \/ RestoreArchive \/ RecoverRollsBack
           \/ \E n \in Notes : WriterSaves(n) \/ VaultSaves(n) \/ CopyFile(n)
  <1>. DEFINE Same == UNCHANGED <<exists, holds, vol, proof, edits>>
  <1>1. WriterStarts => Same
    BY DEF WriterStarts, disk
  <1>2. WriterExits => Same
    BY DEF WriterExits, disk
  <1>3. VaultDetached => Same
    BY DEF VaultDetached
  <1>4. Crash => Same
    BY DEF Crash, disk
  <1>5. Reboot => Same
    BY DEF Reboot
  <1>6. End => Same
    BY DEF End
  <1>7. StepFails => Same
    BY DEF StepFails, disk, env
  <1>8. Precheck => Same
    BY DEF Precheck, disk, env
  <1>9. CreateDestination => Same
    BY DEF CreateDestination, env
  <1>10. CopyBegins => Same
    BY DEF CopyBegins, disk
  <1>11. CopyEnds => Same
    BY DEF CopyEnds, disk, env
  <1>12. VerifyTree => Same
    BY DEF VerifyTree, disk, env
  <1>13. HashesMatch => Same
    BY DEF HashesMatch, disk, env
  <1>14. Relock => Same
    BY DEF Relock, env
  <1>15. Remount => Same
    BY DEF Remount, env
  <1>16. CutoverBegins => Same
    BY DEF CutoverBegins, disk
  <1>17. Vacate => Same
    BY DEF Vacate, env
  <1>18. ProveArchive => Same
    BY DEF ProveArchive, disk, env
  <1>19. ArchiveRestored => Same
    BY DEF ArchiveRestored, disk, env
  <1>20. Publish => Same
    BY DEF Publish, env
  <1>21. Published => Same
    BY DEF Published, disk, env
  <1>22. Finish => Same
    BY DEF Finish, disk, env
  <1>23. RecoverCompletes => Same
    BY DEF RecoverCompletes, disk, env
  <1>24. ASSUME NEW n \in Notes, HashFile(n)  PROVE Same
    BY <1>24 DEF HashFile, disk, env
  <1>25. ASSUME NEW restart \in BOOLEAN, Begin(restart)  PROVE Same
    BY <1>25 DEF Begin, disk, env
  <1>26. UNCHANGED vars => Same
    BY DEF vars, disk, env
  <1>. HIDE DEF Same
  <1>27. \/ Same \/ Drill \/ OpenVault \/ VerifyApp \/ RenameSource \/ ClaimFinal
        \/ RestoreArchive \/ RecoverRollsBack
        \/ \E n \in Notes : WriterSaves(n) \/ VaultSaves(n) \/ CopyFile(n)
    BY Zenon, <1>1, <1>2, <1>3, <1>4, <1>5, <1>6, <1>7, <1>8, <1>9, <1>10, <1>11, <1>12, <1>13,
       <1>14, <1>15, <1>16, <1>17, <1>18, <1>19, <1>20, <1>21, <1>22, <1>23, <1>24, <1>25, <1>26
       DEF Next, Run, Cutover
  <1>. QED  BY Zenon, <1>27 DEF Same

\* An operation on versions keeps to the versions that were written.
LEMMA VersionsStep ==
    ASSUME TypeOK, Versions, [Next]_vars
    PROVE  Versions'
  <1>1. edits \in Nat /\ "source" \in Places /\ "staging" \in Places
    BY ConstantsOK DEF TypeOK, Places
  <1>2. \A p \in Places, n \in Notes : Seen(p)[n] <= edits
    BY DEF Versions, Seen
  <1>3. \A n \in Notes : Empty[n] = 0
    BY DEF Empty
  <1>4. CASE UNCHANGED <<exists, holds, vol, proof, edits>>
    BY <1>4 DEF Versions
  <1>5. CASE Drill
    BY <1>5, <1>1, <1>2 DEF Drill, disk, Versions
  <1>6. CASE OpenVault
    BY <1>6 DEF OpenVault, Versions
  <1>7. CASE VerifyApp
    <2>1. CASE UNCHANGED <<vol, edits>>
      BY <1>7, <2>1 DEF VerifyApp, Versions
    <2>2. ASSUME NEW k \in Notes, edits' = edits + 1, vol' = [vol EXCEPT ![k] = edits + 1]
          PROVE  Versions'
      <3>1. \A n \in Notes : vol'[n] <= edits'
        BY <1>1, <2>2 DEF Versions, TypeOK, Tree
      <3>2. \A n \in Notes : proof[n] <= edits' /\ \A p \in Places : holds[p][n] <= edits'
        BY <1>1, <2>2 DEF Versions, TypeOK, Tree
      <3>. QED  BY <1>7, <3>1, <3>2 DEF VerifyApp, Versions
    <2>. QED  BY <1>7, <2>1, <2>2 DEF VerifyApp
  <1>8. ASSUME NEW a \in Archives, MoveAside(a) \/ MoveBack(a), UNCHANGED <<vol, proof, edits>>
        PROVE  Versions'
    <2>1. a \in Places
      BY DEF Places
    <2>2. \A p \in Places : holds'[p] = Empty \/ \E q \in Places : holds'[p] = holds[q]
      BY <1>1, <1>8, <2>1, FinalIsPlace DEF MoveAside, MoveBack, TypeOK
    <2>3. \A p \in Places, n \in Notes : holds'[p][n] <= edits
      BY <1>1, <1>3, <2>2 DEF Versions
    <2>. QED  BY <1>8, <2>3 DEF Versions
  <1>9. CASE RenameSource
    <2>1. mem.archive \in Archives \cup {NoName}
      BY DEF TypeOK, Journal
    <2>2. CASE UNCHANGED <<exists, holds>>
      BY <1>9, <2>2 DEF RenameSource, env, Versions
    <2>3. CASE mem.archive # NoName /\ MoveAside(mem.archive)
      BY <1>8, <1>9, <2>1, <2>3 DEF RenameSource, env
    <2>. QED  BY <1>9, <2>2, <2>3 DEF RenameSource
  <1>10. CASE ClaimFinal
    BY <1>10 DEF ClaimFinal, env, Versions
  <1>11. CASE RestoreArchive
    <2>1. mem.archive \in Archives \cup {NoName} /\ NoName \notin exists
      BY NoNameIsNoPlace DEF TypeOK, Journal
    <2>2. CASE UNCHANGED <<exists, holds>>
      BY <1>11, <2>2 DEF RestoreArchive, env, Versions
    <2>3. CASE mem.archive \in exists /\ MoveBack(mem.archive)
      BY <1>8, <1>11, <2>1, <2>3 DEF RestoreArchive, env
    <2>. QED  BY <1>11, <2>2, <2>3 DEF RestoreArchive
  <1>12. CASE RecoverRollsBack
    <2>1. journal.archive \in Archives \cup {NoName} /\ NoName \notin exists
      BY NoNameIsNoPlace DEF TypeOK, Journal
    <2>. QED  BY <1>8, <1>12, <2>1 DEF RecoverRollsBack, env
  <1>13. ASSUME NEW k \in Notes, WriterSaves(k)  PROVE Versions'
    <2>1. edits' \in Nat /\ edits <= edits'
      BY <1>1, <1>13 DEF WriterSaves
    <2>2. \A p \in Places, n \in Notes : holds'[p][n] = holds[p][n] \/ holds'[p][n] <= edits'
      <3>1. CASE edits' = edits + 1 /\ holds' = [holds EXCEPT !["source"][k] = edits + 1]
        <4>1. \A p \in Places, n \in Notes : holds'[p][n] = edits + 1 \/ holds'[p][n] = holds[p][n]
          BY <1>1, <3>1 DEF TypeOK, Tree
        <4>2. edits + 1 <= edits'
          BY <1>1, <3>1
        <4>. QED  BY <4>1, <4>2
      <3>2. CASE holds' = [holds EXCEPT !["source"][k] = 0] /\ UNCHANGED edits
        <4>1. \A p \in Places, n \in Notes : holds'[p][n] = 0 \/ holds'[p][n] = holds[p][n]
          BY <1>1, <3>2 DEF TypeOK, Tree
        <4>2. 0 <= edits'
          BY <1>1, <3>2
        <4>. QED  BY <4>1, <4>2
      <3>. QED  BY <1>13, <3>1, <3>2 DEF WriterSaves
    <2>4. \A p \in Places, n \in Notes : holds[p][n] <= edits'
      BY <1>1, <2>1 DEF Versions, TypeOK, Tree
    <2>3. \A n \in Notes : vol[n] <= edits' /\ proof[n] <= edits'
      BY <1>1, <2>1 DEF Versions, TypeOK, Tree
    <2>. QED  BY <1>13, <2>2, <2>3, <2>4 DEF WriterSaves, Versions
  <1>14. ASSUME NEW k \in Notes, VaultSaves(k)  PROVE Versions'
    <2>1. \A n \in Notes : vol'[n] <= edits'
      BY <1>1, <1>14 DEF VaultSaves, Versions, TypeOK, Tree
    <2>2. \A n \in Notes : proof[n] <= edits' /\ \A p \in Places : holds[p][n] <= edits'
      BY <1>1, <1>14 DEF VaultSaves, Versions, TypeOK, Tree
    <2>. QED  BY <1>14, <2>1, <2>2 DEF VaultSaves, Versions
  <1>15. ASSUME NEW k \in Notes, CopyFile(k)  PROVE Versions'
    <2>. DEFINE version == Seen("source")[k]
    <2>1. version <= edits
      BY <1>1, <1>2
    <2>. HIDE DEF version
    <2>2. CASE vol' = [vol EXCEPT ![k] = version] /\ UNCHANGED holds
      BY <1>15, <2>1, <2>2 DEF CopyFile, env, Versions, TypeOK, Tree
    <2>3. CASE holds' = [holds EXCEPT !["staging"][k] = version] /\ UNCHANGED vol
      BY <1>1, <1>15, <2>1, <2>3 DEF CopyFile, env, Versions, TypeOK, Tree
    <2>4. CASE UNCHANGED <<vol, holds>>
      BY <1>15, <2>4 DEF CopyFile, env, Versions
    <2>. QED  BY <1>15, <2>2, <2>3, <2>4 DEF CopyFile, version
  <1>. QED
    BY Zenon, DiskChanges, <1>4, <1>5, <1>6, <1>7, <1>9, <1>10, <1>11, <1>12, <1>13, <1>14, <1>15

\* A directory that is not there holds nothing.
LEMMA HeldStep ==
    ASSUME TypeOK, HeldIfThere, [Next]_vars
    PROVE  HeldIfThere'
  <1>1. Archives \subseteq Places /\ "source" \notin Archives /\ "staging" \notin Archives
    BY ConstantsOK DEF Places
  <1>2. Final \in Places /\ Final \notin Archives
    BY ConstantsOK, FinalIsPlace
  <1>3. CASE UNCHANGED <<exists, holds>>
    BY <1>3 DEF HeldIfThere
  <1>4. CASE exists' = exists \cup {Final} /\ UNCHANGED holds
    BY <1>4 DEF HeldIfThere
  <1>5. ASSUME NEW a \in Archives, MoveAside(a)  PROVE HeldIfThere'
    BY <1>1, <1>5 DEF MoveAside, HeldIfThere, TypeOK
  <1>6. ASSUME NEW a \in Archives, MoveBack(a)  PROVE HeldIfThere'
    BY <1>1, <1>2, <1>6 DEF MoveBack, HeldIfThere, TypeOK
  <1>7. CASE RenameSource
    <2>1. mem.archive \in Archives \cup {NoName}
      BY DEF TypeOK, Journal
    <2>. QED  BY <1>3, <1>5, <1>7, <2>1 DEF RenameSource
  <1>8. CASE RestoreArchive
    <2>1. mem.archive \in Archives \cup {NoName} /\ NoName \notin exists
      BY NoNameIsNoPlace DEF TypeOK, Journal
    <2>. QED  BY <1>3, <1>6, <1>8, <2>1 DEF RestoreArchive
  <1>9. CASE RecoverRollsBack
    <2>1. journal.archive \in Archives \cup {NoName} /\ NoName \notin exists
      BY NoNameIsNoPlace DEF TypeOK, Journal
    <2>. QED  BY <1>6, <1>9, <2>1 DEF RecoverRollsBack
  <1>10. ASSUME NEW k \in Notes, WriterSaves(k)  PROVE HeldIfThere'
    <2>1. exists' = exists /\ \A a \in Archives : holds'[a] = holds[a]
      BY <1>1, <1>10 DEF WriterSaves, TypeOK
    <2>. QED  BY <2>1 DEF HeldIfThere
  <1>11. ASSUME NEW k \in Notes, CopyFile(k)  PROVE HeldIfThere'
    <2>1. exists' = exists /\ \A a \in Archives : holds'[a] = holds[a]
      BY <1>1, <1>11 DEF CopyFile, TypeOK
    <2>. QED  BY <2>1 DEF HeldIfThere
  <1>12. ASSUME NEW k \in Notes, VaultSaves(k)  PROVE HeldIfThere'
    BY <1>3, <1>12 DEF VaultSaves
  <1>13. CASE Drill
    BY <1>3, <1>13 DEF Drill, disk
  <1>14. CASE VerifyApp
    BY <1>3, <1>14 DEF VerifyApp
  <1>15. CASE OpenVault
    BY <1>4, <1>15 DEF OpenVault
  <1>16. CASE ClaimFinal
    BY <1>4, <1>16 DEF ClaimFinal
  <1>. QED
    BY DiskChanges, <1>3, <1>7, <1>8, <1>9, <1>10, <1>11, <1>12, <1>13, <1>14, <1>15, <1>16

\* The volume is not at the real path before the rename.
LEMMA AwayStep ==
    ASSUME ~SameWindow, Away, [Next]_vars
    PROVE  Away'
  <1>1. CASE WriterStarts
    BY <1>1 DEF Away, WriterStarts, disk
  <1>2. CASE WriterExits
    BY <1>2 DEF Away, WriterExits, disk
  <1>3. CASE Drill
    BY <1>3 DEF Away, Drill, disk
  <1>4. CASE OpenVault
    BY <1>4 DEF Away, OpenVault
  <1>5. CASE VaultDetached
    BY <1>5 DEF Away, VaultDetached
  <1>6. CASE Crash
    BY <1>6 DEF Away, Crash, disk, Forget
  <1>7. CASE Reboot
    BY <1>7 DEF Away, Reboot, Forget
  <1>8. CASE End
    BY <1>8 DEF Away, End, Forget
  <1>9. CASE StepFails
    BY <1>9 DEF Away, StepFails, disk, env, Fail
  <1>10. CASE Precheck
    BY <1>10 DEF Away, Precheck, disk, env, Fail
  <1>11. CASE CreateDestination
    BY <1>11 DEF Away, CreateDestination, env, Fail, Staged
  <1>12. CASE CopyBegins
    BY <1>12 DEF Away, CopyBegins, disk
  <1>13. CASE CopyEnds
    BY <1>13 DEF Away, CopyEnds, disk, env
  <1>14. CASE VerifyTree
    BY <1>14 DEF Away, VerifyTree, disk, env, Fail
  <1>15. CASE HashesMatch
    BY <1>15 DEF Away, HashesMatch, disk, env
  <1>16. CASE VerifyApp
    BY <1>16 DEF Away, VerifyApp
  <1>17. CASE Relock
    BY <1>17 DEF Away, Relock, env
  <1>18. CASE Remount
    BY <1>18 DEF Away, Remount, env, Fail
  <1>19. CASE CutoverBegins
    BY <1>19 DEF Away, CutoverBegins, disk
  <1>20. CASE Vacate
    BY <1>20 DEF Away, Vacate, env
  <1>21. CASE RenameSource
    BY <1>21 DEF Away, RenameSource, env, Fail
  <1>22. CASE ClaimFinal
    BY <1>22 DEF Away, ClaimFinal, env, Fail
  <1>23. CASE ProveArchive
    BY <1>23 DEF Away, ProveArchive, disk, env
  <1>24. CASE RestoreArchive
    BY <1>24 DEF Away, RestoreArchive, env, Fail
  <1>25. CASE ArchiveRestored
    BY <1>25 DEF Away, ArchiveRestored, disk, env
  <1>26. CASE Publish
    BY <1>26 DEF Away, Publish, env, Fail
  <1>27. CASE Published
    BY <1>27 DEF Away, Published, disk, env
  <1>28. CASE Finish
    BY <1>28 DEF Away, Finish, disk, env
  <1>29. CASE RecoverCompletes
    BY <1>29 DEF Away, RecoverCompletes, disk, env
  <1>30. CASE RecoverRollsBack
    BY <1>30 DEF Away, RecoverRollsBack, env
  <1>31. ASSUME NEW n \in Notes, WriterSaves(n)  PROVE Away'
    BY <1>31 DEF Away, WriterSaves
  <1>32. ASSUME NEW n \in Notes, VaultSaves(n)  PROVE Away'
    BY <1>32 DEF Away, VaultSaves
  <1>33. ASSUME NEW n \in Notes, CopyFile(n)  PROVE Away'
    BY <1>33 DEF Away, CopyFile, env
  <1>34. ASSUME NEW n \in Notes, HashFile(n)  PROVE Away'
    BY <1>34 DEF Away, HashFile, disk, env, Fail
  <1>35. ASSUME NEW restart \in BOOLEAN, Begin(restart)  PROVE Away'
    BY <1>35 DEF Away, Begin, disk, env
  <1>36. CASE UNCHANGED vars
    BY <1>36 DEF Away, vars, disk, env
  <1>. QED
    BY Zenon, <1>1, <1>2, <1>3, <1>4, <1>5, <1>6, <1>7, <1>8, <1>9, <1>10, <1>11, <1>12, <1>13,
       <1>14, <1>15, <1>16, <1>17, <1>18, <1>19, <1>20, <1>21, <1>22, <1>23, <1>24, <1>25,
       <1>26, <1>27, <1>28, <1>29, <1>30, <1>31, <1>32, <1>33, <1>34, <1>35, <1>36 DEF Next,
       Run, Cutover
\* Nothing happens before a drill.
LEMMA NotYetStep ==
    ASSUME TypeOK, NotYet, [Next]_vars
    PROVE  NotYet'
  <1>1. SUFFICES ASSUME drills' = 0  PROVE proof' = Empty /\ pc' = "idle" /\ Aside' = {}
    BY DEF NotYet
  <1>2. drills \in Nat
    BY ConstantsOK DEF TypeOK
  <1>3. CASE WriterStarts
    BY <1>1, <1>2, <1>3 DEF NotYet, Aside, WriterStarts, disk
  <1>4. CASE WriterExits
    BY <1>1, <1>2, <1>4 DEF NotYet, Aside, WriterExits, disk
  <1>5. CASE Drill
    BY <1>1, <1>2, <1>5 DEF NotYet, Aside, Drill, disk
  <1>6. CASE OpenVault
    BY <1>1, <1>2, <1>6, FinalIsPlace, ConstantsOK DEF NotYet, Aside, OpenVault
  <1>7. CASE VaultDetached
    BY <1>1, <1>2, <1>7 DEF NotYet, Aside, VaultDetached
  <1>8. CASE Crash
    BY <1>1, <1>2, <1>8 DEF NotYet, Aside, Crash, disk, Forget
  <1>9. CASE Reboot
    BY <1>1, <1>2, <1>9 DEF NotYet, Aside, Reboot, Forget
  <1>10. CASE End
    BY <1>1, <1>2, <1>10 DEF NotYet, Aside, End, Forget
  <1>11. CASE StepFails
    BY <1>1, <1>2, <1>11 DEF NotYet, Aside, StepFails, disk, env, Fail, Working
  <1>12. CASE Precheck
    BY <1>1, <1>2, <1>12 DEF NotYet, Aside, Precheck, disk, env, Fail
  <1>13. CASE CreateDestination
    BY <1>1, <1>2, <1>13 DEF NotYet, Aside, CreateDestination, env, Fail
  <1>14. CASE CopyBegins
    BY <1>1, <1>2, <1>14 DEF NotYet, Aside, CopyBegins, disk
  <1>15. CASE CopyEnds
    BY <1>1, <1>2, <1>15 DEF NotYet, Aside, CopyEnds, disk, env
  <1>16. CASE VerifyTree
    BY <1>1, <1>2, <1>16 DEF NotYet, Aside, VerifyTree, disk, env, Fail
  <1>17. CASE HashesMatch
    BY <1>1, <1>2, <1>17 DEF NotYet, Aside, HashesMatch, disk, env
  <1>18. CASE VerifyApp
    BY <1>1, <1>2, <1>18 DEF NotYet, Aside, VerifyApp
  <1>19. CASE Relock
    BY <1>1, <1>2, <1>19 DEF NotYet, Aside, Relock, env
  <1>20. CASE Remount
    BY <1>1, <1>2, <1>20 DEF NotYet, Aside, Remount, env, Fail
  <1>21. CASE CutoverBegins
    BY <1>1, <1>2, <1>21 DEF NotYet, Aside, CutoverBegins, disk
  <1>22. CASE Vacate
    BY <1>1, <1>2, <1>22 DEF NotYet, Aside, Vacate, env
  <1>23. CASE RenameSource
    BY <1>1, <1>2, <1>23 DEF NotYet, Aside, RenameSource, env, Fail
  <1>24. CASE ClaimFinal
    BY <1>1, <1>2, <1>24 DEF NotYet, Aside, ClaimFinal, env, Fail
  <1>25. CASE ProveArchive
    BY <1>1, <1>2, <1>25 DEF NotYet, Aside, ProveArchive, disk, env
  <1>26. CASE RestoreArchive
    BY <1>1, <1>2, <1>26 DEF NotYet, Aside, RestoreArchive, env, Fail
  <1>27. CASE ArchiveRestored
    BY <1>1, <1>2, <1>27 DEF NotYet, Aside, ArchiveRestored, disk, env
  <1>28. CASE Publish
    BY <1>1, <1>2, <1>28 DEF NotYet, Aside, Publish, env, Fail
  <1>29. CASE Published
    BY <1>1, <1>2, <1>29 DEF NotYet, Aside, Published, disk, env
  <1>30. CASE Finish
    BY <1>1, <1>2, <1>30 DEF NotYet, Aside, Finish, disk, env
  <1>31. CASE RecoverCompletes
    BY <1>1, <1>2, <1>31 DEF NotYet, Aside, RecoverCompletes, disk, env
  <1>32. CASE RecoverRollsBack
    <2>1. journal.archive \in Archives \cup {NoName} /\ NoName \notin exists
      BY NoNameIsNoPlace DEF TypeOK, Journal
    <2>. QED  BY <1>1, <1>32, <2>1 DEF NotYet, Aside, RecoverRollsBack, env
  <1>33. ASSUME NEW n \in Notes, WriterSaves(n)  PROVE proof' = Empty /\ pc' = "idle" /\ Aside' = {}
    BY <1>1, <1>33 DEF NotYet, Aside, WriterSaves
  <1>34. ASSUME NEW n \in Notes, VaultSaves(n)  PROVE proof' = Empty /\ pc' = "idle" /\ Aside' = {}
    BY <1>1, <1>34 DEF NotYet, Aside, VaultSaves
  <1>35. ASSUME NEW n \in Notes, CopyFile(n)  PROVE proof' = Empty /\ pc' = "idle" /\ Aside' = {}
    BY <1>1, <1>35 DEF NotYet, Aside, CopyFile, env
  <1>36. ASSUME NEW n \in Notes, HashFile(n)  PROVE proof' = Empty /\ pc' = "idle" /\ Aside' = {}
    BY <1>1, <1>36 DEF NotYet, Aside, HashFile, disk, env, Fail
  <1>37. ASSUME NEW restart \in BOOLEAN, Begin(restart)  PROVE proof' = Empty /\ pc' = "idle" /\ Aside' = {}
    BY <1>1, <1>2, <1>37 DEF NotYet, Begin, Ready, env
  <1>38. CASE UNCHANGED vars
    BY <1>1, <1>38 DEF NotYet, Aside, vars, disk, env
  <1>. QED
    BY Zenon, <1>3, <1>4, <1>5, <1>6, <1>7, <1>8, <1>9, <1>10, <1>11, <1>12, <1>13, <1>14,
       <1>15, <1>16, <1>17, <1>18, <1>19, <1>20, <1>21, <1>22, <1>23, <1>24, <1>25, <1>26,
       <1>27, <1>28, <1>29, <1>30, <1>31, <1>32, <1>33, <1>34, <1>35, <1>36, <1>37, <1>38 DEF
       Next, Run, Cutover

\* Where there is no archive there is nothing to track.
LEMMA NothingAside ==
    ASSUME Aside' = {}, pc' \notin {"vacate", "rename"}
    PROVE  Tracked'
  BY DEF Tracked

\* Steps that leave names, notes and journal alone.
LEMMA TrackedSame ==
    ASSUME Tracked, UNCHANGED <<exists, holds, proof, journal, mem, pc>>
    PROVE  Tracked'
  BY DEF Tracked, Aside

\* A run or a process that ends leaves the archive to the journal.
LEMMA TrackedAtRest ==
    ASSUME Tracked, pc' \in {"idle", "end"}, UNCHANGED <<holds, proof, journal>>, Aside' = Aside
    PROVE  Tracked'
  BY DEF Tracked, BeforeRename, AfterRename

\* A run that fails after the rename saves a journal that names the archive.
LEMMA TrackedFailed ==
    ASSUME Tracked, pc \in AfterRename, Fail, UNCHANGED <<holds, proof>>, Aside' = Aside
    PROVE  Tracked'
  BY DEF Tracked, BeforeRename, AfterRename, Fail, Write

\* A step of the cutover after the rename; what it marks is of the cutover.
LEMMA TrackedAfter ==
    ASSUME Tracked, pc \in AfterRename, pc' \in AfterRename \cup {"end"},
           UNCHANGED <<holds, proof>>, Aside' = Aside, mem \in Journal,
           \/ UNCHANGED <<journal, mem>>
           \/ \E step \in {"CUTOVER_VERIFY", "CUTOVER_MOUNTED", "COMPLETE"} : Mark(step)
    PROVE  Tracked'
  <1>1. CASE UNCHANGED <<journal, mem>>
    BY <1>1 DEF Tracked, BeforeRename, AfterRename
  <1>2. ASSUME NEW step \in {"CUTOVER_VERIFY", "CUTOVER_MOUNTED", "COMPLETE"}, Mark(step)
        PROVE  Tracked'
    <2>1. \A a \in Aside : Named(mem', a) /\ journal' = mem'
      BY <1>2 DEF Tracked, Named, InCutover, Mark, Write, Journal
    <2>. QED  BY <2>1 DEF Tracked, BeforeRename, AfterRename
  <1>. QED  BY <1>1, <1>2

\* Tracked is kept by every step, given the rest of ArchiveInv.
LEMMA TrackedStep ==
    ASSUME ~SameWindow, MaxDrills <= 1, ArchiveInv, [Next]_vars, proof' # Empty
    PROVE  Tracked'
  <1>0. /\ mem \in Journal /\ journal \in Journal
        /\ mem.archive \in Archives \cup {NoName} /\ journal.archive \in Archives \cup {NoName}
        /\ NoName \notin exists /\ Final \notin Archives /\ Final # "staging"
    BY NoNameIsNoPlace, FinalIsPlace, ConstantsOK DEF ArchiveInv, TypeOK, Journal
  <1>1. CASE Drill
    <2>1. drills = 0
      BY <1>1, ConstantsOK DEF Drill, ArchiveInv, TypeOK
    <2>. QED  BY <1>1, <2>1, NothingAside DEF Drill, disk, Aside, ArchiveInv, NotYet
  <1>2. CASE proof' = proof
    <2>. USE <1>2
    <2>0. Tracked /\ TypeOK /\ Away /\ Versions
      BY DEF ArchiveInv
    <2>1. CASE WriterStarts
      BY <2>1, <2>0, TrackedSame DEF WriterStarts, disk
    <2>2. CASE WriterExits
      BY <2>2, <2>0, TrackedSame DEF WriterExits, disk
    <2>3. CASE VaultDetached
      BY <2>3, <2>0, TrackedSame DEF VaultDetached
    <2>4. ASSUME NEW n \in Notes, VaultSaves(n)  PROVE Tracked'
      BY <2>4, <2>0, TrackedSame DEF VaultSaves
    <2>5. ASSUME NEW n \in Notes, WriterSaves(n)  PROVE Tracked'
      <3>1. \A k \in Notes : holds'["source"][k] # 0 =>
               holds'["source"][k] = holds["source"][k] \/ holds'["source"][k] > proof[k]
        <4>1. "source" \in Places
          BY DEF Places
        <4>2. proof[n] <= edits /\ proof[n] \in Nat /\ edits \in Nat
          BY <2>0, ConstantsOK DEF Versions, TypeOK, Tree
        <4>3. edits + 1 > proof[n]
          BY <4>2
        <4>. QED  BY <2>5, <2>0, <4>1, <4>3 DEF WriterSaves, TypeOK, Tree
      <3>. QED  BY <2>5, <2>0, <3>1 DEF WriterSaves, Tracked, Aside
    <2>6. CASE OpenVault
      <3>1. Aside' = Aside /\ pc = "idle"
        BY <2>6, <1>0 DEF OpenVault, Aside
      <3>. QED  BY <2>6, <2>0, <3>1, TrackedAtRest DEF OpenVault
    <2>7. CASE Crash
      BY <2>7, <2>0, TrackedAtRest DEF Crash, disk, Forget, Aside
    <2>8. CASE Reboot
      BY <2>8, <2>0, TrackedAtRest DEF Reboot, Forget, Aside
    <2>9. CASE End
      BY <2>9, <2>0, TrackedAtRest DEF End, Forget, Aside
    <2>10. ASSUME NEW restart \in BOOLEAN, Begin(restart)  PROVE Tracked'
      <3>1. CASE pc' = "end"
        BY <2>10, <2>0, <3>1, TrackedAtRest DEF Begin, disk, env, Aside
      <3>2. CASE at = {} /\ pc' \in {"precheck", "create"}
        <4>1. holds["source"] = proof
          BY <2>10, <3>2 DEF Begin, Ready, Seen
        <4>2. PICK n \in Notes : proof[n] # 0
          BY <2>0 DEF TypeOK, Tree, Empty
        <4>3. ~(proof[n] > proof[n])
          BY <2>0 DEF TypeOK, Tree
        <4>4. Aside = {}
          BY <2>0, <4>1, <4>2, <4>3 DEF Tracked
        <4>. QED  BY <2>10, <3>2, <4>4, NothingAside DEF Begin, disk, Aside
      <3>. QED  BY <2>10, <2>0, <3>1, <3>2 DEF Begin, Away
    <2>11. CASE StepFails
      <3>1. pc \in BeforeRename \/ pc \in AfterRename
        BY <2>11 DEF StepFails, Working, BeforeRename, AfterRename
      <3>2. CASE pc \in BeforeRename
        BY <2>11, <2>0, <3>2, NothingAside DEF StepFails, Fail, disk, Aside, Tracked
      <3>3. CASE pc \in AfterRename
        <4>1. Fail
          BY <2>11, <3>3 DEF StepFails, AfterRename
        <4>. QED  BY <2>11, <2>0, <3>3, <4>1, TrackedFailed DEF StepFails, disk, env, Aside
      <3>. QED  BY <3>1, <3>2, <3>3
    <2>12. CASE Precheck
      BY <2>12, <2>0, NothingAside DEF Precheck, disk, Fail, Aside, Tracked, BeforeRename
    <2>13. CASE CreateDestination
      BY <2>13, <2>0, NothingAside DEF CreateDestination, Fail, Aside, Tracked, BeforeRename
    <2>14. CASE CopyBegins
      BY <2>14, <2>0, NothingAside DEF CopyBegins, disk, Aside, Tracked, BeforeRename
    <2>15. CASE CopyEnds
      BY <2>15, <2>0, NothingAside DEF CopyEnds, disk, Aside, Tracked, BeforeRename
    <2>16. CASE VerifyTree
      BY <2>16, <2>0, NothingAside DEF VerifyTree, disk, Fail, Aside, Tracked, BeforeRename
    <2>17. CASE HashesMatch
      BY <2>17, <2>0, NothingAside DEF HashesMatch, disk, Aside, Tracked, BeforeRename
    <2>18. CASE VerifyApp
      BY <2>18, <2>0, NothingAside DEF VerifyApp, Aside, Tracked, BeforeRename
    <2>19. CASE Relock
      BY <2>19, <2>0, NothingAside DEF Relock, Aside, Tracked, BeforeRename
    <2>20. CASE Remount
      BY <2>20, <2>0, NothingAside DEF Remount, Fail, Aside, Tracked, BeforeRename
    <2>21. CASE ArchiveRestored
      BY <2>21, <2>0, NothingAside DEF ArchiveRestored, disk, Aside, Tracked, BeforeRename
    <2>22. ASSUME NEW n \in Notes, CopyFile(n)  PROVE Tracked'
      BY <2>22, <2>0, NothingAside DEF CopyFile, Aside, Tracked, BeforeRename
    <2>23. ASSUME NEW n \in Notes, HashFile(n)  PROVE Tracked'
      BY <2>23, <2>0, NothingAside DEF HashFile, disk, Fail, Aside, Tracked, BeforeRename
    <2>24. CASE CutoverBegins
      <3>1. Aside' = {}
        BY <2>24, <2>0 DEF CutoverBegins, disk, Aside, Tracked, BeforeRename
      <3>2. pc' = "vacate" /\ mem' = journal' /\ mem'.last = "CUTOVER_BEGIN"
        BY <2>24 DEF CutoverBegins, Write
      <3>. QED  BY <3>1, <3>2 DEF Tracked, AfterRename
    <2>25. CASE Vacate
      BY <2>25, <2>0 DEF Vacate, env, Aside, Tracked, BeforeRename, AfterRename
    <2>26. CASE RenameSource
      <3>1. Aside = {} /\ mem = journal /\ mem.last = "CUTOVER_BEGIN"
        BY <2>26, <2>0 DEF RenameSource, Tracked, BeforeRename
      <3>2. CASE UNCHANGED <<exists, holds>> /\ pc' \in {"claim", "end"}
        BY <3>1, <3>2, NothingAside DEF Aside
      <3>3. CASE MoveAside(mem.archive) /\ mem.archive \in Archives /\ pc' = "claim" /\ UNCHANGED <<journal, mem>>
        <4>1. Aside' = {mem.archive}
          BY <3>1, <3>3, ConstantsOK DEF MoveAside, Aside
        <4>2. Named(mem, mem.archive)
          BY <3>1 DEF Named, InCutover
        <4>3. holds'["source"] = Empty
          BY <2>0, <3>3 DEF MoveAside, TypeOK, Places
        <4>4. \A n \in Notes : holds'["source"][n] = 0
          BY <4>3 DEF Empty
        <4>. QED  BY <3>1, <3>3, <4>1, <4>2, <4>4 DEF Tracked, BeforeRename
      <3>. QED  BY <2>26, <1>0, <3>2, <3>3 DEF RenameSource, Fail
    <2>27. CASE ClaimFinal
      <3>1. Aside' = Aside
        BY <2>27, <1>0 DEF ClaimFinal, Aside
      <3>2. CASE UNCHANGED <<journal, mem>> /\ pc' = "prove"
        BY <2>27, <1>0, <2>0, <3>1, <3>2, TrackedAfter DEF ClaimFinal, env, AfterRename
      <3>3. CASE Fail
        BY <2>27, <2>0, <3>1, <3>3, TrackedFailed DEF ClaimFinal, env, AfterRename
      <3>. QED  BY <2>27, <3>2, <3>3 DEF ClaimFinal
    <2>28. CASE ProveArchive
      <3>1. pc' \in {"publish", "restore"} /\ (UNCHANGED <<journal, mem>> \/ Mark("CUTOVER_VERIFY"))
        BY <2>28 DEF ProveArchive
      <3>. QED  BY <2>28, <1>0, <2>0, <3>1, TrackedAfter DEF ProveArchive, disk, env, Aside, AfterRename
    <2>29. CASE RestoreArchive
      <3>1. CASE MoveBack(mem.archive) /\ mem.archive \in exists /\ pc' = "restored"
        <4>1. \A a \in Aside : a = mem.archive
          BY <2>29, <2>0 DEF RestoreArchive, Tracked, AfterRename, Named
        <4>2. Aside' = {}
          BY <1>0, <3>1, <4>1 DEF MoveBack, Aside
        <4>. QED  BY <3>1, <4>2, NothingAside
      <3>2. CASE Fail /\ UNCHANGED <<exists, holds>>
        BY <2>29, <2>0, <3>2, TrackedFailed DEF RestoreArchive, env, Aside, AfterRename
      <3>. QED  BY <2>29, <3>1, <3>2 DEF RestoreArchive
    <2>30. CASE Publish
      <3>1. CASE UNCHANGED <<journal, mem>> /\ pc' = "published"
        BY <2>30, <1>0, <2>0, <3>1, TrackedAfter DEF Publish, env, Aside, AfterRename
      <3>2. CASE Fail
        BY <2>30, <2>0, <3>2, TrackedFailed DEF Publish, env, Aside, AfterRename
      <3>. QED  BY <2>30, <3>1, <3>2 DEF Publish
    <2>31. CASE Published
      BY <2>31, <1>0, <2>0, TrackedAfter DEF Published, disk, env, Aside, AfterRename
    <2>32. CASE Finish
      BY <2>32, <1>0, <2>0, TrackedAfter DEF Finish, disk, env, Aside, AfterRename
    <2>33. CASE RecoverCompletes
      <3>1. pc \notin {"vacate", "rename"}
        BY <2>33, <1>0, <2>0 DEF RecoverCompletes, Away
      <3>2. \A a \in Aside : Named(journal', a)
        BY <2>33, <1>0, <2>0 DEF RecoverCompletes, Tracked, Named, Journal
      <3>. QED  BY <2>33, <2>0, <3>1, <3>2 DEF RecoverCompletes, disk, env, Aside, Tracked
    <2>34. CASE RecoverRollsBack
      <3>1. journal.archive \in Aside /\ \A a \in Aside : a = journal.archive
        BY <2>34, <1>0, <2>0 DEF RecoverRollsBack, Tracked, Aside, Named
      <3>2. Aside' = {}
        BY <2>34, <1>0, <3>1 DEF RecoverRollsBack, MoveBack, Aside
      <3>3. pc \notin {"vacate", "rename"}
        BY <2>0, <3>1 DEF Tracked, BeforeRename
      <3>. QED  BY <2>34, <3>2, <3>3, NothingAside DEF RecoverRollsBack
    <2>35. CASE UNCHANGED vars
      BY <2>35, <2>0, TrackedSame DEF vars, disk, env
    <2>36. CASE Drill
      BY <2>36, <1>1
    <2>. QED
      BY Zenon, <2>1, <2>2, <2>3, <2>4, <2>5, <2>6, <2>7, <2>8, <2>9, <2>10, <2>11, <2>12,
         <2>13, <2>14, <2>15, <2>16, <2>17, <2>18, <2>19, <2>20, <2>21, <2>22, <2>23, <2>24,
         <2>25, <2>26, <2>27, <2>28, <2>29, <2>30, <2>31, <2>32, <2>33, <2>34, <2>35, <2>36 DEF
         Next, Run, Cutover
  <1>. QED
    <2>1. Drill \/ VerifyApp \/ proof' = proof
      BY DiskChanges DEF OpenVault, RenameSource, ClaimFinal, RestoreArchive, RecoverRollsBack,
                         WriterSaves, VaultSaves, CopyFile, env
    <2>2. VerifyApp => proof' = proof
      BY DEF VerifyApp
    <2>. QED  BY <1>1, <1>2, <2>1, <2>2

\* The strengthened invariant holds at first.
LEMMA ArchiveInit ==
    ASSUME Init
    PROVE  ArchiveInv
  <1>1. Aside = {}
    BY ConstantsOK DEF Init, Aside
  <1>2. Versions
    <2>1. \A p \in Places, n \in Notes : holds[p][n] = 0 \/ holds[p][n] = 1
      BY DEF Init
    <2>2. edits = 1 /\ \A n \in Notes : vol[n] = 0 /\ proof[n] = 0
      BY DEF Init, Empty
    <2>3. 0 <= edits /\ 1 <= edits
      BY <2>2
    <2>4. \A p \in Places, n \in Notes : holds[p][n] <= edits
      BY <2>1, <2>3
    <2>5. \A n \in Notes : vol[n] <= edits /\ proof[n] <= edits
      BY <2>2, <2>3
    <2>. QED  BY <2>4, <2>5 DEF Versions
  <1>3. HeldIfThere
    BY ConstantsOK DEF Init, HeldIfThere, Empty, Places
  <1>. QED  BY <1>1, <1>2, <1>3, TypeInit DEF Init, ArchiveInv, NotYet, Away

\* Every step keeps it.
LEMMA ArchiveStep ==
    ASSUME ~SameWindow, MaxDrills <= 1, ArchiveInv, [Next]_vars
    PROVE  ArchiveInv'
  <1>1. TypeOK /\ Versions /\ NotYet /\ HeldIfThere /\ Away
    BY DEF ArchiveInv
  <1>2. TypeOK' /\ Versions' /\ NotYet' /\ HeldIfThere' /\ Away'
    BY <1>1, TypeStep, VersionsStep, NotYetStep, HeldStep, AwayStep
  <1>3. proof' # Empty' => Tracked'
    BY TrackedStep DEF Empty
  <1>. QED  BY <1>2, <1>3 DEF ArchiveInv

\* Whatever crashes, and whatever recover() does beside a run, plaintext that has left
\* its path is where the durable journal says and recover() looks for it; with one
\* drill, and without the vault open in the process that migrates.
THEOREM ArchiveStaysNamed ==
    ASSUME ~SameWindow, MaxDrills <= 1
    PROVE  Spec => []ArchiveIsNamed
  <1>1. ArchiveInv => ArchiveIsNamed
    BY DEF ArchiveInv, ArchiveIsNamed, Tracked, HeldIfThere, Aside, Named
  <1>. QED  BY <1>1, ArchiveInit, ArchiveStep, PTL DEF Spec

-----------------------------------------------------------------------------
\* ReadableNotesAreSaid.  The page asks for the source and for the archive that the journal
\* names; so what holds notes must be there, and an archive must be the one that is named.

SourceHeldIfThere == "source" \notin exists => holds["source"] = Empty

ToldInv == ArchiveInv /\ SourceHeldIfThere

\* A source that is not there holds nothing.
LEMMA SourceHeldStep ==
    ASSUME TypeOK, SourceHeldIfThere, [Next]_vars
    PROVE  SourceHeldIfThere'
  <1>1. "source" \in Places /\ "staging" \in Places /\ "source" \notin Archives
    BY ConstantsOK DEF Places
  <1>2. CASE "source" \in exists' \/ (holds'["source"] = holds["source"] /\ exists \subseteq exists')
    BY <1>2 DEF SourceHeldIfThere
  <1>3. ASSUME NEW a \in Archives, MoveAside(a)  PROVE SourceHeldIfThere'
    BY <1>1, <1>3 DEF MoveAside, SourceHeldIfThere, TypeOK
  <1>4. ASSUME NEW a \in Archives, MoveBack(a)  PROVE SourceHeldIfThere'
    <2>1. CASE Final = "source"
      BY <1>4, <2>1 DEF MoveBack, SourceHeldIfThere
    <2>2. CASE Final # "source"
      <3>1. holds'["source"] = holds["source"]
        BY <1>1, <1>4, <2>2, FinalIsPlace DEF MoveBack, TypeOK
      <3>2. "source" \in exists => "source" \in exists'
        BY <1>1, <1>4 DEF MoveBack
      <3>. QED  BY <3>1, <3>2 DEF SourceHeldIfThere
    <2>. QED  BY <2>1, <2>2
  <1>5. CASE UNCHANGED <<exists, holds>>
    BY <1>2, <1>5
  <1>6. CASE exists' = exists \cup {Final} /\ UNCHANGED holds
    BY <1>2, <1>6
  <1>7. CASE RenameSource
    <2>1. mem.archive \in Archives \cup {NoName}
      BY DEF TypeOK, Journal
    <2>. QED  BY <1>3, <1>5, <1>7, <2>1 DEF RenameSource
  <1>8. CASE RestoreArchive
    <2>1. mem.archive \in Archives \cup {NoName} /\ NoName \notin exists
      BY NoNameIsNoPlace DEF TypeOK, Journal
    <2>. QED  BY <1>4, <1>5, <1>8, <2>1 DEF RestoreArchive
  <1>9. CASE RecoverRollsBack
    <2>1. journal.archive \in Archives \cup {NoName} /\ NoName \notin exists
      BY NoNameIsNoPlace DEF TypeOK, Journal
    <2>. QED  BY <1>4, <1>9, <2>1 DEF RecoverRollsBack
  <1>10. ASSUME NEW k \in Notes, WriterSaves(k)  PROVE SourceHeldIfThere'
    BY <1>2, <1>10 DEF WriterSaves
  <1>11. ASSUME NEW k \in Notes, CopyFile(k)  PROVE SourceHeldIfThere'
    <2>1. exists' = exists /\ holds'["source"] = holds["source"]
      BY <1>1, <1>11 DEF CopyFile, TypeOK
    <2>. QED  BY <1>2, <2>1
  <1>12. ASSUME NEW k \in Notes, VaultSaves(k)  PROVE SourceHeldIfThere'
    BY <1>5, <1>12 DEF VaultSaves
  <1>13. CASE Drill
    BY <1>5, <1>13 DEF Drill, disk
  <1>14. CASE VerifyApp
    BY <1>5, <1>14 DEF VerifyApp
  <1>15. CASE OpenVault
    BY <1>6, <1>15 DEF OpenVault
  <1>16. CASE ClaimFinal
    BY <1>6, <1>16 DEF ClaimFinal
  <1>. QED
    BY DiskChanges, <1>5, <1>7, <1>8, <1>9, <1>10, <1>11, <1>12, <1>13, <1>14, <1>15, <1>16

\* An archive that holds notes is the one the journal names, and a walk of it sees them.
LEMMA ArchiveIsSeen ==
    ASSUME ToldInv, proof # Empty, NEW a \in Archives, holds[a] # Empty
    PROVE  /\ a \in exists /\ journal.archive = a /\ a # NoName
           /\ InCutover(journal) \/ journal.last = "COMPLETE"
           /\ Seen(a) # Empty
  <1>1. a \in exists /\ a \in Aside
    BY DEF ToldInv, ArchiveInv, HeldIfThere, Aside
  <1>2. Named(journal, a)
    BY <1>1 DEF ToldInv, ArchiveInv, Tracked
  <1>3. a \notin at /\ a # NoName
    BY ConstantsOK DEF ToldInv, ArchiveInv, TypeOK
  <1>. QED  BY <1>1, <1>2, <1>3 DEF Named, Seen

\* A journal that can be read is of one of the kinds that inspect tells apart.
LEMMA VerdictIs ==
    ASSUME NEW f \in Facts, ~f.damaged
    PROVE  /\ journal.last = "COMPLETE" => Verdict(f) = "COMPLETE"
           /\ journal.last = "none" => Verdict(f) = "NONE"
           /\ journal.last \notin {"COMPLETE", "none"} =>
                Verdict(f) \in {"INTERRUPTED_BEFORE_CUTOVER", "INTERRUPTED_DURING_CUTOVER"}
  BY DEF Verdict, InCutover

\* Whoever asks during or after a migration in place learns where notes lie readable: the
\* setup page offers the folder until the vault has taken over, and names the copy that is
\* left afterwards, through every crash and every recover beside a run.
THEOREM ReadableNotesAreToldOf ==
    ASSUME ~SameWindow, MaxDrills <= 1
    PROVE  Spec => []ReadableNotesAreSaid
  <1>1. Init => ToldInv
    BY ArchiveInit DEF ToldInv, SourceHeldIfThere, Init
  <1>2. ToldInv /\ [Next]_vars => ToldInv'
    <2>. SUFFICES ASSUME ToldInv, [Next]_vars  PROVE ToldInv'
      OBVIOUS
    <2>1. ArchiveInv'
      BY ArchiveStep DEF ToldInv
    <2>2. SourceHeldIfThere'
      BY SourceHeldStep DEF ToldInv, ArchiveInv
    <2>. QED  BY <2>1, <2>2 DEF ToldInv
  <1>3. ToldInv => ReadableNotesAreSaid
    <2>. SUFFICES ASSUME ToldInv, inPlace, proof # Empty, NEW f \in Facts, f.runs, ~f.damaged
                  PROVE  IF journal.last = "COMPLETE"
                         THEN (\E a \in Archives : holds[a] # Empty) => CopyRemains(journal.archive)
                         ELSE (\E p \in {"source"} \cup Archives : holds[p] # Empty) => Offered(f)
      BY DEF ReadableNotesAreSaid
    <2>1. CASE journal.last = "COMPLETE"
      BY <2>1, ArchiveIsSeen DEF CopyRemains
    <2>2. ASSUME journal.last # "COMPLETE", NEW p \in {"source"} \cup Archives, holds[p] # Empty
          PROVE  Offered(f)
      <3>1. p = "source" => "source" \in exists
        BY <2>2 DEF ToldInv, SourceHeldIfThere
      <3>2. p # "source" => p \in exists /\ journal.archive = p /\ InCutover(journal)
        BY <2>2, ArchiveIsSeen
      <3>3. CASE journal.last = "none"
        <4>1. p = "source" /\ Final = "source"
          BY <3>2, <3>3 DEF InCutover, Final
        <4>2. Page(f) = NotMoved(f)
          BY <3>3, VerdictIs DEF Page
        <4>3. Page(f) = Says("SETUP_INCOMPLETE_SOURCE_AVAILABLE", Final, TRUE, TRUE)
          BY <3>1, <4>1, <4>2 DEF NotMoved
        <4>. QED  BY <4>3 DEF Offered, Says
      <3>4. CASE journal.last # "none"
        <4>1. Verdict(f) \in {"INTERRUPTED_BEFORE_CUTOVER", "INTERRUPTED_DURING_CUTOVER"}
          BY <2>2, <3>4, VerdictIs
        <4>2. Page(f) = Interrupted
          BY <4>1 DEF Page
        <4>3. PlaintextPresent
          BY <3>1, <3>2 DEF PlaintextPresent
        <4>. QED  BY <4>2, <4>3 DEF Offered, Interrupted, Says
      <3>. QED  BY <3>3, <3>4
    <2>. QED  BY <2>1, <2>2
  <1>. QED  BY <1>1, <1>2, <1>3, PTL DEF Spec

-----------------------------------------------------------------------------
\* CompleteCopy.  Between the last hash and the mark "complete" nothing takes a note of
\* the vault back to an older version, whoever resumes or recovers.

\* What was verified was written, and was in the vault, which never loses a note.
Known == \A n \in Notes : verified[n] <= edits

\* Every note is in the vault as it was last verified, or later.
Covered == \A n \in Notes : verified[n] <= vol[n]

\* What a run has established for the copy when no command runs beside it.
Proving ==
    /\ \A n \in Notes : verified[n] # 0 => vol[n] # 0
    /\ pc # "idle" => mem = journal
    /\ pc = "copying" => ~InCutover(mem)
    /\ pc \in {"retree", "rehash"} => at = {"staging"}
    /\ pc = "rehash" => mem.last = "VERIFY_SIZES"
    /\ pc = "rehash" => \A n \in Notes \ todo : verified[n] <= vol[n]
    /\ pc \in {"vacate", "rename", "claim", "prove", "restore", "publish", "published", "finish"}
         => InCutover(mem)
    /\ pc = "cutover" \/ InCutover(journal) => Covered

CoveredInv == TypeOK /\ Versions /\ Known /\ (~beside => Proving)

\* A walk of a copy that has not begun is not the one of a cutover.
LEMMA CopyIsEarly == mem \in Journal /\ ~Reached("COPY") => ~InCutover(mem)
  BY DEF Reached, Rank, InCutover

\* A journal that is marked names the step, and both copies agree.
LEMMA MarkIs ==
    ASSUME mem \in Journal, NEW step \in Steps, Mark(step)
    PROVE  mem' = journal' /\ mem'.last = step
  BY DEF Mark, Write, Journal

LEMMA ProvingStep ==
    ASSUME CoveredInv, ~beside, [Next]_vars
    PROVE  Proving'
  <1>. TypeOK /\ Versions /\ Known /\ Proving
    BY DEF CoveredInv
  <1>0. mem \in Journal /\ journal \in Journal /\ vol \in Tree /\ verified \in Tree /\ edits \in Nat
    BY ConstantsOK DEF TypeOK
  <1>1. CASE WriterStarts
    BY <1>0, <1>1 DEF WriterStarts, Proving, Covered, Journal, disk
  <1>2. CASE WriterExits
    BY <1>0, <1>2 DEF WriterExits, Proving, Covered, Journal, disk
  <1>3. CASE Drill
    BY <1>0, <1>3 DEF Drill, Proving, Covered, Journal, disk
  <1>4. CASE OpenVault
    BY <1>0, <1>4 DEF OpenVault, Proving, Covered, Journal
  <1>5. CASE VaultDetached
    BY <1>0, <1>5 DEF VaultDetached, Proving, Covered, Journal
  <1>6. CASE Crash
    BY <1>0, <1>6 DEF Crash, Proving, Covered, Journal, disk, Forget
  <1>7. CASE Reboot
    BY <1>0, <1>7 DEF Reboot, Proving, Covered, Journal, Forget
  <1>8. CASE End
    BY <1>0, <1>8 DEF End, Proving, Covered, Journal, Forget
  <1>9. CASE StepFails
    <2>1. /\ UNCHANGED <<vol, at, verified, todo>> /\ pc # "idle"
          /\ Fail \/ (Mark("VERIFY_APP") /\ pc' = "end")
      BY <1>9 DEF StepFails, disk, env, Working
    <2>2. CASE Fail
      BY <1>0, <2>1, <2>2 DEF Proving, Covered, Fail, Write
    <2>3. CASE Mark("VERIFY_APP") /\ pc' = "end"
      BY <1>0, <2>1, <2>3, MarkIs, StepNames DEF Proving, Covered, InCutover
    <2>. QED  BY <2>1, <2>2, <2>3
  <1>10. CASE Precheck
    BY <1>0, <1>10, StepNames DEF Precheck, Proving, Covered, Journal, disk, env, Fail, Mark, Write, InCutover
  <1>11. CASE CreateDestination
    BY <1>0, <1>11, StepNames DEF CreateDestination, Proving, Covered, Journal, env, Fail, Mark, Write, InCutover
  <1>12. CASE CopyBegins
    BY CopyIsEarly, <1>0, <1>12 DEF CopyBegins, Proving, Covered, Journal, disk
  <1>13. CASE CopyEnds
    BY <1>0, <1>13, StepNames DEF CopyEnds, Proving, Covered, Journal, disk, env, Mark, Write, InCutover
  <1>14. CASE VerifyTree
    <2>1. UNCHANGED <<vol, at, verified>> /\ pc \in {"tree", "retree"}
      BY <1>14 DEF VerifyTree, disk, env
    <2>2. CASE Fail
      BY <1>0, <2>1, <2>2 DEF Proving, Covered, Fail, Write
    <2>3. CASE Mark("VERIFY_TREE") /\ pc' = "end"
      BY <1>0, <2>1, <2>3, MarkIs, StepNames DEF Proving, Covered, InCutover
    <2>4. CASE /\ Present(Seen("source")) = Present(Seen("staging")) /\ Mark("VERIFY_SIZES")
               /\ todo' = Present(Seen("source"))
               /\ pc' = IF pc = "tree" THEN "hash" ELSE "rehash"
      <3>1. mem' = journal' /\ mem'.last = "VERIFY_SIZES"
        BY <1>0, <2>4, MarkIs, StepNames
      <3>2. CASE pc = "tree"
        BY <2>1, <2>4, <3>1, <3>2 DEF Proving, Covered, InCutover
      <3>3. CASE pc = "retree"
        <4>1. todo' = Present(vol) /\ at = {"staging"}
          BY <2>4, <3>3 DEF Proving, Seen
        <4>2. \A n \in Notes \ todo' : verified[n] <= vol[n]
          <5>1. \A n \in Notes \ todo' : vol[n] = 0
            BY <4>1 DEF Present
          <5>2. \A n \in Notes \ todo' : verified[n] = 0
            BY <5>1 DEF Proving
          <5>. QED  BY <5>1, <5>2
        <4>. QED  BY <2>1, <2>4, <3>1, <3>3, <4>1, <4>2 DEF Proving, Covered, InCutover
      <3>. QED  BY <2>1, <3>2, <3>3
    <2>. QED  BY <1>14, <2>2, <2>3, <2>4 DEF VerifyTree
  <1>15. CASE HashesMatch
    <2>1. UNCHANGED <<disk, env, verified>> /\ todo = {} /\ pc \in {"hash", "rehash"}
      BY <1>15 DEF HashesMatch
    <2>2. CASE pc = "hash"
      <3>1. mem' = journal' /\ mem'.last = "VERIFY_HASHES" /\ pc' = "app"
        BY <1>0, <1>15, <2>2, MarkIs, StepNames DEF HashesMatch
      <3>. QED  BY <2>1, <3>1 DEF Proving, InCutover, disk
    <2>3. CASE pc = "rehash"
      <3>1. mem' = journal' /\ mem'.last = "REVERIFY" /\ pc' = "cutover"
        BY <1>0, <1>15, <2>3, MarkIs, StepNames DEF HashesMatch
      <3>2. Covered
        BY <2>1, <2>3 DEF Proving, Covered
      <3>. QED  BY <2>1, <3>1, <3>2 DEF Proving, InCutover, Covered, disk
    <2>. QED  BY <2>1, <2>2, <2>3
  <1>16. CASE VerifyApp
    <2>1. mem' = journal' /\ mem'.last = "CLOSE_APP" /\ pc' = "relock" /\ verified' = verified
      BY <1>0, <1>16, MarkIs, StepNames DEF VerifyApp
    <2>2. \A n \in Notes : vol[n] # 0 => vol'[n] # 0
      BY <1>0, <1>16 DEF VerifyApp, Tree
    <2>. QED  BY <2>1, <2>2 DEF Proving, InCutover
  <1>17. CASE Relock
    BY <1>0, <1>17, StepNames DEF Relock, Proving, Covered, Journal, env, Mark, Write, InCutover
  <1>18. CASE Remount
    BY <1>0, <1>18, StepNames DEF Remount, Proving, Covered, Journal, env, Fail, Mark, Write, InCutover
  <1>19. CASE CutoverBegins
    BY <1>0, <1>19 DEF CutoverBegins, Proving, Covered, Journal, disk, Write, InCutover
  <1>20. CASE Vacate
    BY <1>0, <1>20 DEF Vacate, Proving, Covered, Journal, env
  <1>21. CASE RenameSource
    BY <1>0, <1>21 DEF RenameSource, Proving, Covered, Journal, env, Fail, Write
  <1>22. CASE ClaimFinal
    BY <1>0, <1>22 DEF ClaimFinal, Proving, Covered, Journal, env, Fail, Write
  <1>23. CASE ProveArchive
    BY <1>0, <1>23, StepNames DEF ProveArchive, Proving, Covered, Journal, disk, env, Mark, Write, InCutover
  <1>24. CASE RestoreArchive
    BY <1>0, <1>24 DEF RestoreArchive, Proving, Covered, Journal, env, Fail, Write
  <1>25. CASE ArchiveRestored
    BY <1>0, <1>25 DEF ArchiveRestored, Proving, Covered, Journal, disk, env, Write, InCutover
  <1>26. CASE Publish
    BY <1>0, <1>26 DEF Publish, Proving, Covered, Journal, env, Fail, Write
  <1>27. CASE Published
    BY <1>0, <1>27, StepNames DEF Published, Proving, Covered, Journal, disk, env, Mark, Write, InCutover
  <1>28. CASE Finish
    BY <1>0, <1>28, StepNames DEF Finish, Proving, Covered, Journal, disk, env, Mark, Write, InCutover
  <1>29. CASE RecoverCompletes
    BY <1>0, <1>29 DEF RecoverCompletes, Proving, Covered, Journal, disk, env, InCutover
  <1>30. CASE RecoverRollsBack
    BY <1>0, <1>30 DEF RecoverRollsBack, Proving, Covered, Journal, env, InCutover
  <1>31. ASSUME NEW n \in Notes, WriterSaves(n)  PROVE Proving'
    BY <1>31 DEF WriterSaves, Proving, Covered
  <1>32. ASSUME NEW n \in Notes, VaultSaves(n)  PROVE Proving'
    <2>1. \A k \in Notes : vol[k] <= vol'[k] /\ (verified[k] <= vol[k] => verified[k] <= vol'[k])
                          /\ (vol[k] # 0 => vol'[k] # 0)
      BY <1>0, <1>32 DEF VaultSaves, Versions, Tree
    <2>. QED  BY <1>32, <2>1 DEF VaultSaves, Proving, Covered
  <1>33. ASSUME NEW n \in Notes, CopyFile(n)  PROVE Proving'
    <2>1. UNCHANGED <<at, journal, mem, pc, verified>> /\ pc = "copying"
      BY <1>33 DEF CopyFile, env
    <2>2. \A k \in Notes : vol[k] # 0 => vol'[k] # 0
      <3>. DEFINE version == Seen("source")[n]
      <3>. HIDE DEF version
      <3>1. vol' = vol \/ (vol' = [vol EXCEPT ![n] = version] /\ version # 0)
        BY <1>33 DEF CopyFile, version
      <3>. QED  BY <1>0, <3>1 DEF Tree
    <2>. QED  BY <2>1, <2>2 DEF Proving
  <1>34. ASSUME NEW n \in Notes, HashFile(n)  PROVE Proving'
    <2>1. UNCHANGED <<vol, at>> /\ pc \in {"hash", "rehash"}
      BY <1>34 DEF HashFile, disk, env
    <2>2. CASE Fail /\ UNCHANGED <<todo, verified>>
      BY <1>0, <2>1, <2>2 DEF Proving, Covered, Fail, Write
    <2>3. CASE pc = "hash" /\ UNCHANGED <<verified, pc, journal, mem>>
      BY <2>1, <2>3 DEF Proving, Covered
    <2>4. CASE /\ pc = "rehash" /\ SameBytes(n) /\ todo' = todo \ {n}
               /\ verified' = [verified EXCEPT ![n] = Seen("source")[n]]
               /\ UNCHANGED <<pc, journal, mem>>
      <3>1. Seen("source")[n] = vol[n] /\ vol[n] # 0
        BY <2>4 DEF Proving, Seen, SameBytes
      <3>2. verified' = [verified EXCEPT ![n] = vol[n]]
        BY <2>4, <3>1
      <3>3. \A k \in Notes \ todo' : verified'[k] <= vol[k]
        BY <1>0, <2>4, <3>2 DEF Proving, Tree
      <3>4. \A k \in Notes : verified'[k] # 0 => vol[k] # 0
        BY <1>0, <3>1, <3>2 DEF Proving, Tree
      <3>5. ~InCutover(journal)
        BY <2>4 DEF Proving, InCutover
      <3>. QED  BY <2>1, <2>4, <3>3, <3>4, <3>5 DEF Proving
    <2>. QED  BY <1>34, <2>2, <2>3, <2>4 DEF HashFile
  <1>35. ASSUME NEW restart \in BOOLEAN, Begin(restart)  PROVE Proving'
    BY <1>35 DEF Begin, disk, env, Proving, Covered
  <1>36. CASE UNCHANGED vars
    BY <1>36 DEF vars, disk, env, Proving, Covered
  <1>. QED
    BY Zenon, <1>1, <1>2, <1>3, <1>4, <1>5, <1>6, <1>7, <1>8, <1>9, <1>10, <1>11, <1>12, <1>13,
       <1>14, <1>15, <1>16, <1>17, <1>18, <1>19, <1>20, <1>21, <1>22, <1>23, <1>24, <1>25,
       <1>26, <1>27, <1>28, <1>29, <1>30, <1>31, <1>32, <1>33, <1>34, <1>35, <1>36 DEF Next,
       Run, Cutover

\* What was verified is no newer than what was written.
LEMMA KnownStep ==
    ASSUME TypeOK, Versions, Known, [Next]_vars
    PROVE  Known'
  <1>0. edits \in Nat /\ verified \in Tree /\ \A n \in Notes : Seen("source")[n] <= edits
    BY ConstantsOK DEF TypeOK, Versions, Seen, Places
  <1>1. edits' = edits \/ edits' = edits + 1
    BY DEF Next, Run, Cutover, WriterStarts, WriterExits, Drill, OpenVault, VaultDetached,
           WriterSaves, VaultSaves, Crash, Reboot, Begin, End, StepFails, Precheck,
           CreateDestination, CopyBegins, CopyFile, CopyEnds, VerifyTree, HashFile, HashesMatch,
           VerifyApp, Relock, Remount, CutoverBegins, Vacate, RenameSource, ClaimFinal,
           ProveArchive, RestoreArchive, ArchiveRestored, Publish, Published, Finish,
           RecoverCompletes, RecoverRollsBack, vars, env
  <1>2. \/ verified' = verified
        \/ \E n \in Notes : verified' = [verified EXCEPT ![n] = Seen("source")[n]]
    BY DEF Next, Run, Cutover, WriterStarts, WriterExits, Drill, OpenVault, VaultDetached,
           WriterSaves, VaultSaves, Crash, Reboot, Begin, End, StepFails, Precheck,
           CreateDestination, CopyBegins, CopyFile, CopyEnds, VerifyTree, HashFile, HashesMatch,
           VerifyApp, Relock, Remount, CutoverBegins, Vacate, RenameSource, ClaimFinal,
           ProveArchive, RestoreArchive, ArchiveRestored, Publish, Published, Finish,
           RecoverCompletes, RecoverRollsBack, vars
  <1>3. \A n \in Notes : verified'[n] <= edits
    <2>1. CASE verified' = verified
      BY <2>1 DEF Known
    <2>2. ASSUME NEW n \in Notes, verified' = [verified EXCEPT ![n] = Seen("source")[n]]
          PROVE  \A k \in Notes : verified'[k] <= edits
      BY <1>0, <2>2 DEF Known, Tree
    <2>. QED  BY <1>2, <2>1, <2>2
  <1>4. verified' \in [Notes -> Nat]
    BY TypeStep, ConstantsOK DEF TypeOK, Tree
  <1>. QED  BY <1>0, <1>1, <1>3, <1>4 DEF Known

\* Which side commands are there is settled before the migration begins.
LEMMA BesideIsSettled == [Next]_vars => UNCHANGED beside
  BY DEF Next, Run, Cutover, WriterStarts, WriterExits, Drill, OpenVault, VaultDetached,
         WriterSaves, VaultSaves, Crash, Reboot, Begin, End, StepFails, Precheck,
         CreateDestination, CopyBegins, CopyFile, CopyEnds, VerifyTree, HashFile, HashesMatch,
         VerifyApp, Relock, Remount, CutoverBegins, Vacate, RenameSource, ClaimFinal,
         ProveArchive, RestoreArchive, ArchiveRestored, Publish, Published, Finish,
         RecoverCompletes, RecoverRollsBack, vars, env

\* A migration is called complete by its last step, or by recover() inside the cutover.
LEMMA CompletedInCutover ==
    ASSUME TypeOK, Proving, [Next]_vars, journal.last # "COMPLETE", journal'.last = "COMPLETE"
    PROVE  InCutover(journal)
  <1>0. mem \in Journal /\ journal \in Journal /\ (pc # "idle" => mem = journal)
    BY DEF TypeOK, Proving
  <1>1. CASE Finish
    BY <1>0, <1>1 DEF Finish, Proving, Mark, Write, Journal, disk, env
  <1>2. CASE RecoverCompletes
    BY <1>0, <1>2 DEF RecoverCompletes, Journal, disk, env
  <1>3. \A step \in Steps \ {"COMPLETE"} : ~Mark(step)
    BY <1>0, MarkIs
  <1>4. Fail => pc = "idle"
    BY <1>0 DEF Fail, Write
  <1>5. CASE StepFails
    BY <1>3, <1>4, <1>5, StepNames DEF StepFails, Working
  <1>6. CASE Precheck
    BY <1>3, <1>4, <1>6, StepNames DEF Precheck
  <1>7. CASE CreateDestination
    BY <1>3, <1>4, <1>7, StepNames DEF CreateDestination
  <1>8. CASE CopyEnds
    BY <1>3, <1>8, StepNames DEF CopyEnds
  <1>9. CASE VerifyTree
    BY <1>3, <1>4, <1>9, StepNames DEF VerifyTree
  <1>10. ASSUME NEW n \in Notes, HashFile(n)  PROVE FALSE
    BY <1>4, <1>10 DEF HashFile
  <1>11. CASE HashesMatch
    BY <1>3, <1>11, StepNames DEF HashesMatch
  <1>12. CASE VerifyApp
    BY <1>3, <1>12, StepNames DEF VerifyApp
  <1>13. CASE Relock
    BY <1>3, <1>13, StepNames DEF Relock
  <1>14. CASE Remount
    BY <1>3, <1>4, <1>14, StepNames DEF Remount
  <1>15. CASE CutoverBegins
    BY <1>15 DEF CutoverBegins, Write
  <1>16. CASE RenameSource
    BY <1>4, <1>16 DEF RenameSource
  <1>17. CASE ClaimFinal
    BY <1>4, <1>17 DEF ClaimFinal
  <1>18. CASE ProveArchive
    BY <1>3, <1>18, StepNames DEF ProveArchive
  <1>19. CASE RestoreArchive
    BY <1>4, <1>19 DEF RestoreArchive
  <1>20. CASE ArchiveRestored
    BY <1>0, <1>20 DEF ArchiveRestored, Write, Journal
  <1>21. CASE Publish
    BY <1>4, <1>21 DEF Publish
  <1>22. CASE Published
    BY <1>3, <1>22, StepNames DEF Published
  <1>23. CASE RecoverRollsBack
    BY <1>23 DEF RecoverRollsBack
  <1>24. journal' # journal
    OBVIOUS
  <1>. QED
    BY <1>1, <1>2, <1>5, <1>6, <1>7, <1>8, <1>9, <1>10, <1>11, <1>12, <1>13, <1>14, <1>15,
       <1>16, <1>17, <1>18, <1>19, <1>20, <1>21, <1>22, <1>23, <1>24
       DEF Next, Run, Cutover, WriterStarts, WriterExits, Drill, OpenVault, VaultDetached,
           WriterSaves, VaultSaves, Crash, Reboot, Begin, End, CopyBegins, CopyFile, Vacate, vars

\* A migration that is called complete, by its last step or by recover() after a crash,
\* has every note the plaintext side still holds as it was last verified, at that
\* version or a later one, when no command runs beside it.
THEOREM CopyIsComplete == Spec => CompleteCopy
  <1>1. Init => CoveredInv
    <2>. SUFFICES ASSUME Init  PROVE CoveredInv
      OBVIOUS
    <2>1. /\ edits = 1 /\ pc = "idle" /\ journal.last = "none"
          /\ \A n \in Notes : vol[n] = 0 /\ proof[n] = 0 /\ verified[n] = 0
          /\ \A p \in Places, n \in Notes : holds[p][n] = 0 \/ holds[p][n] = 1
      BY DEF Init, Empty
    <2>2. Versions
      <3>1. 0 <= edits /\ 1 <= edits
        BY <2>1
      <3>2. \A p \in Places, n \in Notes : holds[p][n] <= edits
        BY <2>1, <3>1
      <3>3. \A n \in Notes : vol[n] <= edits /\ proof[n] <= edits
        BY <2>1, <3>1
      <3>. QED  BY <3>2, <3>3 DEF Versions
    <2>3. Known /\ Proving
      BY <2>1 DEF Known, Proving, InCutover
    <2>. QED  BY <2>2, <2>3, TypeInit DEF CoveredInv
  <1>2. CoveredInv /\ [Next]_vars => CoveredInv'
    <2>. SUFFICES ASSUME CoveredInv, [Next]_vars  PROVE CoveredInv'
      OBVIOUS
    <2>1. TypeOK' /\ Versions' /\ Known'
      BY TypeStep, VersionsStep, KnownStep DEF CoveredInv
    <2>2. ~beside' => Proving'
      BY ProvingStep, BesideIsSettled
    <2>. QED  BY <2>1, <2>2 DEF CoveredInv
  <1>3. CoveredInv /\ [Next]_vars =>
          [~beside /\ journal.last # "COMPLETE" /\ journal'.last = "COMPLETE"
           => LET plain == IF inPlace /\ journal.archive # NoName
                             THEN holds[journal.archive] ELSE holds["source"]
              IN  \A n \in Present(plain) :
                     plain[n] = verified[n] => vol[n] >= plain[n]]_vars
    <2>. SUFFICES ASSUME CoveredInv, [Next]_vars, ~beside, journal.last # "COMPLETE",
                         journal'.last = "COMPLETE",
                         NEW plain, NEW n \in Present(plain), plain[n] = verified[n]
                  PROVE  vol[n] >= plain[n]
      OBVIOUS
    <2>1. Covered
      BY CompletedInCutover DEF CoveredInv, Proving
    <2>2. n \in Notes /\ vol[n] \in Nat /\ verified[n] \in Nat
      BY ConstantsOK DEF Present, CoveredInv, TypeOK, Tree
    <2>. QED  BY <2>1, <2>2 DEF Covered
  <1>. QED  BY <1>1, <1>2, <1>3, PTL DEF Spec, CompleteCopy

=============================================================================
