------------------------------ MODULE SetupTruth ------------------------------
(***************************************************************************)
(* What the setup page says of the notes while they are moved into the     *)
(* vault: classify_profile_safety_state (secure_apps/sa_setup.py), the     *)
(* verdict it takes from the journal (sa_migrate.inspect), and the panel   *)
(* of the window that offers the original folder as a way out.             *)
(*                                                                         *)
(* The page is computed from the disk and the journal of VaultMigration    *)
(* and from facts a migration does not change, the broker's state among    *)
(* them.  The window passes no source, so the profile's mount path is      *)
(* looked at in its place.                                                 *)
(***************************************************************************)
EXTENDS VaultMigration

\* The executable is there, it is not a managed one, the container is there, the journal
\* cannot be read, the broker owes a relock.
Facts == [runs : BOOLEAN, unmanaged : BOOLEAN, container : BOOLEAN,
          damaged : BOOLEAN, owing : BOOLEAN]

\* inspect
Verdict(f) ==
    CASE f.damaged -> "MIGRATION_STATE_INVALID"
      [] ~f.damaged /\ journal.last = "none" -> "NONE"
      [] ~f.damaged /\ journal.last = "COMPLETE" -> "COMPLETE"
      [] ~f.damaged /\ InCutover(journal) -> "INTERRUPTED_DURING_CUTOVER"
      [] OTHER -> "INTERRUPTED_BEFORE_CUTOVER"

\* Mutant: only the folder the notes came from is looked for.
SourcePresent == "source" \in exists
\* The folder the notes came from, or the one they were moved aside to, is there.
PlaintextPresent == "source" \in exists \/ journal.archive \in exists

\* plaintext_copy_remains
CopyRemains(archive) == archive # NoName /\ Seen(archive) # Empty

Says(state, path, available, bypass) ==
    [state |-> state, path |-> path, available |-> available, bypass |-> bypass]

\* The journal exists and says how far a migration came.
Invalid == Says("MIGRATION_STATE_INVALID", Final, FALSE, TRUE)
Interrupted == Says("MIGRATION_INTERRUPTED", "source", PlaintextPresent, TRUE)
Moved(f) ==
    Says(IF f.owing THEN "RECOVERY_REQUIRED"
         ELSE IF Ready THEN "RECOVERY_READY" ELSE "CONTAINER_LOCKED",
         Final, FALSE, FALSE)

\* There is no journal: the executable is asked for first, then the folder.
NoExecutable == Says("APPLICATION_EXECUTABLE_FAILED", Final, FALSE, TRUE)
NotMoved(f) ==
    IF Final \in exists
    THEN Says("SETUP_INCOMPLETE_SOURCE_AVAILABLE", Final, TRUE, TRUE)
    ELSE Says(IF f.container THEN "CONTAINER_NOT_CREATED" ELSE "SETUP_INCOMPLETE_SOURCE_MISSING",
              Final, FALSE, FALSE)

\* classify_profile_safety_state
Page(f) ==
    CASE Verdict(f) = "MIGRATION_STATE_INVALID" -> Invalid
      [] Verdict(f) \in {"INTERRUPTED_BEFORE_CUTOVER", "INTERRUPTED_DURING_CUTOVER"} -> Interrupted
      [] Verdict(f) = "COMPLETE" -> Moved(f)
      [] Verdict(f) = "NONE" -> IF ~f.runs /\ f.unmanaged THEN NoExecutable ELSE NotMoved(f)

\* The panel of the way out: shown while the setup is not ready, which a vault without a
\* migration is not, with a button that is enabled if the folder is said to be there.
Offered(f) == Page(f).bypass /\ Page(f).available

\* _on_safe_open_original_folder: the folder that the button opens, or none.
OpensFolder(f) ==
    IF Page(f).state \in {"CONTAINER_LOCKED", "RECOVERY_READY"} \/ Page(f).path \notin exists
    THEN NoName ELSE Page(f).path

-----------------------------------------------------------------------------
\* Wherever the notes lie readable, through crashes, rollbacks and runs that begin again,
\* the page says so: as a way out while the vault has not taken over, as a copy to be
\* secured afterwards.  A person told that nothing is there would take the notes for lost,
\* or for protected.  Needs a migration in place, a journal that can be read, an executable
\* that is there, and a readiness record of a vault that was not empty.
ReadableNotesAreSaid ==
    inPlace /\ proof # Empty =>
        \A f \in {g \in Facts : g.runs /\ ~g.damaged} :
            IF journal.last = "COMPLETE"
            THEN (\E a \in Archives : holds[a] # Empty) => CopyRemains(journal.archive)
            ELSE (\E p \in {"source"} \cup Archives : holds[p] # Empty) => Offered(f)

-----------------------------------------------------------------------------
\* What the page says and the code does not keep; no run checks it.

\* "Your original notes are still available at their original folder": the button opens a
\* folder of the ordinary disk, not the vault that is open at the same path.
ExitIsPlaintext == \A f \in Facts : Offered(f) => OpensFolder(f) \notin at

\* "Original notes directory is MISSING" only if it is.
MissingIsMissing ==
    \A f \in Facts :
        Page(f).state = "SETUP_INCOMPLETE_SOURCE_MISSING" => "source" \notin exists
=============================================================================
