------------------------------ MODULE AppImport ------------------------------
(***************************************************************************)
(* The import of a portable application into managed storage               *)
(* (secure_apps/sa_enroll.py): the copy is made beside the application as  *)
(* app.import-<token>, the application is renamed to app.previous-<token>, *)
(* the copy takes its name, and the previous tree is removed.  The next    *)
(* import settles first what an interrupted one left behind.               *)
(*                                                                         *)
(* The window imports on its worker thread, and sa_cli import-app takes no *)
(* mutex, so two imports may run side by side.                             *)
(*                                                                         *)
(* A tree is the set of its parts, the executable and the rest.  Renames   *)
(* are atomic; a copy is made part by part; a removal may stop anywhere,   *)
(* because files are in use, which it ignores, or because the process ends.*)
(***************************************************************************)
EXTENDS Naturals, FiniteSets

CONSTANTS
    Imports,     \* bound: imports ever begun, in this order, each with a token of its own
    MaxActive,   \* bound: imports side by side
    MaxFaults    \* bound: copies, renames and removals that fail, and processes that end

Parts == {"exe", "lib"}
Absent == [there |-> FALSE, parts |-> {}]
Tree(parts) == [there |-> TRUE, parts |-> parts]

VARIABLES
    app,         \* the application's directory
    staging,     \* app.import-<token>
    previous,    \* app.previous-<token>
    import,      \* the imports under way
    faults,
    had,         \* ghost: the application has been whole
    overlapped   \* ghost: two imports have run side by side

dirs == <<app, staging, previous>>
vars == <<dirs, import, faults, had, overlapped>>

New == [pc |-> "off", staged |-> {}, backups |-> {}, from |-> {}, parked |-> FALSE]

Init ==
    /\ app \in {Absent, Tree({}), Tree(Parts)}
    /\ staging = [t \in Imports |-> Absent]
    /\ previous = [t \in Imports |-> Absent]
    /\ import = [t \in Imports |-> New]
    /\ faults = 0 /\ overlapped = FALSE
    /\ had = (app.parts = Parts)

Active == {t \in Imports : import[t].pc \notin {"off", "end"}}
At(t, pc) == import[t].pc = pc
Goes(t, pc) ==
    import' = [import EXCEPT ![t] = IF pc = "end" THEN [New EXCEPT !.pc = pc] ELSE [@ EXCEPT !.pc = pc]]
Works == UNCHANGED faults
Fault == faults < MaxFaults /\ faults' = faults + 1
Ghosts == had' = (had \/ app'.parts = Parts) /\ UNCHANGED overlapped

\* shutil.rmtree(ignore_errors=True): what it leaves of a tree.
Removed(tree, left) ==
    \/ left = Absent /\ Works
    \/ tree.there /\ left \in {Tree(s) : s \in SUBSET tree.parts} /\ Fault

-----------------------------------------------------------------------------
\* import_application begins, of a source with its executable or without, and lists what
\* lies beside the application.
Begin(t) ==
    /\ At(t, "off") /\ \A u \in Imports : u < t => ~At(u, "off")
    /\ Cardinality(Active) < MaxActive
    /\ overlapped' = (overlapped \/ Active # {})
    /\ \E from \in {Parts, Parts \ {"exe"}} :
         import' = [import EXCEPT ![t] =
            [@ EXCEPT !.pc = "settle", !.from = from,
                      !.staged = {u \in Imports : staging[u].there},
                      !.backups = {u \in Imports : previous[u].there}]]
    /\ UNCHANGED <<dirs, faults, had>>

\* _settle_interrupted_import: a copy that was listed is dropped, whoever is making it.
DropStaging(t, u) ==
    /\ At(t, "settle") /\ u \in import[t].staged
    /\ import' = [import EXCEPT ![t].staged = @ \ {u}]
    /\ \E left \in {Absent} \cup {Tree(s) : s \in SUBSET Parts} :
         Removed(staging[u], left) /\ staging' = [staging EXCEPT ![u] = left]
    /\ UNCHANGED <<app, previous, had, overlapped>>

\* The one listed backup takes the name of an application that is missing or empty, when
\* there is one; several, or one beside an application, are left to the owner.
Settle(t) ==
    /\ At(t, "settle") /\ import[t].staged = {}
    /\ IF import[t].backups = {} THEN Goes(t, "check")
       ELSE IF app.parts = {} /\ Cardinality(import[t].backups) = 1 THEN Goes(t, "restore")
       ELSE Goes(t, "end")
    /\ UNCHANGED <<dirs, faults, had, overlapped>>

\* rmdir and rename, which refuse a name that is taken.
Restore(t) ==
    /\ At(t, "restore")
    /\ LET u == CHOOSE u \in import[t].backups : TRUE
       IN \/ /\ app.parts = {} /\ previous[u].there
             /\ app' = previous[u] /\ previous' = [previous EXCEPT ![u] = Absent]
             /\ Goes(t, "check") /\ Works
          \/ /\ \/ (app.parts # {} \/ ~previous[u].there) /\ Works
                \/ Fault
             /\ app' \in {app, IF app.parts = {} THEN Absent ELSE app}
             /\ Goes(t, "end") /\ UNCHANGED previous
    /\ Ghosts /\ UNCHANGED staging

\* What can refuse is decided before the application is touched: the source lacks the
\* executable, or the caller did not say to overwrite.
Check(t) ==
    /\ At(t, "check")
    /\ \E overwrite \in BOOLEAN :
         IF "exe" \in import[t].from /\ (app.parts = {} \/ overwrite)
         THEN Goes(t, "copy") ELSE Goes(t, "end")
    /\ UNCHANGED <<dirs, faults, had, overlapped>>

\* copytree: a part is copied, or the copy fails.
Copy(t) ==
    /\ At(t, "copy")
    /\ \/ /\ import[t].from # {}
          /\ \E p \in import[t].from :
               /\ staging' = [staging EXCEPT ![t] = Tree(@.parts \cup {p})]
               /\ import' = [import EXCEPT ![t].from = @ \ {p}]
          /\ Works
       \/ Fault /\ Goes(t, "unstage") /\ UNCHANGED staging
       \/ /\ import[t].from = {}
          /\ Goes(t, IF "exe" \in staging[t].parts THEN "park" ELSE "unstage")
          /\ Works /\ UNCHANGED staging
    /\ UNCHANGED <<app, previous, had, overlapped>>

Unstage(t) ==
    /\ At(t, "unstage") /\ Goes(t, "end")
    /\ \E left \in {Absent} \cup {Tree(s) : s \in SUBSET Parts} :
         Removed(staging[t], left) /\ staging' = [staging EXCEPT ![t] = left]
    /\ UNCHANGED <<app, previous, had, overlapped>>

\* Mutant: the application makes room for the copy.
ParkRemoved(t) ==
    /\ At(t, "park") /\ Goes(t, "swap") /\ app' = Absent
    /\ UNCHANGED <<staging, previous, faults, had, overlapped>>
\* The application is renamed aside.
Park(t) ==
    /\ At(t, "park")
    /\ \/ ~app.there /\ Goes(t, "swap") /\ Works /\ UNCHANGED <<app, previous>>
       \/ /\ app.there
          /\ app' = Absent /\ previous' = [previous EXCEPT ![t] = app]
          /\ import' = [import EXCEPT ![t].pc = "swap", ![t].parked = TRUE] /\ Works
       \/ app.there /\ Fault /\ Goes(t, "unstage") /\ UNCHANGED <<app, previous>>
    /\ UNCHANGED <<staging, had, overlapped>>

\* The copy takes its name; a name that is taken, or a copy that is gone, is a failure.
Swap(t) ==
    /\ At(t, "swap")
    /\ \/ /\ staging[t].there /\ ~app.there
          /\ app' = staging[t] /\ staging' = [staging EXCEPT ![t] = Absent]
          /\ Goes(t, "verify") /\ Works
       \/ /\ \/ (~staging[t].there \/ app.there) /\ Works
             \/ Fault
          /\ Goes(t, "undo") /\ UNCHANGED <<app, staging>>
    /\ Ghosts /\ UNCHANGED previous

Verify(t) ==
    /\ At(t, "verify")
    /\ Goes(t, IF "exe" \in app.parts THEN "clean" ELSE "undo")
    /\ UNCHANGED <<dirs, faults, had, overlapped>>

\* The failed tree goes, the copy goes, and the previous tree comes back unless the name is
\* taken or the rename fails.
UndoTree(t) ==
    /\ At(t, "undo") /\ Goes(t, "undo staging")
    /\ IF app.there /\ ~staging[t].there
       THEN \E left \in {Absent} \cup {Tree(s) : s \in SUBSET Parts} :
              Removed(app, left) /\ app' = left
       ELSE Works /\ UNCHANGED app
    /\ UNCHANGED <<staging, previous, had, overlapped>>

UndoStaging(t) ==
    /\ At(t, "undo staging") /\ Goes(t, "undo name")
    /\ \E left \in {Absent} \cup {Tree(s) : s \in SUBSET Parts} :
         Removed(staging[t], left) /\ staging' = [staging EXCEPT ![t] = left]
    /\ UNCHANGED <<app, previous, had, overlapped>>

UndoName(t) ==
    /\ At(t, "undo name") /\ Goes(t, "end")
    /\ \/ /\ import[t].parked /\ ~app.there /\ previous[t].there
          /\ app' = previous[t] /\ previous' = [previous EXCEPT ![t] = Absent] /\ Works
       \/ /\ \/ (~import[t].parked \/ app.there \/ ~previous[t].there) /\ Works
             \/ Fault
          /\ UNCHANGED <<app, previous>>
    /\ Ghosts /\ UNCHANGED staging

Clean(t) ==
    /\ At(t, "clean") /\ Goes(t, "end")
    /\ IF import[t].parked
       THEN \E left \in {Absent} \cup {Tree(s) : s \in SUBSET Parts} :
              Removed(previous[t], left) /\ previous' = [previous EXCEPT ![t] = left]
       ELSE Works /\ UNCHANGED previous
    /\ UNCHANGED <<app, staging, had, overlapped>>

\* The window or sa_cli ends.
Die(t) ==
    /\ t \in Active /\ Fault /\ Goes(t, "end")
    /\ UNCHANGED <<dirs, had, overlapped>>

Next ==
    \E t \in Imports :
        \/ Begin(t) \/ Settle(t) \/ Restore(t) \/ Check(t) \/ Copy(t) \/ Unstage(t)
        \/ Park(t) \/ Swap(t) \/ Verify(t) \/ UndoTree(t) \/ UndoStaging(t) \/ UndoName(t)
        \/ Clean(t) \/ Die(t)
        \/ \E u \in Imports : DropStaging(t, u)

Spec == Init /\ [][Next]_vars

-----------------------------------------------------------------------------
TypeOK ==
    /\ {app} \cup {staging[t] : t \in Imports} \cup {previous[t] : t \in Imports}
         \subseteq {Absent} \cup {Tree(s) : s \in SUBSET Parts}
    /\ \A t \in Imports : import[t].parked \in BOOLEAN
    /\ faults \in 0..MaxFaults

\* Whatever fails and wherever a process ends, in an import or in the one that settles what
\* it left: an application that has been whole is whole at its place, or lies whole under
\* a name the next import finds.  Needs that imports do not overlap.
KnownGoodStays ==
    had /\ ~overlapped =>
        app.parts = Parts \/ \E t \in Imports : previous[t].parts = Parts

\* What the documentation says of an import, and two side by side do not keep: "Put the
\* known-good tree back exactly as it was."
KnownGoodStaysAnyway ==
    had => app.parts = Parts \/ \E t \in Imports : previous[t].parts = Parts
=============================================================================
