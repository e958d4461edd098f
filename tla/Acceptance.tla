------------------------------ MODULE Acceptance ------------------------------
(***************************************************************************)
(* The hardware acceptance that a migration needs: the disposable run      *)
(* (secure_apps/sa_acceptance_runner.py) and the durable record it writes  *)
(* (sa_acceptance.py).                                                     *)
(*                                                                         *)
(* A run measures the host and loads the profile first, drills a           *)
(* throwaway container through a fixed list of phases, tears it down       *)
(* whatever happened, and writes a record of what it measured and of       *)
(* whether every check passed.  evaluate compares the record with what is  *)
(* measured when it is asked.  The facts may change at any moment, two     *)
(* windows (or a window and a console) may run it side by side - both      *)
(* write through the same temporary file - and a run may be killed.        *)
(*                                                                         *)
(* Abstractions: what a record binds is the version of the code, of the    *)
(* privileged task, and of the profile's policy; a task may be unreadable. *)
(* All gate flags are needed together, so a run keeps only whether a check *)
(* has failed or was skipped.  The code a process has loaded is taken to   *)
(* be the code it measures.                                                *)
(***************************************************************************)
EXTENDS Naturals, Sequences

CONSTANTS
    Run,          \* acceptance runs that may be under way at once
    Profile,
    MaxEdits,     \* bound: changes of the facts
    MaxBegun,     \* bound: runs begun
    MaxFailures   \* bound: kills, and files that cannot be written or removed

VARIABLES
    facts,        \* what would be measured now: [code, task, policy]
    drill,        \* each run
    tmp,          \* hardware-acceptance.json.tmp, one for every run
    record,       \* hardware-acceptance.json
    edits, begun, failures,
    proven,       \* ghost: what runs that passed every check had measured
    verdict       \* ghost: how the last run ended that got as far as its record

vars == <<facts, drill, tmp, record, edits, begun, failures, proven, verdict>>

Version == {"old", "new"}
Other(v) == IF v = "old" THEN "new" ELSE "old"
None == "none"
Absent == [ready |-> FALSE]

\* The phases, by what they need: nothing but a broker; the keys, where any failed check
\* ends the run; a container; and those that end a session from outside.
Preflight == <<"privileged_start", "privilege_boundary">>
Fatal == <<"capabilities", "enroll">>
Sessions == <<"unlock", "default_mode", "hostile", "aggressive">>
Endings == <<"workstation_lock", "broker_shutdown", "helper_failure", "audit">>
PHASES == Preflight \o Fatal \o Sessions \o Endings

Off == [at |-> "off"]
Running(r) == drill[r].at # "off"

Init ==
    /\ facts = [code |-> "old", task |-> "old", policy |-> [p \in Profile |-> "old"]]
    /\ drill = [r \in Run |-> Off]
    /\ tmp = Absent /\ record = Absent
    /\ edits = 0 /\ begun = 0 /\ failures = 0
    /\ proven = {} /\ verdict = None

\* Somebody edits the sources or the registry, or the helper is installed again.
Edit ==
    /\ edits < MaxEdits /\ edits' = edits + 1
    /\ \/ facts' = [facts EXCEPT !.code = Other(@)]
       \/ \E t \in (Version \cup {None}) \ {facts.task} : facts' = [facts EXCEPT !.task = t]
       \/ \E p \in Profile : facts' = [facts EXCEPT !.policy[p] = Other(@)]
    /\ UNCHANGED <<drill, tmp, record, begun, failures, proven, verdict>>

-----------------------------------------------------------------------------
(* The run. *)

\* The facts of a record that is matched later: everything, for one profile.
Measured(p) == [code |-> facts.code, task |-> facts.task, id |-> p, policy |-> facts.policy[p]]

\* prepare, in a process of medium integrity; an elevated one is refused here.
Prepare(r, p) ==
    /\ ~Running(r) /\ begun < MaxBegun /\ begun' = begun + 1
    /\ drill' = [drill EXCEPT ![r] = [at |-> "asked", phase |-> 1, env |-> Measured(p),
                                      spoiled |-> FALSE, aborted |-> FALSE, box |-> FALSE]]
    /\ UNCHANGED <<facts, tmp, record, edits, failures, proven, verdict>>

\* The first question: a refusal changes nothing.
Answer(r) ==
    /\ drill[r].at = "asked"
    /\ \/ drill' = [drill EXCEPT ![r].at = "phase"]
       \/ drill' = [drill EXCEPT ![r] = Off]
    /\ UNCHANGED <<facts, tmp, record, edits, begun, failures, proven, verdict>>

\* One phase: every check passes; or one fails or is skipped and the run goes on; or
\* the run is aborted, by a check, by the operator or by an exception.
Phase(r) ==
    LET d == drill[r]
        name == PHASES[d.phase]
        made == d.box \/ name = "enroll"
    IN /\ d.at = "phase"
       /\ \E outcome \in {"passed", "spoiled", "aborted"} :
            /\ outcome = "spoiled" => \A i \in DOMAIN Fatal : name # Fatal[i]
            /\ \E box \in IF outcome = "aborted" THEN {d.box, made} ELSE {made} :
                 drill' = [drill EXCEPT ![r] =
                     [d EXCEPT !.spoiled = @ \/ outcome = "spoiled",
                               !.aborted = outcome = "aborted",
                               !.box = box,
                               !.phase = IF outcome = "aborted" THEN @ ELSE @ + 1,
                               !.at = IF outcome = "aborted" \/ d.phase = Len(PHASES)
                                      THEN "cleanup" ELSE @]]
            /\ proven' = IF /\ outcome = "passed" /\ ~d.spoiled /\ d.phase = Len(PHASES)
                         THEN proven \cup {d.env} ELSE proven
       /\ UNCHANGED <<facts, tmp, record, edits, begun, failures, verdict>>

\* The brokers are asked in turn to destroy the container; if none can, the operator is
\* told where it is.
Cleanup(r) ==
    /\ drill[r].at = "cleanup"
    /\ drill' = [drill EXCEPT ![r].at = "write"]
    /\ UNCHANGED <<facts, tmp, record, edits, begun, failures, proven, verdict>>

\* Every check recorded and passed.
Passed(d) == d.phase > Len(PHASES) /\ ~d.spoiled
Complete(d) == ~d.aborted /\ Passed(d)

-----------------------------------------------------------------------------
(* The record. *)

\* Mutant: the record names what is measured when it is written.
BuildLate(d) == [ready |-> Complete(d), facts |-> Measured(d.env.id)]
\* build_record: readiness is the conjunction of every gate of a complete run.
BuildRecord(d) == [ready |-> Complete(d), facts |-> d.env]

\* Mutant: the gate compares everything but the privileged task.
EvaluateLess(m, high) ==
    /\ ~high
    /\ record.ready
    /\ [record.facts EXCEPT !.task = m.task] = m
\* evaluate: the record grants readiness, this process is of medium integrity, and every
\* fact can be determined and is the recorded one.
Evaluate(m, high) ==
    /\ ~high
    /\ record.ready
    /\ m.task # None
    /\ record.facts = m

Fails == failures < MaxFailures /\ failures' = failures + 1
Works == UNCHANGED failures

\* Mutant: a record that cannot be replaced is left alone.
NotRevoked == UNCHANGED <<record, failures>>
\* revoke, whose failure nobody is told of after a run that had passed.
Revoke ==
    \/ record' = Absent /\ Works
    \/ record # Absent /\ UNCHANGED record /\ Fails

End(r, how) == drill' = [drill EXCEPT ![r] = Off] /\ verdict' = how

\* save_record up to the temporary file.
Write(r) ==
    /\ drill[r].at = "write"
    /\ \/ /\ tmp' = BuildRecord(drill[r])
          /\ drill' = [drill EXCEPT ![r].at = "replace"]
          /\ Works /\ UNCHANGED <<record, verdict>>
       \/ Fails /\ drill' = [drill EXCEPT ![r].at = "unsaved"] /\ UNCHANGED <<tmp, record, verdict>>
    /\ UNCHANGED <<facts, edits, begun, proven>>

\* os.replace, which finds no file when another run has replaced it already.
Replace(r) ==
    /\ drill[r].at = "replace"
    /\ IF tmp = Absent
       THEN /\ drill' = [drill EXCEPT ![r].at = "unsaved"]
            /\ Works /\ UNCHANGED <<tmp, record, verdict>>
       ELSE \/ /\ record' = tmp /\ tmp' = Absent /\ Works
               /\ IF Complete(drill[r])
                  THEN drill' = [drill EXCEPT ![r].at = "judge"] /\ UNCHANGED verdict
                  ELSE End(r, "refused")
            \/ Fails /\ drill' = [drill EXCEPT ![r].at = "unsaved"]
                     /\ UNCHANGED <<tmp, record, verdict>>
    /\ UNCHANGED <<facts, edits, begun, proven>>

\* A record that could not be saved: whatever is there goes.
Unsaved(r) ==
    /\ drill[r].at = "unsaved"
    /\ Revoke /\ End(r, "refused")
    /\ UNCHANGED <<facts, tmp, edits, begun, proven>>

\* The production gate is asked at once, and a record it does not accept goes.
Judge(r) ==
    /\ drill[r].at = "judge"
    /\ LET e == drill[r].env
       IN IF Evaluate([Measured(e.id) EXCEPT !.policy = e.policy], FALSE)
          THEN Works /\ UNCHANGED record /\ End(r, "granted")
          ELSE Revoke /\ End(r, "refused")
    /\ UNCHANGED <<facts, tmp, edits, begun, proven>>

\* The window or the console that ran it dies.
Kill(r) ==
    /\ Running(r) /\ Fails
    /\ drill' = [drill EXCEPT ![r] = Off]
    /\ UNCHANGED <<facts, tmp, record, edits, begun, proven, verdict>>

Next ==
    \/ Edit
    \/ \E r \in Run :
        \/ \E p \in Profile : Prepare(r, p)
        \/ Answer(r) \/ Phase(r) \/ Cleanup(r)
        \/ Write(r) \/ Replace(r) \/ Unsaved(r) \/ Judge(r) \/ Kill(r)

Spec == Init /\ [][Next]_vars

-----------------------------------------------------------------------------
Fact == [code : Version, task : Version \cup {None}, id : Profile, policy : Version]
Paper == {Absent} \cup [ready : BOOLEAN, facts : Fact]

TypeOK ==
    /\ facts \in [code : Version, task : Version \cup {None}, policy : [Profile -> Version]]
    /\ \A r \in Run : Running(r) =>
        /\ drill[r].at \in {"asked", "phase", "cleanup", "write", "replace", "unsaved", "judge"}
        /\ drill[r].phase \in 1..(Len(PHASES) + 1)
        /\ drill[r].env \in Fact
        /\ {drill[r].spoiled, drill[r].aborted, drill[r].box} \subseteq BOOLEAN
    /\ tmp \in Paper /\ record \in Paper
    /\ proven \subseteq Fact
    /\ verdict \in {None, "granted", "refused"}

\* Whatever the facts have become, the gate of a migration is open for a profile and a
\* policy only if a run that passed every check had measured exactly these when it began
\* - not what was measured when it ended, and not what another run measured.
ReadyMeansProven ==
    \A p \in Profile, v \in Version :
        Evaluate([Measured(p) EXCEPT !.policy = v], FALSE)
            => [Measured(p) EXCEPT !.policy = v] \in proven

\* Once every run has ended, and nothing failed or was killed, the record grants
\* readiness only if the run that ended last said so: side by side, a run that failed is
\* not undone by the file of another.
LatestRunDecides ==
    failures = 0 /\ (\A r \in Run : ~Running(r)) /\ record.ready => verdict = "granted"
=============================================================================
