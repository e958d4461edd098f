----------------------------- MODULE HookSettings -----------------------------
(***************************************************************************)
(* The admission hooks in the settings of a Claude profile                 *)
(* (consoles/claude_hooks.py).                                             *)
(*                                                                         *)
(* A console that starts a profile reconciles the hooks in settings.json   *)
(* with the canonical ones; removing an account removes them.  Both read   *)
(* the whole file, change their own hooks in it, and put a new file in its *)
(* place.  The owner and Claude edit the same file.                        *)
(*                                                                         *)
(* Abstractions: one event, which expects its hooks in the groups with its *)
(* matcher, or, expecting none, in a group without one; the settings are   *)
(* that event's groups.  A hook is current, drifted (one of its own with   *)
(* another command or timeout), or somebody else's.                        *)
(***************************************************************************)
EXTENDS Naturals, Sequences, SequencesExt

CONSTANTS
    Console,      \* processes that reconcile or remove
    MaxGroups, MaxHooks,   \* bounds: groups at first, hooks in each
    MaxTouches,   \* bound: edits by the owner or Claude
    MaxTurns      \* bound: reconciliations and removals

VARIABLES
    expects,      \* the matcher the event expects, or "none"
    groups,       \* the event's groups in settings.json: [matcher, hooks]
    whole,        \* the file can be parsed
    job,          \* each console: [pc, verb, doc]
    touches, turns,
    theirs,       \* ghost: everybody else's hooks, as their owners left them
    crossed       \* ghost: an edit fell between a reading and its writing

hookVars == <<expects, groups, whole, job, touches, turns, theirs, crossed>>

Hook == {"current", "drifted", "b", "c"}
\* _is_saipen_hook
Owned(h) == h \in {"current", "drifted"}
Group == [matcher : {"none", "Bash"}, hooks : UNION {[1..n -> Hook] : n \in 0..MaxHooks}]
NoJob == [pc |-> "idle", verb |-> "none", doc |-> <<>>]

Others(gs) == [i \in DOMAIN gs |-> [matcher |-> gs[i].matcher,
                                    hooks |-> SelectSeq(gs[i].hooks, LAMBDA h : ~Owned(h))]]
\* The hooks of others in their groups, in order; an empty group is nobody's.
Theirs(gs) == SelectSeq(Others(gs), LAMBDA g : g.hooks # <<>>)

HookInit ==
    /\ expects \in {"none", "Bash"} /\ whole = TRUE
    /\ groups \in UNION {[1..n -> Group] : n \in 0..MaxGroups}
    /\ job = [p \in Console |-> NoJob] /\ touches = 0 /\ turns = 0
    /\ theirs = Theirs(groups) /\ crossed = FALSE

-----------------------------------------------------------------------------
(* The algorithms. *)

\* inspect_claude_hooks: the hooks of its own in the groups it looks at, all of them if the
\* event expects no matcher.
Found(gs) == FlattenSeq([i \in DOMAIN gs |->
                IF expects = "none" \/ gs[i].matcher = expects
                THEN SelectSeq(gs[i].hooks, Owned) ELSE <<>>])
IsCurrent(gs) == Found(gs) = <<"current">>

\* One group: its first own hook is made current, the rest of them go.
Renewed(hooks) ==
    IF \A i \in DOMAIN hooks : ~Owned(hooks[i]) THEN Append(hooks, "current")
    ELSE LET first == CHOOSE i \in DOMAIN hooks :
                         Owned(hooks[i]) /\ \A j \in 1..(i - 1) : ~Owned(hooks[j])
         IN SubSeq(hooks, 1, first - 1) \o <<"current">>
              \o SelectSeq(SubSeq(hooks, first + 1, Len(hooks)), LAMBDA h : ~Owned(h))

\* reconcile_claude_hooks: the first group that fits, or a new one.
Reconciled(gs) ==
    IF IsCurrent(gs) THEN gs
    ELSE IF \A i \in DOMAIN gs : gs[i].matcher # expects
    THEN Append(gs, [matcher |-> expects, hooks |-> <<"current">>])
    ELSE LET at == CHOOSE i \in DOMAIN gs :
                      gs[i].matcher = expects /\ \A j \in 1..(i - 1) : gs[j].matcher # expects
         IN [gs EXCEPT ![at].hooks = Renewed(@)]

\* Mutant: a group that holds one of its own hooks is removed with all it holds.
RemovedWhole(gs) ==
    SelectSeq(gs, LAMBDA g : g.hooks # <<>> /\ \A i \in DOMAIN g.hooks : ~Owned(g.hooks[i]))
\* remove_claude_hooks: a group that is left empty goes, and so does an empty one beside it;
\* with nothing of its own to remove the file is left alone.
Removed(gs) ==
    IF (\A i \in DOMAIN gs : \A j \in DOMAIN gs[i].hooks : ~Owned(gs[i].hooks[j])) /\ Theirs(gs) # <<>>
    THEN gs ELSE Theirs(gs)

-----------------------------------------------------------------------------
(* The processes. *)

\* A profile without settings, or with settings that cannot be parsed, is left alone by a
\* removal, and a reconciliation of the latter ends as well.
Read(p, verb) ==
    /\ job[p].pc = "idle" /\ turns < MaxTurns /\ turns' = turns + 1
    /\ job' = [job EXCEPT ![p] =
                 IF ~whole \/ (verb = "reconcile" /\ IsCurrent(groups)) THEN NoJob
                 ELSE [pc |-> IF verb = "reconcile" THEN "load" ELSE "write", verb |-> verb,
                       doc |-> groups]]
    /\ UNCHANGED <<expects, groups, whole, touches, theirs, crossed>>

\* A reconciliation reads the file again after its inspection.
Load(p) ==
    /\ job[p].pc = "load"
    /\ job' = [job EXCEPT ![p] = IF whole THEN [@ EXCEPT !.pc = "write", !.doc = groups] ELSE NoJob]
    /\ UNCHANGED <<expects, groups, whole, touches, turns, theirs, crossed>>

\* The new file is put in place, or there is nothing to change; or the process ends before.
Write(p) ==
    /\ job[p].pc = "write" /\ job' = [job EXCEPT ![p] = NoJob]
    /\ LET doc == IF job[p].verb = "reconcile" THEN Reconciled(job[p].doc) ELSE Removed(job[p].doc)
       IN IF doc = job[p].doc THEN UNCHANGED <<groups, whole>>
          ELSE groups' = doc /\ whole' = TRUE
    /\ UNCHANGED <<expects, touches, turns, theirs, crossed>>

Die(p) ==
    /\ job[p].pc # "idle" /\ job' = [job EXCEPT ![p] = NoJob]
    /\ UNCHANGED <<expects, groups, whole, touches, turns, theirs, crossed>>

\* The owner or Claude writes the file: a hook more, or a text that cannot be parsed, until
\* the rest of it is written.
Edit ==
    /\ touches < MaxTouches /\ touches' = touches + 1
    /\ \/ whole /\ groups' = Append(groups, [matcher |-> "none", hooks |-> <<"b">>]) /\ UNCHANGED whole
       \/ whole' = ~whole /\ UNCHANGED groups
    /\ theirs' = Theirs(groups')
    /\ crossed' = (crossed \/ \E p \in Console : job[p].pc = "write")
    /\ UNCHANGED <<expects, job, turns>>

HookNext ==
    \/ \E p \in Console : (\E verb \in {"reconcile", "remove"} : Read(p, verb)) \/ Load(p) \/ Write(p) \/ Die(p)
    \/ Edit

HookSpec == HookInit /\ [][HookNext]_hookVars

-----------------------------------------------------------------------------
TypeOK ==
    /\ whole \in BOOLEAN
    /\ \A p \in Console : job[p].pc \in {"idle", "load", "write"}

\* Whatever consoles reconcile and remove at the same time, and wherever they die, the
\* hooks of others stay as their owners left them, unless an owner wrote the file between
\* a reading and its writing, which the code does not notice.
TheirsStay == ~crossed => Theirs(groups) = theirs

\* A reconciliation leaves nothing for a second one to change.
SecondChangesNothing == LET once == Reconciled(groups) IN Reconciled(once) = once
=============================================================================
