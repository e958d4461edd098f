----------------------------- MODULE ProcessFamily ----------------------------
(***************************************************************************)
(* The processes of a protected application, as its supervisor knows them  *)
(* (secure_apps/sa_applife.py), in a system that uses the number of a dead *)
(* process again at once.                                                  *)
(*                                                                         *)
(* The supervisor starts a process, looks up who has the number it was     *)
(* given, and keeps every process it has seen as a number and a birth.  A  *)
(* survey drops the members whose number has no process of that birth,     *)
(* lists the descendants of the root, or of each survivor once the root is *)
(* gone, and keeps a list only if the process it began from is still the   *)
(* same afterwards.  Closing surveys, asks every member's windows to       *)
(* close, waits by surveying, kills, and waits again.  What is to be asked *)
(* or killed is held by a handle, which also keeps its number from being   *)
(* used again, and its birth is compared while it is held.                 *)
(*                                                                         *)
(* A process names its parent by number, and goes on naming it when the    *)
(* parent is dead and somebody else has the number; psutil's listing goes  *)
(* by these numbers, and leaves out what is older than where it began.  So *)
(* the listing takes in the orphans of a dead process whose number a       *)
(* member has now, and the first look-up takes in whoever has the number of*)
(* a process that died at once.  These are the lookalikes.                 *)
(*                                                                         *)
(* Abstractions: births are all different; the listing of descendants is   *)
(* one step; windows are those of their process.                           *)
(***************************************************************************)
EXTENDS Naturals, FiniteSets

CONSTANTS
    Pid,          \* process numbers
    MaxBirths,    \* bound: processes started
    MaxUnreadable \* bound: processes whose birth cannot be read

\* Zero is the root of an application that is not running.
ASSUME FamilyConstants == Pid \subseteq Nat \ {0} /\ MaxBirths \in Nat /\ MaxUnreadable \in Nat

VARIABLES
    table,        \* number to its process, [birth, parent, ours, kin], or NoProcess
    births,       \* processes started so far
    launched,     \* the birth of what was launched last, 0 for none
    root,         \* AppSupervisor.pid, 0 for none
    family,       \* _family: [pid, birth], one for a number
    phase,        \* what the supervisor is about: watch, close, wait, kill, confirm
    survey,       \* _seed_root, surviving_family: [pc, left, of, list]
    victims,      \* members that close or terminate has not come to
    pin,          \* the process held: [pid, birth], or none
    unreadable,
    seen,         \* ghost: all members since the launch
    struck        \* ghost: who was asked to close, or killed, and was not the application's

supervisorVars == <<root, family, phase, survey, victims, pin, unreadable, seen, struck>>
familyVars == <<table, births, launched, supervisorVars>>

NoProcess == [birth |-> 0]
Member == [pid : Pid, birth : 1..MaxBirths]
Lives(m) == table[m.pid].birth = m.birth          \* identity_matches
Numbers == {m.pid : m \in family}
Resting == [pc |-> "rest", left |-> {}, of |-> {}, list |-> {}]

FamilyInit ==
    /\ table = [p \in Pid |-> NoProcess] /\ births = 0 /\ launched = 0
    /\ root = 0 /\ family = {} /\ phase = "watch" /\ survey = Resting
    /\ victims = {} /\ pin = {} /\ unreadable = 0 /\ seen = {} /\ struck = {}

system == <<table, births, launched>>

-----------------------------------------------------------------------------
(* The system. *)

Present(t) == {c \in Pid : t[c] # NoProcess}
\* What the numbers put below p and is not older than the birth first: what is in every
\* set that has p and the children, by number, of its members.
Closed(t, S, first) ==
    \A c \in Present(t) : t[c].parent \in S /\ t[c].birth >= first => c \in S
Beneath(t, p, first) ==
    {c \in Present(t) : \A S \in SUBSET Present(t) : p \in S /\ Closed(t, S, first) => c \in S}

\* ours: started by the application.  kin: that, or a lookalike of it.  Who is beneath one
\* of the kin looks like it.
Kin(t, p, first) ==
    [c \in Pid |-> IF c \in Beneath(t, p, first) THEN [t[c] EXCEPT !.kin = TRUE] ELSE t[c]]

FreeNumber(p) == table[p] = NoProcess /\ p \notin {m.pid : m \in pin}
Born(p, parent, ours, kin, first) ==
    /\ FreeNumber(p) /\ births < MaxBirths /\ births' = births + 1
    /\ LET t == [table EXCEPT ![p] = [birth |-> births + 1, parent |-> parent,
                                     ours |-> ours, kin |-> kin]]
       IN  table' = IF kin THEN Kin(t, p, first) ELSE t

\* A process starts another; a stranger's parent is none of these.
Fork(q, p) ==
    /\ table[q] # NoProcess /\ Born(p, q, table[q].ours, table[q].kin, launched)
    /\ UNCHANGED <<launched, supervisorVars>>
Stranger(p) ==
    /\ Born(p, 0, FALSE, FALSE, launched)
    /\ UNCHANGED <<launched, supervisorVars>>

Exit(p) ==
    /\ table[p] # NoProcess /\ table' = [table EXCEPT ![p] = NoProcess]
    /\ UNCHANGED <<births, launched, supervisorVars>>

\* The process that has the number now.
At(p) == IF table[p] = NoProcess THEN {} ELSE {[pid |-> p, birth |-> table[p].birth]}
\* tree_identities: it and its descendants, as psutil finds them.
Tree(p) ==
    IF table[p] = NoProcess THEN {}
    ELSE UNION {At(c) : c \in Beneath(table, p, table[p].birth)}

-----------------------------------------------------------------------------
(* The supervisor's survey. *)

\* launch, up to the process it starts: nothing of an earlier one is alive, as far as the
\* supervisor knows.
Launch(p) ==
    /\ survey.pc = "rest" /\ phase = "watch" /\ victims = {} /\ pin = {}
    /\ {m \in family : Lives(m)} = {}
    /\ Born(p, 0, TRUE, TRUE, births + 1) /\ launched' = births + 1
    /\ root' = p /\ family' = {} /\ seen' = {} /\ survey' = [Resting EXCEPT !.pc = "seed"]
    /\ UNCHANGED <<phase, victims, pin, unreadable, struck>>

\* _seed_root: whoever has the number now is the first member.  When it cannot be read
\* (Unreadable), the number is kept and the family stays empty.
Seed ==
    /\ survey.pc = "seed" /\ survey' = [Resting EXCEPT !.pc = "begin"]
    /\ family' = At(root) /\ seen' = At(root)
    /\ table' = IF At(root) = {} THEN table ELSE Kin(table, root, launched)
    /\ UNCHANGED <<births, launched, root, phase, victims, pin, unreadable, struck>>

\* Where the listing starts: the root, or the survivors.
Roots(ms) == IF root \in {m.pid : m \in ms} THEN {m \in ms : m.pid = root} ELSE ms

\* Mutant: the family is gone when its root is.
PrunedByRoot(ms) == IF \E m \in ms : m.pid = root /\ Lives(m) THEN {m \in ms : Lives(m)} ELSE {}
\* The members whose number has a process of their birth.
Pruned(ms) == {m \in ms : Lives(m)}

Prune ==
    /\ root # 0 /\ survey.pc = "begin"
    /\ family' = Pruned(family)
    /\ survey' = [Resting EXCEPT !.pc = "list", !.left = Roots(Pruned(family))]
    /\ UNCHANGED <<system, root, phase, victims, pin, unreadable, seen, struck>>

List(m) ==
    /\ survey.pc = "list" /\ m \in survey.left
    /\ survey' = [pc |-> "merge", left |-> survey.left \ {m}, of |-> {m}, list |-> Tree(m.pid)]
    /\ UNCHANGED <<system, root, family, phase, victims, pin, unreadable, seen, struck>>

\* Mutant: the listing is kept without another look at where it began.
KeptUnchecked(m) == {n \in survey.list : n.pid \notin Numbers}
\* What is kept of a listing that began at m: a birth that is known is not replaced.
Kept(m) == IF Lives(m) THEN {n \in survey.list : n.pid \notin Numbers} ELSE {}

Merge(m) ==
    /\ survey.pc = "merge" /\ m \in survey.of
    /\ family' = family \cup Kept(m) /\ seen' = seen \cup family'
    /\ survey' = [Resting EXCEPT !.pc = "list", !.left = survey.left]
    /\ UNCHANGED <<system, root, phase, victims, pin, unreadable, struck>>

\* The last look at every member, and what the survey was for: nothing, the members to be
\* asked or killed, or whether any is left.
Surveyed ==
    /\ survey.pc = "list" /\ survey.left = {} /\ survey' = Resting
    /\ family' = IF phase \in {"wait", "confirm"} /\ Pruned(family) = {} THEN {} ELSE Pruned(family)
    /\ IF phase \in {"wait", "confirm"} /\ Pruned(family) = {}
       THEN root' = 0 /\ phase' = "watch"                \* forget
       ELSE UNCHANGED <<root, phase>>
    /\ victims' = IF phase \in {"close", "kill"} THEN Pruned(family) ELSE {}
    /\ UNCHANGED <<system, pin, unreadable, seen, struck>>

\* A birth that cannot be read ends what was under way, a launch included; the family is
\* kept as it is.
Unreadable ==
    /\ survey.pc # "rest" /\ unreadable < MaxUnreadable /\ unreadable' = unreadable + 1
    /\ survey' = Resting /\ phase' = "watch"
    /\ UNCHANGED <<system, root, family, victims, pin, seen, struck>>

-----------------------------------------------------------------------------
(* Closing: close_sequence. *)

Quiet == root # 0 /\ survey.pc = "rest" /\ victims = {} /\ pin = {}
Looks == survey' = [Resting EXCEPT !.pc = "begin"]

\* The turns of the window and of the broker's clock.
Watch ==
    /\ Quiet /\ phase = "watch" /\ Looks
    /\ UNCHANGED <<system, root, family, phase, victims, pin, unreadable, seen, struck>>

\* The broker's clock finds that none of those it last saw is alive.
TickForgets ==
    /\ Quiet /\ phase = "watch" /\ Pruned(family) = {} /\ root' = 0 /\ family' = {}
    /\ UNCHANGED <<system, phase, survey, victims, pin, unreadable, seen, struck>>

CloseBegins ==
    /\ Quiet /\ phase = "watch" /\ phase' = "close" /\ Looks
    /\ UNCHANGED <<system, root, family, victims, pin, unreadable, seen, struck>>

\* All have been asked, or killed: it waits, looking again and again, until its time is up.
Waits ==
    /\ Quiet /\ phase \in {"close", "kill", "wait", "confirm"} /\ Looks
    /\ phase' = CASE phase = "close" -> "wait" [] phase = "kill" -> "confirm" [] OTHER -> phase
    /\ UNCHANGED <<system, root, family, victims, pin, unreadable, seen, struck>>

TimeIsUp ==
    /\ Quiet /\ phase \in {"wait", "confirm"}
    /\ \/ phase = "wait" /\ phase' = "kill" /\ Looks                  \* force_terminate
       \/ phase' = "watch" /\ UNCHANGED survey                        \* not exited
    /\ UNCHANGED <<system, root, family, victims, pin, unreadable, seen, struck>>

\* _IdentityHandle: a handle to whatever has the number now.
Open(m) ==
    /\ survey.pc = "rest" /\ m \in victims /\ pin = {}
    /\ IF At(m.pid) = {} THEN victims' = victims \ {m} /\ UNCHANGED pin
       ELSE pin' = At(m.pid) /\ UNCHANGED victims
    /\ UNCHANGED <<system, root, family, phase, survey, unreadable, seen, struck>>

\* Mutant: the process that has the number is taken for the member.
PinnedByNumber(m) == m.pid \in {n.pid : n \in pin}
\* What is held is the member, by its birth, and lives.
PinnedIsMember(m) == m \in pin /\ Lives(m)

\* Of those held, who is not the application's.
Others(ms) ==
    {IF table[m.pid].kin THEN "lookalike" ELSE "stranger" :
        m \in {n \in ms : Lives(n) /\ ~table[n.pid].ours}}

\* request_close and terminate_pids, for what is held: it is asked or killed, or let go.
Strike(m) ==
    /\ m \in victims /\ pin # {} /\ m.pid \in {n.pid : n \in pin}
    /\ victims' = victims \ {m} /\ pin' = {}
    /\ IF PinnedIsMember(m)
       THEN /\ struck' = struck \cup Others(pin)
            /\ table' = IF phase = "kill" THEN [table EXCEPT ![m.pid] = NoProcess] ELSE table
       ELSE UNCHANGED <<table, struck>>
    /\ UNCHANGED <<births, launched, root, family, phase, survey, unreadable, seen>>

FamilyNext ==
    \/ \E p \in Pid : Launch(p) \/ Stranger(p) \/ Exit(p) \/ \E q \in Pid : Fork(q, p)
    \/ Seed \/ Prune \/ Surveyed \/ Unreadable \/ Watch \/ TickForgets \/ CloseBegins \/ Waits \/ TimeIsUp
    \/ \E m \in Member : List(m) \/ Merge(m) \/ Open(m) \/ Strike(m)

FamilySpec == FamilyInit /\ [][FamilyNext]_familyVars

-----------------------------------------------------------------------------
FamilyTypeOK ==
    /\ \A p \in Pid : table[p].birth \in 0..MaxBirths
    /\ root \in Pid \cup {0} /\ family \subseteq Member /\ victims \subseteq Member
    /\ \A m, n \in family : m.pid = n.pid => m = n
    /\ survey.pc \in {"rest", "seed", "begin", "list", "merge"} /\ Cardinality(pin) <= 1
    /\ launched \in 0..births /\ struck \subseteq {"lookalike", "stranger"}

\* Who is asked to close or killed is the application's or, by the numbers, looks like it:
\* not older than the launch, and found under the launched number or under that of a
\* member.  Nobody is struck for having a member's number by the time of the blow, and
\* nobody's children for their parent's having it by the time of the listing.
StrangersAreSpared == "stranger" \notin struck

\* When the supervisor has forgotten its application, and the broker takes the vault away,
\* no process it has ever seen of it is alive, the children of dead parents included.
ExitIsReal == root = 0 => \A m \in seen : ~Lives(m)

-----------------------------------------------------------------------------
\* What a reader may expect and the code does not do, stated for the record: TLC refutes
\* both, and no run includes them.

\* Only the application's own processes are closed: the orphans of a dead process whose
\* number a member was given are taken for the member's children.
LookalikesAreSpared == struck = {}

\* Nothing of the application outlives its supervisor's memory of it: a launch whose first
\* look-up raises leaves a process that is in no family, and the next close_sequence
\* forgets it; so does a child whose parent dies before a survey.
NothingIsLeftBehind == root = 0 => \A p \in Pid : table[p] # NoProcess => ~table[p].ours
=============================================================================
