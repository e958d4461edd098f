----------------------------- MODULE JunkSweep -----------------------------
(***************************************************************************)
(* The junk cleaner (DEL_JUNK.PYW with del_junk_walk.py and                     *)
(* del_junk_errors.py): the reservation of a scope between processes, the           *)
(* streaming pass over all disks with its journal, and the pass over one folder      *)
(* with its manifest, while other programs go on using the files.                 *)
(*                                                                          *)
(* A candidate is a file or a tree with the nodes inside it; a node is known by       *)
(* its version, 0 when it is not there.  The journal of a run is what                *)
(* parse_journal makes of it: the records before the first torn one.                *)
(***************************************************************************)
EXTENDS Naturals, FiniteSets, Sequences

CONSTANTS
    Runs,       \* processes of the cleaner
    Streaming,  \* those that sweep all disks; the others clean one folder
    Targets,    \* the scopes of a run, in order
    Inside,     \* <<s, t>>: scope s lies within scope t
    Items,      \* candidates by scope, in the order they are found
    Inner,      \* what may lie inside a candidate: nothing, for a file
    Precious,   \* nodes a sweep of all disks protects
    None,
    MaxEdits,   \* bound: what other programs change
    MaxFaults   \* bound: failed writes, device errors, crashes

Scopes == UNION {{Targets[p][k] : k \in DOMAIN Targets[p]} : p \in Runs}
In(s) == {Items[s][k] : k \in DOMAIN Items[s]}
Cands == UNION {In(s) : s \in Scopes}
Nodes == Cands \cup UNION {Inner[i] : i \in Cands}
Tree(i) == {i} \cup Inner[i]
Mine(p) == {Targets[p][k] : k \in DOMAIN Targets[p]}
Own(p) == UNION {In(s) : s \in Mine(p)}

\* A directory that is a candidate is not descended into.
ASSUME SweepConstants ==
    /\ Streaming \subseteq Runs /\ None \notin Runs \cup Scopes \cup Nodes
    /\ \A p \in Runs : Targets[p] \in Seq(Mine(p))
    /\ \A s \in Scopes : Items[s] \in Seq(In(s))
    /\ \A p \in Streaming : \A i, j \in Own(p) : i # j => Tree(i) \cap Tree(j) = {}
    /\ Inside \subseteq Scopes \X Scopes
    /\ \A s, t \in Scopes : <<s, t>> \in Inside => In(s) \subseteq In(t)
    /\ MaxEdits \in Nat /\ MaxFaults \in Nat

VARIABLES
    run,     \* the runs: where they are, what they work on, what they report
    journal, \* their journals as the parser reads them
    gate,    \* who holds the admission gate
    locks,   \* the lock files of the scopes
    world,   \* the versions of the nodes
    gone,    \* what each run has removed
    edits, faults

vars == <<run, journal, gate, locks, world, gone, edits, faults>>

Outcomes == {"DELETED", "SKIPPED_CHANGED", "SKIPPED_BUSY", "PARTIAL_BUSY", "RISKY_EXCLUDED", "FAILED"}
Events == Outcomes \cup {"INTENT"}
Results == {"none", "COMPLETE", "PARTIAL", "CANCELLED", "FAILED"}
Steps == {"idle", "next", "gate", "probe", "token", "publish", "open", "walk", "intent", "check",
          "remove", "outcome", "cancelled", "lost", "close", "unlock", "unlink", "finish", "over", "dead"}
Flags == {"stop", "fatal", "lost", "skipped", "error", "deleted"}

\* What may be left of a run's targets.
Rests(p) == {SubSeq(Targets[p], k, Len(Targets[p])) : k \in 1..Len(Targets[p]) + 1}

TypeOK ==
    /\ run \in [Runs -> [pc : Steps, left : UNION {Rests(p) : p \in Runs}, items : UNION {[1..k -> Cands] : k \in 0..Cardinality(Cands)},
                         item : Cands \cup {None}, seen : [Nodes -> 0..MaxEdits + 1], before : 0..MaxEdits + 1,
                         list : SUBSET Nodes, tries : 0..2, event : Outcomes \cup {"none"},
                         flags : SUBSET Flags, result : Results]]
    /\ journal \in [Runs -> [lines : SUBSET (Events \X Cands), torn : BOOLEAN]]
    /\ gate \in Runs \cup {None}
    /\ locks \in [Scopes -> [holder : Runs \cup {None}, scope : BOOLEAN, there : BOOLEAN]]
    /\ world \in [Nodes -> 0..MaxEdits + 1] /\ gone \in [Runs -> SUBSET Nodes]
    /\ edits \in 0..MaxEdits /\ faults \in 0..MaxFaults

NoNodes == [n \in Nodes |-> 0]
Fresh(p) == [pc |-> "idle", left |-> Targets[p], items |-> << >>, item |-> None, seen |-> NoNodes, before |-> 0,
             list |-> {}, tries |-> 0, event |-> "none", flags |-> {}, result |-> "none"]

Init ==
    /\ run = [p \in Runs |-> Fresh(p)]
    /\ journal = [p \in Runs |-> [lines |-> {}, torn |-> FALSE]]
    /\ gate = None
    /\ locks = [s \in Scopes |-> [holder |-> None, scope |-> FALSE, there |-> FALSE]]
    /\ world = [n \in Nodes |-> IF n \in Precious THEN 0 ELSE 1]
    /\ gone = [p \in Runs |-> {}]
    /\ edits = 0 /\ faults = 0

-----------------------------------------------------------------------------
Fault == faults < MaxFaults /\ faults' = faults + 1
At(p, s) == run[p].pc = s
Scope(p) == Head(run[p].left)
Has(p, f) == f \in run[p].flags
Holds(p, s) == locks[s].holder = p

\* Run p goes on as r: at another step, perhaps with flags raised.
Set(p, r) == run' = [run EXCEPT ![p] = r]
Go(p, s) == Set(p, [run[p] EXCEPT !.pc = s])
GoWith(p, s, fs) == Set(p, [run[p] EXCEPT !.pc = s, !.flags = @ \cup fs])

\* journal_record and journal_run_record: the line is appended and synced; when
\* that fails nothing, a torn line or the whole line may be on the disk.  Nothing
\* behind a torn line is read.
Line(p, ev, of) == [journal EXCEPT ![p].lines = IF journal[p].torn THEN @ ELSE @ \cup {<<ev, of>>}]
Tear(p) == [journal EXCEPT ![p].torn = TRUE]
Written(p, ev, of) == journal' = Line(p, ev, of) /\ UNCHANGED faults
Unwritten(p, ev, of) == Fault /\ journal' \in {journal, Tear(p), Line(p, ev, of)}

\* A record that is about no candidate's fate: of it only the tear matters here.
Noted == UNCHANGED <<journal, faults>>
Unnoted(p) == Fault /\ journal' \in {journal, Tear(p)}
Envelope(p) == Noted \/ Unnoted(p)

Parsed(p, ev) == {r[2] : r \in {l \in journal[p].lines : l[1] = ev}}

\* dangling_intents.
Dangling(p) == Parsed(p, "INTENT") \ UNION {Parsed(p, ev) : ev \in Outcomes}

-----------------------------------------------------------------------------
\* What may keep a sweep of all disks from beginning: a canary record that cannot be
\* written next to the journal, a clause of the gate that its own fixtures do not
\* bear out, or the user, who is asked once the gate has passed.
NoCanary == Fault /\ UNCHANGED journal
GateBlocks(p) == Envelope(p)
Declined == Noted

\* A run begins: a sweep with its RUN_START on the disk.
Start(p) ==
    /\ At(p, "idle")
    /\ \/ Noted /\ Go(p, "next")
       \/ p \in Streaming /\ (NoCanary \/ GateBlocks(p) \/ Declined \/ Unnoted(p)) /\ Go(p, "over")
    /\ UNCHANGED <<gate, locks, world, gone, edits>>

\* A scope refused, or a disk that is not there, is skipped by a sweep; the run over
\* a folder ends.
Refused(p) == Set(p, IF p \in Streaming THEN [run[p] EXCEPT !.pc = "next", !.left = Tail(@)]
                     ELSE [run[p] EXCEPT !.pc = "over"])

Stopped(p) == run[p].flags \cap {"stop", "fatal"} # {}

NextScope(p) ==
    /\ At(p, "next")
    /\ IF run[p].left = << >> THEN Go(p, "finish") /\ Noted
       ELSE IF Stopped(p) THEN GoWith(p, "finish", {"skipped"}) /\ Envelope(p)
       ELSE Go(p, "gate") /\ Noted
    /\ UNCHANGED <<gate, locks, world, gone, edits>>

\* _acquire_gate waits a bounded time.
TakeGate(p) ==
    /\ At(p, "gate")
    /\ IF gate = None THEN gate' = p /\ Go(p, "probe") ELSE UNCHANGED gate /\ Refused(p)
    /\ UNCHANGED <<journal, locks, world, gone, edits, faults>>

Conflict(s, t) == s = t \/ <<s, t>> \in Inside \/ <<t, s>> \in Inside

\* conflicting_scope: a reservation counts when its scope can be read and its token
\* is held; those of runs that are gone are removed.
Probe(p) ==
    LET others == {s \in Scopes : locks[s].there /\ locks[s].scope /\ Conflict(s, Scope(p))} IN
    /\ At(p, "probe")
    /\ IF \E s \in others : locks[s].holder # None
       THEN gate' = None /\ Refused(p) /\ UNCHANGED locks
       ELSE /\ Go(p, "token") /\ UNCHANGED gate
            /\ locks' = [s \in Scopes |-> IF s \in others THEN [locks[s] EXCEPT !.there = FALSE, !.scope = FALSE]
                                          ELSE locks[s]]
    /\ UNCHANGED <<journal, world, gone, edits, faults>>

\* Mutant: admission opens again before the scope can be read.
TokenOpens(p) ==
    /\ At(p, "token")
    /\ gate' = None
    /\ IF locks[Scope(p)].holder # None THEN Refused(p) /\ UNCHANGED locks
       ELSE Go(p, "publish") /\ locks' = [locks EXCEPT ![Scope(p)].holder = p, ![Scope(p)].there = TRUE]
    /\ UNCHANGED <<journal, world, gone, edits, faults>>

\* The token is the first byte of the lock file; the scope behind it is published
\* before the gate opens.
Token(p) ==
    /\ At(p, "token")
    /\ IF locks[Scope(p)].holder # None THEN gate' = None /\ Refused(p) /\ UNCHANGED locks
       ELSE /\ Go(p, "publish") /\ UNCHANGED gate
            /\ locks' = [locks EXCEPT ![Scope(p)].holder = p, ![Scope(p)].there = TRUE]
    /\ UNCHANGED <<journal, world, gone, edits, faults>>

Publish(p) ==
    /\ At(p, "publish")
    /\ gate' = IF gate = p THEN None ELSE gate
    /\ locks' = [locks EXCEPT ![Scope(p)].scope = TRUE]
    /\ Go(p, "open")
    /\ UNCHANGED <<journal, world, gone, edits, faults>>

-----------------------------------------------------------------------------
\* What is in the scope: the walk of a sweep finds its candidates one by one, the
\* run over a folder lists all of them with their identities, for the user to confirm.
Present(s) == SelectSeq(Items[s], LAMBDA i : world[i] # 0)
Snapshot(is) == [n \in Nodes |-> IF \E k \in DOMAIN is : n \in Tree(is[k]) THEN world[n] ELSE 0]

Open(p) ==
    /\ At(p, "open")
    /\ IF p \in Streaming
       THEN /\ Envelope(p)
            /\ Set(p, [run[p] EXCEPT !.pc = "walk", !.items = Items[Scope(p)]])
       ELSE /\ \/ Set(p, [run[p] EXCEPT !.pc = "walk", !.items = Present(Scope(p)),
                                        !.seen = Snapshot(Present(Scope(p)))])
               \/ Go(p, "close")
            /\ Noted
    /\ UNCHANGED <<gate, locks, world, gone, edits>>

Protected(i) == \E n \in Inner[i] \cap Precious : world[n] # 0

\* The candidate is done with, and the walk goes on at step s.
Done(p, s, fs) ==
    [pc |-> s, left |-> run[p].left, items |-> Tail(run[p].items), item |-> None,
     seen |-> IF p \in Streaming THEN NoNodes ELSE run[p].seen, before |-> 0, list |-> {}, tries |-> 0,
     event |-> "none", flags |-> run[p].flags \cup fs, result |-> run[p].result]

\* walk_error: counted, and recorded if that can be.
Unreadable(p) == Envelope(p) /\ Set(p, Done(p, "walk", {}))

Candidate(p, i) ==
    \/ world[i] = 0 /\ Set(p, [run[p] EXCEPT !.items = Tail(@)]) /\ Noted
    \/ world[i] # 0 /\ Unreadable(p)
    \/ /\ world[i] # 0 /\ Protected(i)
       /\ \/ Written(p, "RISKY_EXCLUDED", i) /\ Set(p, [run[p] EXCEPT !.items = Tail(@)])
          \/ Unwritten(p, "RISKY_EXCLUDED", i) /\ Go(p, "lost")
    \/ /\ world[i] # 0 /\ ~Protected(i) /\ Noted
       /\ Set(p, [run[p] EXCEPT !.pc = "intent", !.item = i, !.seen = Snapshot(<<i>>)])

Walk(p) ==
    /\ At(p, "walk")
    /\ \/ p \in Streaming /\ Stopped(p) /\ Go(p, "cancelled") /\ Noted
       \/ ~Stopped(p) /\ run[p].items = << >> /\ Go(p, "close") /\ Noted
       \/ /\ ~Stopped(p) /\ run[p].items # << >>
          /\ IF p \in Streaming THEN Candidate(p, Head(run[p].items))
             ELSE Set(p, [run[p] EXCEPT !.pc = "check", !.item = Head(run[p].items)]) /\ Noted
    /\ UNCHANGED <<gate, locks, world, gone, edits>>

\* Mutant: what cannot be announced is deleted all the same.
IntentIgnored(p) ==
    /\ At(p, "intent") /\ (Written(p, "INTENT", run[p].item) \/ Unwritten(p, "INTENT", run[p].item)) /\ Go(p, "check")
    /\ UNCHANGED <<gate, locks, world, gone, edits>>

\* Nothing is deleted before its INTENT is on the disk.
Intent(p) ==
    /\ At(p, "intent")
    /\ \/ Stopped(p) /\ Go(p, "cancelled") /\ Noted
       \/ ~Stopped(p) /\ Written(p, "INTENT", run[p].item) /\ Go(p, "check")
       \/ ~Stopped(p) /\ Unwritten(p, "INTENT", run[p].item) /\ Go(p, "lost")
    /\ UNCHANGED <<gate, locks, world, gone, edits>>

-----------------------------------------------------------------------------
Ends(p, ev) == Set(p, [run[p] EXCEPT !.pc = "outcome", !.event = ev])
Same(p, i) == \A n \in Tree(i) : world[n] = run[p].seen[n]

\* delete_junk: the candidate must still be what was witnessed, as far as it can be
\* read.
Check(p) ==
    LET i == run[p].item  barred == p \in Streaming /\ Protected(i) IN
    /\ At(p, "check")
    /\ \/ barred /\ Ends(p, "RISKY_EXCLUDED") /\ UNCHANGED faults
       \/ ~barred /\ ~Same(p, i) /\ Ends(p, "SKIPPED_CHANGED") /\ UNCHANGED faults
       \/ ~barred /\ Same(p, i) /\ Go(p, "remove") /\ UNCHANGED faults
       \/ ~barred /\ Fault /\ Ends(p, "FAILED")
    /\ UNCHANGED <<journal, gate, locks, world, gone, edits>>

\* The identity is read once more before the removal; a candidate that is gone by
\* then raises past the outcome: a sweep counts it as unreadable, a run over a
\* folder ends.
Identify(p) ==
    LET i == run[p].item IN
    /\ At(p, "remove") /\ run[p].before = 0
    /\ \/ /\ world[i] # 0
          /\ Set(p, [run[p] EXCEPT !.before = world[i], !.list = {n \in Inner[i] : world[n] # 0}])
          /\ Noted
       \/ world[i] = 0 /\ p \in Streaming /\ Unreadable(p)
       \/ world[i] = 0 /\ p \notin Streaming /\ Go(p, "unlock") /\ Noted
    /\ UNCHANGED <<gate, locks, world, gone, edits>>

Removes(p, n) == world' = [world EXCEPT ![n] = 0] /\ gone' = [gone EXCEPT ![p] = @ \cup {n}]
Kept == UNCHANGED <<world, gone>>
Mutated(p) == Tree(run[p].item) \cap gone[p] # {}

\* Mutant: a tree that could not be removed counts as untouched.
StuckUntouched(p) == IF world[run[p].item] = run[p].before THEN "SKIPPED_BUSY" ELSE "SKIPPED_CHANGED"

\* What is reported when a removal is given up.
Stuck(p) ==
    IF Mutated(p) THEN "PARTIAL_BUSY"
    ELSE IF world[run[p].item] = run[p].before THEN "SKIPPED_BUSY" ELSE "SKIPPED_CHANGED"

\* Mutant: one attempt too many.
RemoveFileLonger(p) ==
    LET i == run[p].item IN
    /\ At(p, "remove") /\ run[p].before # 0 /\ Inner[i] = {} /\ Kept
    /\ IF run[p].tries <= 2 THEN Set(p, [run[p] EXCEPT !.tries = @ + 1]) ELSE Ends(p, Stuck(p))
    /\ UNCHANGED <<journal, gate, locks, edits, faults>>

\* _delete_file_with_retry: what is in use is tried again, twice.
RemoveFile(p) ==
    LET i == run[p].item IN
    /\ At(p, "remove") /\ run[p].before # 0 /\ Inner[i] = {}
    /\ \/ world[i] # 0 /\ Removes(p, i) /\ Ends(p, "DELETED") /\ UNCHANGED faults
       \/ world[i] = 0 /\ Kept /\ Ends(p, "SKIPPED_CHANGED") /\ UNCHANGED faults
       \/ /\ world[i] # 0 /\ Kept /\ UNCHANGED faults
          /\ IF run[p].tries < 2 THEN Set(p, [run[p] EXCEPT !.tries = @ + 1]) ELSE Ends(p, Stuck(p))
       \/ world[i] # 0 /\ Kept /\ Fault /\ Ends(p, "FAILED")
    /\ UNCHANGED <<journal, gate, locks, edits>>

\* remove_tree_with_tracking: what was listed goes one by one, then the directory,
\* if nothing was put into it meanwhile; nothing is tried again.
RemoveTree(p) ==
    LET i == run[p].item  rest == run[p].list IN
    /\ At(p, "remove") /\ run[p].before # 0 /\ Inner[i] # {}
    /\ \/ \E n \in rest :
             /\ world[n] # 0 /\ Removes(p, n) /\ UNCHANGED faults
             /\ Set(p, [run[p] EXCEPT !.list = @ \ {n}])
       \/ /\ rest = {} /\ world[i] # 0 /\ \A n \in Inner[i] : world[n] = 0
          /\ Removes(p, i) /\ Ends(p, "DELETED") /\ UNCHANGED faults
       \/ Kept /\ Ends(p, Stuck(p)) /\ UNCHANGED faults
       \/ Kept /\ Fault /\ Ends(p, "FAILED")
    /\ UNCHANGED <<journal, gate, locks, edits>>

\* Mutant: only failures count.
CountedFailed(ev) == IF ev = "DELETED" THEN {"deleted"} ELSE IF ev = "FAILED" THEN {"error"} ELSE {}

\* What an outcome adds to the report.
Counted(ev) == (IF ev = "DELETED" THEN {"deleted"} ELSE {})
               \cup (IF ev \in Outcomes \ {"DELETED", "RISKY_EXCLUDED"} THEN {"error"} ELSE {})
After(p, s, fs) == Set(p, Done(p, s, Counted(run[p].event) \cup fs))
Fatal(p) == IF run[p].event = "FAILED" THEN {"fatal"} ELSE {}

\* The outcome is counted, then recorded; a device error stops the whole run, and
\* so does an outcome that cannot be recorded.
Outcome(p) ==
    /\ At(p, "outcome")
    /\ \/ p \in Streaming /\ Written(p, run[p].event, run[p].item) /\ After(p, "walk", Fatal(p))
       \/ p \in Streaming /\ Unwritten(p, run[p].event, run[p].item) /\ After(p, "lost", {})
       \/ p \notin Streaming /\ After(p, "walk", {}) /\ Noted
    /\ UNCHANGED <<gate, locks, world, gone, edits>>

-----------------------------------------------------------------------------
\* The end of a drive.
Cancelled(p) ==
    /\ At(p, "cancelled")
    /\ IF Has(p, "fatal") THEN GoWith(p, "close", {"skipped"}) /\ Envelope(p)
       ELSE \/ GoWith(p, "close", {"skipped"}) /\ Noted
            \/ GoWith(p, "close", {"skipped", "lost"}) /\ Unnoted(p)
    /\ UNCHANGED <<gate, locks, world, gone, edits>>

Lost(p) ==
    /\ At(p, "lost") /\ GoWith(p, "close", {"lost"})
    /\ Envelope(p)
    /\ UNCHANGED <<gate, locks, world, gone, edits>>

Close(p) ==
    /\ At(p, "close") /\ Go(p, "unlock")
    /\ IF p \in Streaming THEN Envelope(p) ELSE Noted
    /\ UNCHANGED <<gate, locks, world, gone, edits>>

\* release_single_flight: the token is given back,
Unlock(p) ==
    /\ At(p, "unlock") /\ Go(p, "unlink")
    /\ locks' = [locks EXCEPT ![Scope(p)].holder = None]
    /\ UNCHANGED <<journal, gate, world, gone, edits, faults>>

\* Mutant: a sweep without its journal goes on to the next drive.
UnlinkGoesOn(p) ==
    /\ At(p, "unlink")
    /\ locks' = IF locks[Scope(p)].holder = None
                THEN [locks EXCEPT ![Scope(p)].there = FALSE, ![Scope(p)].scope = FALSE] ELSE locks
    /\ IF p \in Streaming /\ Stopped(p) THEN Go(p, "finish") ELSE Refused(p)
    /\ UNCHANGED <<journal, gate, world, gone, edits, faults>>

\* then the file is removed, unless another run has taken it by then.  Without its
\* journal, stopped or after a device error a sweep goes to no other drive.
Unlink(p) ==
    /\ At(p, "unlink")
    /\ locks' = IF locks[Scope(p)].holder = None
                THEN [locks EXCEPT ![Scope(p)].there = FALSE, ![Scope(p)].scope = FALSE] ELSE locks
    /\ IF p \in Streaming /\ (Stopped(p) \/ Has(p, "lost")) THEN Go(p, "finish") ELSE Refused(p)
    /\ UNCHANGED <<journal, gate, world, gone, edits, faults>>

\* The result of the sweep.
Result(p) ==
    LET deleted == Has(p, "deleted") IN
    IF run[p].flags \cap {"fatal", "lost"} # {} THEN IF deleted THEN "PARTIAL" ELSE "FAILED"
    ELSE IF run[p].flags \cap {"stop", "skipped"} # {} THEN IF deleted THEN "PARTIAL" ELSE "CANCELLED"
    ELSE IF Has(p, "error") THEN "PARTIAL" ELSE "COMPLETE"

Finish(p) ==
    /\ At(p, "finish")
    /\ Set(p, [run[p] EXCEPT !.pc = "over", !.result = Result(p)])
    /\ Envelope(p)
    /\ UNCHANGED <<gate, locks, world, gone, edits>>

\* The user asks a sweep to stop, or its window fails.
Stop(p) ==
    /\ p \in Streaming /\ run[p].pc \notin {"idle", "over", "dead", "finish"} /\ ~Has(p, "stop")
    /\ Set(p, [run[p] EXCEPT !.flags = @ \cup {"stop"}])
    /\ UNCHANGED <<journal, gate, locks, world, gone, edits, faults>>

\* The process ends: the system frees what it had locked, and a record may be torn.
Crash(p) ==
    /\ run[p].pc \notin {"idle", "over", "dead"} /\ Fault
    /\ Go(p, "dead")
    /\ gate' = IF gate = p THEN None ELSE gate
    /\ locks' = [s \in Scopes |-> IF Holds(p, s) THEN [locks[s] EXCEPT !.holder = None] ELSE locks[s]]
    /\ journal' \in {journal, Tear(p)}
    /\ UNCHANGED <<world, gone, edits>>

-----------------------------------------------------------------------------
\* Other programs write, replace and remove files.
Put(n) ==
    /\ edits < MaxEdits /\ edits' = edits + 1
    /\ n \in Cands \/ \E i \in Cands : n \in Inner[i] /\ world[i] # 0
    /\ world' = [world EXCEPT ![n] = edits + 2]
    /\ UNCHANGED <<run, journal, gate, locks, gone, faults>>

TakeAway(i) ==
    /\ edits < MaxEdits /\ edits' = edits + 1
    /\ world[i] # 0
    /\ world' = [n \in Nodes |-> IF n \in Tree(i) THEN 0 ELSE world[n]]
    /\ UNCHANGED <<run, journal, gate, locks, gone, faults>>

RunStep(p) ==
    \/ Start(p) \/ NextScope(p) \/ TakeGate(p) \/ Probe(p) \/ Token(p) \/ Publish(p) \/ Open(p)
    \/ Walk(p) \/ Intent(p) \/ Check(p) \/ Identify(p) \/ RemoveFile(p) \/ RemoveTree(p) \/ Outcome(p)
    \/ Cancelled(p) \/ Lost(p) \/ Close(p) \/ Unlock(p) \/ Unlink(p) \/ Finish(p)

\* Nobody has anything left to do.
Rest == (\A p \in Runs : run[p].pc \in {"over", "dead"}) /\ UNCHANGED vars

Next ==
    \/ \E p \in Runs : RunStep(p) \/ Stop(p) \/ Crash(p)
    \/ \E n \in Nodes : Put(n)
    \/ \E i \in Cands : TakeAway(i)
    \/ Rest

Spec == Init /\ [][Next]_vars

-----------------------------------------------------------------------------
\* Properties.

\* Two runs never work at the same time on scopes of which one lies in the other.
Working(p) == run[p].pc \in {"open", "walk", "intent", "check", "remove", "outcome", "cancelled", "lost", "close"}
ScopesAreDisjoint ==
    \A p, q \in Runs : p # q /\ Working(p) /\ Working(q) => ~Conflict(Scope(p), Scope(q))

\* Whatever a sweep has removed of a candidate is announced in its journal, unless
\* an earlier record, of a kind the run does not need, was torn.
Announced(p) == journal[p].torn \/ \A i \in Own(p) : Tree(i) \cap gone[p] # {} => i \in Parsed(p, "INTENT")
RemovedIsAnnounced == \A p \in Streaming : Announced(p)

\* An outcome in a journal is true: DELETED when the run itself removed the
\* candidate, and a skip only if it removed nothing of it.
OutcomeIsTrue ==
    \A p \in Streaming :
        /\ Parsed(p, "DELETED") \subseteq gone[p]
        /\ \A ev \in {"SKIPPED_CHANGED", "SKIPPED_BUSY", "RISKY_EXCLUDED"} :
              \A i \in Parsed(p, ev) : Tree(i) \cap gone[p] = {}

\* After a device error, or a record it could not write, a sweep removes nothing more.
StopIsFinal ==
    [][\A p \in Streaming : run[p].pc = "lost" \/ run[p].flags \cap {"fatal", "lost"} # {} => gone'[p] = gone[p]]_vars

\* A sweep that ends COMPLETE has left no candidate half removed, and none that its
\* journal says was skipped or failed.
CompleteIsTrue ==
    \A p \in Streaming : run[p].result = "COMPLETE" =>
        \A i \in Parsed(p, "INTENT") \ gone[p] :
            /\ Tree(i) \cap gone[p] = {}
            /\ \A ev \in Outcomes \ {"RISKY_EXCLUDED"} : i \notin Parsed(p, ev)

\* A run that ended has nothing dangling in its journal: those are of crashed runs.
EndedIsSettled ==
    \A p \in Streaming : run[p].result = "COMPLETE" => Dangling(p) = {}

\* A sweep reported as cancelled has removed nothing.
CancelledIsClean ==
    \A p \in Streaming : run[p].result = "CANCELLED" => gone[p] = {}

\* Only what was witnessed is removed.
RemovedAsWitnessed ==
    [][\A p \in Runs : \A n \in gone'[p] \ gone[p] : world[n] = run[p].seen[n]]_vars

\* The journal a sweep deletes on is one the parser can read.
JournalIsReadable ==
    [][\A p \in Streaming : journal[p].torn => gone'[p] = gone[p]]_vars
=============================================================================
