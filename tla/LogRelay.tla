------------------------------ MODULE LogRelay ------------------------------
(***************************************************************************)
(* The live log relay of a managed account (accounts/sai_relay.py).        *)
(*                                                                         *)
(* The operator starts a relay for one log file.  A detached runner polls  *)
(* it: it probes the path, names what happened to the source, reads on     *)
(* from its offset, publishes whole lines into the staged copy, rotates    *)
(* that copy at its size bound, and then saves its state; a lease that is  *)
(* revoked or expires ends it.  The source is written, truncated, replaced *)
(* and taken away by its owner at any moment, and the runner may die       *)
(* between publishing and saving, and be resumed by hand, with or without  *)
(* a word of it, or be followed by a single cycle of `once`.               *)
(*                                                                         *)
(* Abstractions: the bytes are numbered units in the order in which the    *)
(* source's owner wrote them, some of which end a line; sizes count units; *)
(* a delay has passed or not.  The bound on pending bytes and the list of  *)
(* gaps are left out.  One process publishes at a time: see README for the *)
(* second runner a start admits beside a stopped one that still sleeps,    *)
(* and for `once` beside a runner.                                         *)
(***************************************************************************)
EXTENDS Naturals, FiniteSets, SequencesExt

CONSTANTS
    Keep,        \* --keep: generations of the staged copy
    MaxBytes,    \* --max-bytes: the size from which it is rotated
    MaxUnits,    \* bound: units the owner writes
    MaxChanges,  \* bound: truncations, replacements and absences of the source
    MaxFaults,   \* bound: crashes of the runner and failing moves
    MaxStarts    \* bound: starts and resumptions

VARIABLES
    src,         \* the source path: [kind, id, epoch, data]
    units,       \* units written so far
    ends,        \* the units that end a line
    staged,      \* the generations of the copy: staged[1] is the primary
    hist,        \* ghost: everything ever published, markers included
    unsaved,     \* ghost: what was published since has not reached state.json, without a word
    lease,       \* lease.json
    disk,        \* state.json
    runner,      \* the runner: where it is in its cycle, and its state
    changes, faults, starts,
    blind        \* ghost: the offset or the pending part was not of what was read

vars == <<src, units, ends, staged, hist, unsaved, lease, disk, runner, changes, faults, starts,
          blind>>
worldVars == <<src, units, ends, changes>>

Unit == 1..MaxUnits
Gap == 0                    \* a marker line of gap_marker
Begin == MaxUnits + 1       \* ghost: a start, where a new stream begins
Seam == MaxUnits + 2        \* ghost: taken up without a word from what was not saved
NoId == 0
Off == [at |-> "off"]

\* relay_state: what the runner keeps; `epoch` is ghost, the content its offset is of.
Fresh == [id |-> NoId, offset |-> 0, pending |-> <<>>, quiet |-> FALSE, missing |-> FALSE,
          unsafe |-> FALSE, lost |-> FALSE, epoch |-> 0]

Init ==
    /\ src = [kind |-> "OK", id |-> 1, epoch |-> 1, data |-> <<>>]
    /\ units = 0 /\ ends = {}
    /\ staged = [i \in 1..Keep + 1 |-> {}] /\ hist = <<>> /\ unsaved = FALSE
    /\ lease = [revoked |-> TRUE, expired |-> FALSE]
    /\ disk = Fresh
    /\ runner = Off
    /\ changes = 0 /\ faults = 0 /\ starts = 0 /\ blind = FALSE

-----------------------------------------------------------------------------
(* The owner of the source. *)

Write ==
    /\ src.kind = "OK" /\ units < MaxUnits
    /\ units' = units + 1
    /\ src' = [src EXCEPT !.data = Append(@, units + 1)]
    /\ ends' \in {ends, ends \cup {units + 1}}
    /\ UNCHANGED <<staged, hist, unsaved, lease, disk, runner, changes, faults, starts, blind>>

\* A truncation keeps the file; a replacement puts another one under its name.
Change ==
    /\ changes < MaxChanges /\ changes' = changes + 1
    /\ \/ src.kind = "OK" /\ src' = [src EXCEPT !.data = <<>>, !.epoch = @ + 1]
       \/ src' = [kind |-> "OK", id |-> src.epoch + 1, epoch |-> src.epoch + 1, data |-> <<>>]
       \/ \E k \in {"MISSING", "DENIED", "UNSAFE_OBJECT"} :
            src.kind = "OK" /\ src' = [src EXCEPT !.kind = k]
       \/ src.kind # "OK" /\ src' = [src EXCEPT !.kind = "OK"]
    /\ UNCHANGED <<units, ends, staged, hist, unsaved, lease, disk, runner, faults, starts, blind>>

-----------------------------------------------------------------------------
(* The staged copy. *)

\* The places that entries take in the history.
Places(h, entries) == (Len(h) + 1)..(Len(h) + Len(entries))

\* append_staged: the entries go to the end of the primary.
Appended(gens, h, entries) == [gens EXCEPT ![1] = @ \cup Places(h, entries)]

\* os.replace of one generation onto the next older name.
Move(gens, i) == IF gens[i] = {} THEN gens ELSE [gens EXCEPT ![i + 1] = gens[i], ![i] = {}]

\* The moves of rotate_output, oldest first, the primary last.
Moves == [j \in 1..Keep |-> Keep + 1 - j]

\* The generations when n of the moves are done.
AfterMoves(gens, n) == FoldLeft(Move, gens, SubSeq(Moves, 1, n))

\* The moves that can be refused: those of a generation that is there.
Refusable(gens) ==
    {k \in 0..Keep - 1 : faults < MaxFaults /\ AfterMoves(gens, k)[Moves[k + 1]] # {}}

\* Mutant: a refused move is passed over, and the younger generations move on.
RotationsPressingOn(gens) ==
    IF Cardinality(gens[1]) < MaxBytes
    THEN {[ok |-> TRUE, gens |-> gens]}
    ELSE {[ok |-> TRUE, gens |-> AfterMoves(gens, Keep)]}
         \cup {[ok |-> FALSE,
                 gens |-> FoldLeft(Move, AfterMoves(gens, n), SubSeq(Moves, n + 2, Keep))] :
                 n \in Refusable(gens)}

\* rotate_output: TRUE and the rotated generations; or a move that is refused, where
\* it stops, and no generation is deleted for it.
Rotations(gens) ==
    IF Cardinality(gens[1]) < MaxBytes
    THEN {[ok |-> TRUE, gens |-> gens]}
    ELSE {[ok |-> TRUE, gens |-> AfterMoves(gens, Keep)]}
         \cup {[ok |-> FALSE, gens |-> AfterMoves(gens, n)] : n \in Refusable(gens)}

-----------------------------------------------------------------------------
(* The runner. *)

\* Its state with a marker published for it.
Marked(r) == [r EXCEPT !.hist = Append(@, Gap), !.gens = Appended(@, r.hist, <<Gap>>)]
Said(r, entries) == [r EXCEPT !.hist = @ \o entries, !.gens = Appended(@, r.hist, entries)]

\* What flush_quiet_partial makes of a poll: the delay starts, runs or is over.
Flushes(r) ==
    LET p == r.st.pending IN
    IF p = <<>> THEN {[r EXCEPT !.st.quiet = FALSE]}
    ELSE IF ~r.st.quiet THEN {[r EXCEPT !.st.quiet = TRUE]}
    ELSE {r, [Said(Marked(r), p) EXCEPT !.st.pending = <<>>, !.st.quiet = FALSE]}

\* A source that is not there: said once, and once more when the grace is over.
Absent(r) ==
    LET m == IF r.st.missing THEN r ELSE [Marked(r) EXCEPT !.st.missing = TRUE]
    IN  UNION {Flushes(x) : x \in {m} \cup (IF m.st.lost THEN {}
                                           ELSE {[Marked(m) EXCEPT !.st.lost = TRUE]})}

\* A source that is back.
Returned(r) ==
    IF ~r.st.missing THEN r
    ELSE [Marked(r) EXCEPT !.st.missing = FALSE, !.st.unsafe = FALSE]

\* Another file under the name: its stream starts at zero, and that is said.
Replaced(r, id) ==
    IF r.st.id \in {NoId, id} THEN [r EXCEPT !.st.id = id]
    ELSE [Marked(r) EXCEPT !.st.id = id, !.st.offset = 0, !.st.pending = <<>>,
                           !.st.quiet = FALSE, !.st.lost = FALSE]

\* Mutant: the offset starts over without a word.
SilentlyTruncated(r, size) ==
    IF size >= r.st.offset THEN r
    ELSE [r EXCEPT !.st.offset = 0, !.st.pending = <<>>, !.st.quiet = FALSE]

\* A file shorter than what was read of it.
Truncated(r, size) ==
    IF size >= r.st.offset THEN r
    ELSE [Marked(r) EXCEPT !.st.offset = 0, !.st.pending = <<>>, !.st.quiet = FALSE]

\* The whole lines of a sequence of units, and the rest.
Lines(s) == SubSeq(s, 1, SelectLastInSeq(s, LAMBDA u : u \in ends))
Rest(s) == SubSeq(s, SelectLastInSeq(s, LAMBDA u : u \in ends) + 1, Len(s))

\* What is read now of the bytes the probe counted.
Chunk(r, size) == SubSeq(src.data, r.st.offset + 1, IF size < Len(src.data) THEN size
                                                    ELSE Len(src.data))

\* Ghost: the chunk is of other content than what was read before it.
Stale(r, c) == /\ c # <<>> /\ r.st.epoch # src.epoch
               /\ r.st.offset > 0 \/ r.st.pending # <<>>

\* The chunk is read, its whole lines are published, and the offset follows; a
\* rotation that is refused raises with the pending part already exchanged.
Reads(r, size) ==
    LET c == Chunk(r, size)
        all == r.st.pending \o c
        lines == Lines(all)
        kept == [r EXCEPT !.st.pending = Rest(all),
                          !.st.epoch = IF c = <<>> THEN @ ELSE src.epoch,
                          !.blind = @ \/ Stale(r, c)]
        done == [kept EXCEPT !.st.offset = @ + Len(c)]
    IN  IF lines = <<>> THEN Flushes(done)
        ELSE UNION {IF rot.ok
                    THEN Flushes(Said([done EXCEPT !.gens = rot.gens], lines))
                    ELSE {[Marked([kept EXCEPT !.gens = rot.gens]) EXCEPT !.ok = FALSE,
                             !.blind = @ \/ r.st.pending # <<>> \/ Rest(all) # <<>>]} :
                    rot \in Rotations(r.gens)}

\* A source that is there, as the probe saw it.
Present(r, id, size) ==
    LET s == Truncated(Replaced(Returned(r), id), size)
    IN  IF size <= s.st.offset THEN Flushes(s)
        ELSE IF src.kind = "OK" THEN Reads(s, size)
        ELSE IF src.kind = "MISSING" THEN {[s EXCEPT !.ok = FALSE]}
        ELSE {s}

\* poll_once, for what the probe found.
Polls(r, probe) ==
    CASE probe.kind = "OK" -> Present(r, probe.id, probe.size)
      [] probe.kind = "MISSING" -> Absent(r)
      [] probe.kind = "DENIED" -> {r}
      [] probe.kind = "UNSAFE_OBJECT" ->
            {IF r.st.unsafe THEN r ELSE [Marked(r) EXCEPT !.st.unsafe = TRUE]}

\* A marker published by itself.
Mark == /\ hist' = Append(hist, Gap)
        /\ staged' = Appended(staged, hist, <<Gap>>)

\* The lease is read again in every cycle; a revoked or expired one is the end.
CheckLease ==
    /\ runner.at = "lease"
    /\ IF lease.revoked \/ lease.expired
       THEN /\ Mark
            /\ lease' = [lease EXCEPT !.revoked = TRUE]
            /\ disk' = runner.st /\ unsaved' = FALSE
            /\ runner' = Off
       ELSE /\ runner' = [runner EXCEPT !.at = "probe"]
            /\ UNCHANGED <<staged, hist, unsaved, lease, disk>>
    /\ UNCHANGED <<worldVars, faults, starts, blind>>

Probe ==
    /\ runner.at = "probe"
    /\ runner' = [at |-> "poll", st |-> runner.st, once |-> runner.once,
                  probe |-> [kind |-> src.kind, id |-> src.id, size |-> Len(src.data)]]
    /\ UNCHANGED <<worldVars, staged, hist, unsaved, lease, disk, faults, starts, blind>>

\* A refusal ends the process; cmd_run saves its state for it, cmd_once does not.
Poll ==
    /\ runner.at = "poll"
    /\ \E r \in Polls([st |-> runner.st, hist |-> hist, gens |-> staged, ok |-> TRUE,
                       blind |-> blind], runner.probe) :
        /\ hist' = r.hist /\ staged' = r.gens /\ blind' = r.blind
        /\ faults' = IF r.ok \/ src.kind # "OK" THEN faults ELSE faults + 1
        /\ runner' = IF r.ok THEN [at |-> "save", st |-> r.st, once |-> runner.once] ELSE Off
        /\ disk' = IF r.ok \/ runner.once THEN disk ELSE r.st
        /\ unsaved' = IF r.ok \/ runner.once THEN unsaved \/ hist' # hist ELSE FALSE
    /\ UNCHANGED <<worldVars, lease, starts>>

Save ==
    /\ runner.at = "save"
    /\ disk' = runner.st /\ unsaved' = FALSE
    /\ runner' = IF runner.once THEN Off ELSE [runner EXCEPT !.at = "lease"]
    /\ UNCHANGED <<worldVars, staged, hist, lease, faults, starts, blind>>

Crash ==
    /\ runner # Off /\ faults < MaxFaults
    /\ faults' = faults + 1
    /\ runner' = Off
    /\ UNCHANGED <<worldVars, staged, hist, unsaved, lease, disk, starts, blind>>

-----------------------------------------------------------------------------
(* The operator. *)

\* cmd_start: a source that can be read, a new lease, and a state that starts over.
Start ==
    /\ runner = Off /\ starts < MaxStarts /\ src.kind = "OK"
    /\ starts' = starts + 1
    /\ lease' = [revoked |-> FALSE, expired |-> FALSE]
    /\ disk' = Fresh /\ unsaved' = FALSE
    /\ runner' = [at |-> "lease", st |-> Fresh, once |-> FALSE]
    /\ hist' = Append(hist, Begin)
    /\ UNCHANGED <<worldVars, staged, faults, blind>>

\* Mutant: a resumed runner says nothing of the one before.
NoWord == UNCHANGED <<hist, staged>>

\* The marker RUNNER_RESTARTED.
Restarted == Mark

\* The state is taken up as it was saved, and nothing is said.
Silently ==
    /\ hist' = IF unsaved THEN Append(hist, Seam) ELSE hist
    /\ UNCHANGED staged

TakesUp(at, once) ==
    /\ runner = Off /\ starts < MaxStarts /\ starts' = starts + 1
    /\ runner' = [at |-> at, st |-> disk, once |-> once]
    /\ unsaved' = FALSE
    /\ UNCHANGED <<worldVars, lease, disk, faults, blind>>

\* cmd_run by hand after the runner of the lease is gone: that is said when the lease has
\* the number of that runner and no process has it now.  cmd_start writes the number last,
\* and may have died before, and a number is given again.
Resume == ~lease.revoked /\ TakesUp("lease", FALSE) /\ (Restarted \/ Silently)

\* cmd_once: one cycle, whatever became of the lease, and no marker.
Once == starts > 0 /\ TakesUp("probe", TRUE) /\ Silently

Stop ==
    /\ ~lease.revoked
    /\ lease' = [lease EXCEPT !.revoked = TRUE]
    /\ Mark
    /\ UNCHANGED <<worldVars, unsaved, disk, runner, faults, starts, blind>>

Expire ==
    /\ ~lease.revoked /\ ~lease.expired
    /\ lease' = [lease EXCEPT !.expired = TRUE]
    /\ UNCHANGED <<worldVars, staged, hist, unsaved, disk, runner, faults, starts, blind>>

Next ==
    \/ Write \/ Change
    \/ CheckLease \/ Probe \/ Poll \/ Save \/ Crash
    \/ Start \/ Resume \/ Once \/ Stop \/ Expire

Spec == Init /\ [][Next]_vars

-----------------------------------------------------------------------------
TypeOK ==
    /\ src.kind \in {"OK", "MISSING", "DENIED", "UNSAFE_OBJECT"}
    /\ units \in 0..MaxUnits /\ ends \subseteq Unit
    /\ staged \in [1..Keep + 1 -> SUBSET (1..Len(hist))]
    /\ hist \in Seq({Gap, Begin, Seam} \cup Unit) /\ unsaved \in BOOLEAN
    /\ lease \in [revoked : BOOLEAN, expired : BOOLEAN]
    /\ runner.at \in {"off", "lease", "probe", "poll", "save"}
    /\ blind \in BOOLEAN

\* No gap is silently closed: what stands side by side in the staged stream of one
\* lease was written side by side, and wherever the stream skips or repeats what the
\* owner wrote (truncation, replacement, a crash between publishing and saving) a
\* marker stands between - but at a Seam: where a process takes up, without a word, a
\* state from before the last publication, lines are repeated, and that place alone is
\* excepted.  The relay cannot see a file that is truncated and grows past its offset
\* between two polls, nor one exchanged between its probe and its read, and a refused
\* rotation exchanges the pending part: `blind`.
NoSilentGap ==
    ~blind => \A i \in 1..Len(hist) - 1 :
        hist[i] \in Unit /\ hist[i + 1] \in Unit => hist[i + 1] = hist[i] + 1

Retained == UNION {staged[i] : i \in DOMAIN staged}

\* The staged generations are the newest part of what was published, without a hole
\* and in order, whichever moves of however many rotations were refused.
RetainedIsRecent ==
    /\ \A i \in Retained, j \in 1..Len(hist) :
         i < j /\ hist[j] \notin {Begin, Seam} => j \in Retained
    /\ \A a, b \in DOMAIN staged : a < b => \A i \in staged[a], j \in staged[b] : i > j
=============================================================================
