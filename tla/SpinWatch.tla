----------------------------- MODULE SpinWatch -----------------------------
(***************************************************************************)
(* The saispin watcher: Scripts/saispin_watch.ps1, which samples, saves,   *)
(* notifies and terminates, and Scripts/saispin_logic.py, which decides    *)
(* and which keeps the recovery leases of managed workers.                 *)
(*                                                                         *)
(* One sweep is a sequence of steps of the watcher: it samples every       *)
(* process, reads the streaks of earlier sweeps, decides, writes the       *)
(* streaks back, takes every process to be killed through the gate         *)
(* (Invoke-ProvenKill), shows one balloon and writes the notify ledger.    *)
(* It can die between any two of them.  Meanwhile processes start, spin,   *)
(* rest, lose their parent and end, a number is used again, and the        *)
(* holders of leases call the five functions of the lease API, each of     *)
(* which reads the file and later replaces it.                             *)
(*                                                                         *)
(* A unit of time is a sweep interval; a process is identified, as in the  *)
(* code, by its number and the time it was started.                        *)
(***************************************************************************)
EXTENDS Naturals, Sequences, Functions

CONSTANTS
  Pid,            \* numbers of processes
  Caller,         \* threads and programs that call the lease API
  RequiredHits,   \* thresholds.required_hits
  HotSpan,        \* thresholds.minimum_hot_minutes
  StaleGap,       \* timing.stale_gap_minutes
  Timeout,        \* heartbeat_timeout_seconds of a lease
  Life,           \* how long a lease is valid
  Reminder,       \* notifications.reminder_minutes
  MaxTime, MaxSweeps, MaxCalls, MaxFaults   \* bounds of the instance

SpinAssumption ==
  /\ {RequiredHits, HotSpan, StaleGap, Timeout, Life, Reminder} \subseteq Nat \ {0}
  /\ {MaxTime, MaxSweeps, MaxCalls, MaxFaults} \subseteq Nat

VARIABLES
  now,       \* the clock
  proc,      \* the last process under each number: live, born
  streaks,   \* saispin_state.json: identity -> streak
  damaged,   \* that file cannot be read
  ledger,    \* saispin_notify.json: identity -> what was said and when
  audit,     \* identities with a durable PRE-KILL line in saispin.log
  lease,     \* the lease files: identity -> lease
  registry,  \* producers.json: identities whose token it holds
  call,      \* each caller's call of the lease API, between its read and its write
  w,         \* the watcher
  seen,      \* ghost: identity -> when it was hot, in the sweeps saved since the last
             \* that found it cold, oldest first
  told,      \* ghost: identity -> the last balloon about it
  dead,      \* ghost: identities the watcher terminated
  held,      \* ghost: what the holders of each lease may rely on
  calls, sweeps, faults   \* counters of the bounds

vars == <<now, proc, streaks, damaged, ledger, audit, lease, registry, call, w,
          seen, told, dead, held, calls, sweeps, faults>>

files  == <<streaks, damaged, ledger, audit>>
leases == <<lease, registry, call, held, calls>>
ghosts == <<seen, told, dead>>

Time    == 0 .. MaxTime
Id      == Pid \X Time
Idle    == [step |-> "idle"]
NoCall  == [kind |-> "none"]

IdOf(p)   == <<p, proc[p].born>>
LiveIds   == {IdOf(p) : p \in {q \in Pid : proc[q].live}}
IsLive(i) == proc[i[1]].live /\ proc[i[1]].born = i[2]

\* f with i mapped to v, i new or not
With(f, i, v) == [j \in DOMAIN f \cup {i} |-> IF j = i THEN v ELSE f[j]]

Init ==
  /\ now = 0
  /\ proc \in [Pid -> [live : BOOLEAN, born : {0}]]
  /\ streaks = <<>> /\ damaged = FALSE /\ ledger = <<>> /\ audit = {}
  /\ lease = <<>> /\ registry = {} /\ call = [c \in Caller |-> NoCall]
  /\ w = Idle
  /\ seen = <<>> /\ told = <<>> /\ dead = {} /\ held = <<>>
  /\ calls = 0 /\ sweeps = 0 /\ faults = 0

Fault == faults < MaxFaults /\ faults' = faults + 1

---------------------------------------------------------------------------
(* The machine beneath the watcher.  It moves at the points where the      *)
(* watcher goes on to look at it: a move at another point has the effect   *)
(* of the same move at the next of these.                                  *)

At(steps) == w.step \in steps

Tick ==
  /\ now < MaxTime /\ At({"idle", "resampling"})
  /\ now' = now + 1
  /\ UNCHANGED <<proc, w, sweeps, faults>> /\ UNCHANGED <<files, leases, ghosts>>

\* A process starts under a free number; an identity is never used twice.
Start(p) ==
  /\ ~proc[p].live /\ now > proc[p].born /\ At({"idle", "acting", "resampling", "cleared"})
  /\ proc' = [proc EXCEPT ![p] = [live |-> TRUE, born |-> now]]
  /\ UNCHANGED <<now, w, sweeps, faults>> /\ UNCHANGED <<files, leases, ghosts>>

\* No file of an identity is looked at again when it has ended.
Forget(i) ==
  /\ lease' = Restrict(lease, DOMAIN lease \ {i})
  /\ held' = Restrict(held, DOMAIN held \ {i})
  /\ registry' = registry \ {i}
  /\ call' = [c \in Caller |-> IF call[c] # NoCall /\ call[c].id = i THEN NoCall ELSE call[c]]

Exit(p) ==
  /\ proc[p].live /\ At({"idle", "acting", "resampling", "cleared"})
  /\ proc' = [proc EXCEPT ![p].live = FALSE]
  /\ Forget(IdOf(p))
  /\ UNCHANGED <<now, w, calls, sweeps, faults>> /\ UNCHANGED <<files, ghosts>>

\* A full disk or another program leaves a state file that is no JSON.
Damage ==
  /\ Fault /\ ~damaged
  /\ damaged' = TRUE
  /\ UNCHANGED <<now, proc, streaks, ledger, audit, w, sweeps>> /\ UNCHANGED <<leases, ghosts>>

---------------------------------------------------------------------------
(* The lease API.  Every function reads the file, changes its copy and     *)
(* replaces the file; no lock is held from the read to the write, and the  *)
(* generation that write_lease_atomic compares is that of the copy itself. *)

FreshLease ==
  [revoked |-> FALSE, authorized |-> FALSE, until |-> now + Life, progress |-> now]

\* build_managed_lease, and the registry as register_managed_worker reads it.
ReadToRegister(c, p) ==
  /\ proc[p].live
  /\ call' = [call EXCEPT ![c] = [kind |-> "register", id |-> IdOf(p),
                                  new |-> FreshLease, reg |-> registry]]

Changed(kind, old) ==
  CASE kind = "heartbeat" -> [old EXCEPT !.progress = now]
    [] kind = "authorize" -> [old EXCEPT !.authorized = TRUE, !.revoked = FALSE]
    [] kind = "revoke"    -> [old EXCEPT !.authorized = FALSE, !.revoked = TRUE]

\* A heartbeat is refused on a revoked lease; without a file every call is.
ReadToChange(c, i) ==
  \E kind \in {"heartbeat", "authorize", "revoke"} :
    /\ kind = "heartbeat" => ~lease[i].revoked
    /\ call' = [call EXCEPT ![c] = [kind |-> kind, id |-> i, new |-> Changed(kind, lease[i])]]

Call(c) ==
  /\ call[c] = NoCall /\ calls < MaxCalls /\ At({"idle", "resampling"})
  /\ calls' = calls + 1
  /\ \/ \E p \in Pid : ReadToRegister(c, p)
     \/ \E i \in DOMAIN lease \cap LiveIds : ReadToChange(c, i)
  /\ UNCHANGED <<now, proc, lease, registry, held, w, sweeps, faults>>
  /\ UNCHANGED <<files, ghosts>>

\* No other call on the lease is between its read and its write.
Alone(c, i) == \A d \in Caller \ {c} : call[d] = NoCall \/ call[d].id # i

\* What its holders may rely on after a call that no other one overlapped:
\* whether killing was ever allowed, is withdrawn, and the last sign of life.
NoPromise == [granted |-> FALSE, withdrawn |-> FALSE, beat |-> 0]

Promise(c, kind, i) ==
  LET old == IF i \in DOMAIN held THEN held[i] ELSE NoPromise
  IN  [granted   |-> old.granted \/ kind = "authorize",
       withdrawn |-> CASE kind = "authorize" -> FALSE
                       [] kind \in {"revoke", "cleanup"} -> old.withdrawn \/ Alone(c, i)
                       [] OTHER -> old.withdrawn,
       beat      |-> IF kind \in {"register", "heartbeat"} /\ Alone(c, i)
                     THEN call[c].new.progress ELSE old.beat]

\* os.replace: the copy goes over whatever the file holds by now.
Replaced(i, new) == With(lease, i, new)

Return(c) ==
  LET k == call[c] IN
  /\ k # NoCall /\ At({"idle", "resampling"})
  /\ lease' = Replaced(k.id, k.new)
  /\ registry' = IF k.kind = "register" THEN k.reg \cup {k.id} ELSE registry
  /\ held' = With(held, k.id, Promise(c, k.kind, k.id))
  /\ call' = [call EXCEPT ![c] = NoCall]
  /\ UNCHANGED <<now, proc, w, calls, sweeps, faults>> /\ UNCHANGED <<files, ghosts>>

\* cleanup_managed_worker removes the file in one step.
Cleanup(c) ==
  /\ call[c] = NoCall /\ calls < MaxCalls /\ At({"idle", "resampling"})
  /\ calls' = calls + 1
  /\ \E i \in DOMAIN lease \cap LiveIds :
       /\ lease' = Restrict(lease, DOMAIN lease \ {i})
       /\ held' = With(held, i, Promise(c, "cleanup", i))
  /\ UNCHANGED <<now, proc, registry, call, w, sweeps, faults>> /\ UNCHANGED <<files, ghosts>>

---------------------------------------------------------------------------
(* Sampling and the decision engine.                                       *)

Stay == UNCHANGED <<now, proc>> /\ UNCHANGED leases

\* What a sweep reads of a process.  The core it burned is a free choice, and
\* so is what spares it: a parent, a rule, the never-kill names, a test run.
Readings == [LiveIds -> {"cold", "hot", "spared"}]

\* decide: a reading over the threshold is tracked, of a process that is spared too.
Tracked(s) == s # "cold"

\* Two readings of every process; the second one can come back empty, and
\* the sweep goes on with no sample at all.
Sample(arm) ==
  /\ w = Idle /\ sweeps < MaxSweeps
  /\ sweeps' = sweeps + 1
  /\ \/ /\ \E r \in Readings :
             w' = [step |-> "sampled", arm |-> arm, at |-> now, samples |-> r]
        /\ UNCHANGED faults
     \/ Fault /\ w' = [step |-> "sampled", arm |-> arm, at |-> now, samples |-> <<>>]
  /\ Stay /\ UNCHANGED files /\ UNCHANGED ghosts

\* An unreadable file starts an empty history that no kill may rest on.
Trusted == ~damaged
History == IF Trusted THEN streaks ELSE <<>>

\* The streak to extend: that of this identity, unless nobody watched for long.
Prior(i, at) ==
  IF i \in DOMAIN History /\ at - History[i].last <= StaleGap
  THEN History[i] ELSE [first |-> at, last |-> at, hits |-> 0]

Streak(i, at) ==
  [first |-> Prior(i, at).first, last |-> at, hits |-> Prior(i, at).hits + 1]

Sustained(r) == r.hits >= RequiredHits /\ r.last - r.first >= HotSpan

\* The token in the lease is one that the registry of producers knows; an entry
\* is never taken back.
Authentic(i) == i \in registry

\* evaluate_recovery_lease: owned, registered, allowed, unexpired, and stale.
Eligible(i, at) ==
  /\ i \in DOMAIN lease
  /\ Authentic(i)
  /\ ~lease[i].revoked /\ lease[i].authorized
  /\ at < lease[i].until
  /\ lease[i].progress <= at /\ at - lease[i].progress >= Timeout

Verdict(i, s) ==
  IF /\ w.arm
     /\ s = "hot"
     /\ Trusted
     /\ Eligible(i, w.at)
  THEN "KILL" ELSE "ALERT"

\* Mutant: a cold sample leaves a record with no hits.
NextStreaksOfAll ==
  [i \in DOMAIN w.samples |->
     IF Tracked(w.samples[i]) THEN Streak(i, w.at) ELSE [Streak(i, w.at) EXCEPT !.hits = 0]]

\* Mutant: the records of earlier sweeps are edited in place.
NextStreaksMerged ==
  [i \in {j \in DOMAIN w.samples : Tracked(w.samples[j])} \cup DOMAIN History |->
     IF i \in DOMAIN w.samples /\ Tracked(w.samples[i]) THEN Streak(i, w.at) ELSE History[i]]

\* sweep: the next state is made of the hot samples alone.
NextStreaks ==
  [i \in {j \in DOMAIN w.samples : Tracked(w.samples[j])} |-> Streak(i, w.at)]

\* What the engine answers: the next state, and a verdict on every process that has
\* been hot for long enough.
Answer(next) ==
  [step |-> "decided", at |-> w.at, next |-> next,
   hot |-> {j \in DOMAIN w.samples : Tracked(w.samples[j])},
   act |-> [i \in {j \in DOMAIN next : Sustained(next[j])} |-> Verdict(i, w.samples[i])]]

Decide ==
  /\ w.step = "sampled"
  /\ w' = Answer(NextStreaks)
  /\ Stay /\ UNCHANGED <<sweeps, faults>> /\ UNCHANGED <<files, ghosts>>

\* The engine answers with an error, or the watcher dies: nothing is written.
Die ==
  /\ Fault /\ w # Idle
  /\ w' = Idle
  /\ Stay /\ UNCHANGED sweeps /\ UNCHANGED <<files, ghosts>>

---------------------------------------------------------------------------
(* Persist first, then the gate.                                           *)

Acting(verbs) ==
  [step |-> "acting", at |-> w.at,
   todo |-> {i \in DOMAIN w.act : w.act[i] = "KILL" /\ i \notin DOMAIN verbs},
   said |-> [i \in {j \in DOMAIN w.act : w.act[j] = "ALERT"} \cup DOMAIN verbs |->
               IF i \in DOMAIN verbs THEN verbs[i] ELSE "ALERT"]]

\* What was seen of a process when this sweep is saved.
Seen(i) == Append(IF i \in DOMAIN seen THEN seen[i] ELSE <<>>, w.at)

\* A state that cannot be written leaves the old file, and no kill is tried.
Save ==
  /\ w.step = "decided"
  /\ \/ /\ streaks' = w.next /\ damaged' = FALSE
        /\ w' = Acting(<<>>)
        /\ seen' = [i \in w.hot |-> Seen(i)]
        /\ UNCHANGED faults
     \/ /\ Fault
        /\ w' = Acting([i \in {j \in DOMAIN w.act : w.act[j] = "KILL"} |-> "REFUSED"])
        /\ UNCHANGED <<streaks, damaged, seen>>
  /\ Stay /\ UNCHANGED <<sweeps, ledger, audit, told, dead>>

Said(i, verb) ==
  [step |-> "acting", at |-> w.at,
   todo |-> w.todo \ {i}, said |-> With(w.said, i, verb)]

AtGate(i, step) ==
  [step |-> step, cur |-> i, at |-> w.at,
   todo |-> w.todo, said |-> w.said]

\* The first reading of the gate: the same process; it can still refuse, for
\* its parent, its protected work or the window the user works in.
Gate1(i) ==
  /\ w.step = "acting" /\ i \in w.todo
  /\ \/ /\ IsLive(i)
        /\ w' = AtGate(i, "resampling")
     \/ w' = Said(i, "REFUSED")
  /\ Stay /\ UNCHANGED <<sweeps, faults>> /\ UNCHANGED <<files, ghosts>>

\* Mutant: the gate relies on the lease the engine has read.
LeaseVerdictOfEngine(i) == i \in w.todo

\* Get-RecoveryLeaseVerdict reads the files again, at the clock of the gate.
LeaseVerdict(i) == Eligible(i, now)

\* Mutant: the line is written after the kill, with the other lines of the sweep.
Gate2Silent ==
  /\ w.step = "resampling"
  /\ LET i == w.cur IN
     \/ w' = Said(i, "REFUSED")
     \/ /\ IsLive(i)
        /\ w' = IF LeaseVerdict(i) THEN AtGate(i, "cleared") ELSE Said(i, "REFUSED")
  /\ Stay /\ UNCHANGED <<sweeps, faults>> /\ UNCHANGED <<files, ghosts>>

\* After the sampling window: the same process, still hot; then the durable
\* line, which refuses when it cannot be written; then the lease.
Gate2 ==
  /\ w.step = "resampling"
  /\ LET i == w.cur IN
     \/ w' = Said(i, "REFUSED") /\ UNCHANGED <<audit, faults>>
     \/ /\ IsLive(i)
        /\ audit' = audit \cup {i}
        /\ w' = IF LeaseVerdict(i) THEN AtGate(i, "cleared") ELSE Said(i, "REFUSED")
        /\ UNCHANGED faults
  /\ Stay /\ UNCHANGED <<sweeps, streaks, damaged, ledger>> /\ UNCHANGED ghosts

\* Stop-Process goes by the number alone.  It fails on a number nobody has,
\* and may be denied.
Stop ==
  /\ w.step = "cleared"
  /\ LET p == w.cur[1] IN
     \/ /\ proc[p].live
        /\ proc' = [proc EXCEPT ![p].live = FALSE]
        /\ dead' = dead \cup {IdOf(p)} /\ Forget(IdOf(p))
        /\ w' = Said(w.cur, "KILLED") /\ UNCHANGED faults
     \/ /\ ~proc[p].live
        /\ w' = Said(w.cur, "FAILED") /\ UNCHANGED <<proc, dead, faults, lease, held, registry, call>>
     \/ Fault /\ w' = Said(w.cur, "FAILED") /\ UNCHANGED <<proc, dead, lease, held, registry, call>>
  /\ UNCHANGED <<now, calls, sweeps, seen, told>> /\ UNCHANGED files

---------------------------------------------------------------------------
(* The balloon and its ledger.                                             *)

\* Mutant: the reminder comes due one sweep late.
DueLater(was, i, verb) ==
  \/ i \notin DOMAIN was
  \/ was[i].verb # verb
  \/ w.at - was[i].at > Reminder

\* Never seen, another verdict, or the reminder has come due.
Due(was, i, verb) ==
  \/ i \notin DOMAIN was
  \/ was[i].verb # verb
  \/ w.at - was[i].at >= Reminder

\* What is carried on: the time of the last balloon, not of the last sweep.
Record(was, i, verb, shown) ==
  [verb |-> verb, at |-> IF shown \/ i \notin DOMAIN was THEN w.at ELSE was[i].at]

\* The ledger is read, and may have been damaged; one balloon shows all news.
Tell ==
  /\ w.step = "acting" /\ w.todo = {}
  /\ \E was \in {ledger, <<>>} :
       /\ IF was = ledger THEN UNCHANGED faults ELSE Fault
       /\ LET news == {i \in DOMAIN w.said : Due(was, i, w.said[i])} IN
          /\ told' = [i \in (DOMAIN told \cap (DOMAIN ledger \cup DOMAIN w.said)) \cup news |->
                        IF i \in news THEN [verb |-> w.said[i], at |-> w.at] ELSE told[i]]
          /\ w' = [step |-> "told", at |-> w.at, said |-> w.said,
                   record |-> [i \in DOMAIN w.said |-> Record(was, i, w.said[i], i \in news)]]
  /\ Stay /\ UNCHANGED <<sweeps, seen, dead>> /\ UNCHANGED files

\* The ledger holds the identities of this sweep; it may stay the old one.
Enter ==
  /\ w.step = "told"
  /\ w' = Idle
  /\ \/ ledger' = w.record /\ UNCHANGED faults
     \/ Fault /\ UNCHANGED ledger
  /\ Stay /\ UNCHANGED <<sweeps, streaks, damaged, audit>> /\ UNCHANGED ghosts

---------------------------------------------------------------------------
Machine == Tick \/ Damage \/ \E p \in Pid : Start(p) \/ Exit(p)
Holders == \E c \in Caller : Call(c) \/ Return(c) \/ Cleanup(c)
Sweep   == \/ \E arm \in BOOLEAN : Sample(arm)
           \/ Decide \/ Save \/ Gate2 \/ Stop \/ Tell \/ Enter \/ Die
           \/ \E i \in Id : Gate1(i)

Next == Machine \/ Holders \/ Sweep
Spec == Init /\ [][Next]_vars

---------------------------------------------------------------------------
(* Properties.                                                             *)

StreakType(r) == r.first \in Time /\ r.last \in Time /\ r.hits \in 1 .. MaxSweeps

\* The values the files, the watcher and the clock can have.
TypeOK ==
  /\ now \in Time /\ calls \in 0 .. MaxCalls /\ sweeps \in 0 .. MaxSweeps
  /\ faults \in 0 .. MaxFaults
  /\ proc \in [Pid -> [live : BOOLEAN, born : Time]]
  /\ DOMAIN streaks \subseteq Id /\ \A i \in DOMAIN streaks : StreakType(streaks[i])
  /\ \A i \in DOMAIN lease :
       /\ i \in Id /\ lease[i].until \in 0 .. MaxTime + Life /\ lease[i].progress \in Time
       /\ ~(lease[i].revoked /\ lease[i].authorized)
  /\ registry \subseteq Id /\ audit \subseteq Id /\ dead \subseteq Id
  /\ w.step \in {"idle", "sampled", "decided", "acting", "resampling", "cleared", "told"}
  /\ DOMAIN told \subseteq Id /\ DOMAIN ledger \subseteq Id

\* The last sweeps at q, as many as the hits of streak r and none further from the
\* next than the gap, from the first time of r to the last.
Unbroken(q, r) ==
  LET from == Len(q) - r.hits + 1 IN
  /\ r.hits \in 1 .. Len(q)
  /\ q[from] = r.first /\ q[Len(q)] = r.last
  /\ \A k \in from .. Len(q) - 1 : q[k+1] - q[k] <= StaleGap

\* A streak on disk is what was seen of that very process in the last
\* sweeps that could be saved: that many hot samples on end, no cold one and
\* no long silence between them, whatever was damaged, reused or interrupted.
StreakIsTrue ==
  \A i \in DOMAIN streaks : i \in DOMAIN seen /\ Unbroken(seen[i], streaks[i])

\* The gate opens only on a process that is the one decided about, that has
\* burned a core for the whole span, and whose holder allowed it, has not
\* withdrawn it and gave no sign of life within the time-out, as far as no
\* two calls on the lease overlapped.
ClearedIsEarned ==
  [][w.step # "cleared" /\ w'.step = "cleared" =>
       LET i == w'.cur
           q == seen[i]
       IN  /\ IsLive(i)
           /\ i \in DOMAIN seen
           /\ \E n \in RequiredHits .. Len(q) : q[Len(q)] - q[Len(q) - n + 1] >= HotSpan
           /\ i \in DOMAIN held /\ held[i].granted /\ ~held[i].withdrawn
           /\ now - held[i].beat >= Timeout]_vars

\* Nobody is terminated without a durable line and a saved sweep that say so,
\* even when the watcher dies at once, and the line is about that process
\* unless its number was taken over after the gate had looked.
KillLeavesTrace ==
  \A i \in dead : \E j \in audit :
    j[1] = i[1] /\ j[2] <= i[2]

\* A sweep that ends has told the user of every process it reports: the
\* verdict it has now, and within the reminder.
ToldInTime ==
  [][w.step = "told" /\ w' = Idle /\ faults' = faults =>
       \A i \in DOMAIN w.said :
         /\ i \in DOMAIN told /\ told[i].verb = w.said[i]
         /\ w.at - told[i].at < Reminder]_vars
=============================================================================
