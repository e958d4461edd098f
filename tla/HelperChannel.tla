--------------------------- MODULE HelperChannel ---------------------------
(***************************************************************************)
(* The channel to the elevated helper: the scheduled helper process with its    *)
(* one-client pipe (sa_storage_helper.ps1), the connection a process of the      *)
(* broker keeps to it with its leases (PrivilegedHelper in sa_privhelper.py),     *)
(* and the storage back ends that send through it (BitLockerVhdxBackend in         *)
(* sa_storage.py).                                                              *)
(*                                                                          *)
(* The back ends of the broker's profiles share one connection; sa_backup.py     *)
(* and the command line open connections of their own.  A connection's lock       *)
(* covers one call; the back ends of two profiles alternate between calls.        *)
(***************************************************************************)
EXTENDS Naturals, FiniteSets

CONSTANTS
    Shared,    \* back ends of the broker's profiles
    Own,       \* back ends with a connection of their own
    Broker,    \* the connection the former share
    None,      \* nobody, nothing
    MaxOps,    \* bound: operations
    MaxFaults  \* bound: time-outs, failures, deaths of the helper or of the broker

\* What the constants are taken to be.
ChannelConstants ==
    /\ Shared \cap Own = {} /\ Broker \notin Shared \cup Own /\ None \notin Shared \cup Own \cup {Broker}
    /\ MaxOps \in Nat /\ MaxFaults \in Nat

Backends == Shared \cup Own
Channels == {Broker} \cup Own
Ch(b) == IF b \in Shared THEN Broker ELSE b
On(c) == {b \in Backends : Ch(b) = c}

VARIABLES
    helper,  \* the helper process and the client of its pipe
    chan,    \* the connections
    back,    \* the back ends and the step of their operation
    volume,  \* what is attached: "detached", "attached", or "left" by an earlier process
    ran,     \* how often the request of an operation was carried out
    ops,     \* operations begun
    mode,    \* the broker: "runs", "quits", "stays" after a refused quit
    faults

vars == <<helper, chan, back, volume, ran, ops, mode, faults>>

Requests == {"mount", "unmount", "maint", "state"}
NoRequest == [op |-> "none", tk |-> 0, by |-> None, orphan |-> FALSE]
NoHelper == [up |-> FALSE, client |-> None, open |-> FALSE, doing |-> NoRequest, said |-> NoRequest, value |-> "none"]
NoPipe == [pipe |-> FALSE, verified |-> FALSE, leases |-> 0, user |-> None, step |-> "free", again |-> FALSE]
NoOp == [pc |-> "idle", op |-> "none", tk |-> 0, holding |-> FALSE]

Tickets == 0..MaxOps
Reqs == [op : Requests \cup {"none"}, tk : Tickets, by : Backends \cup {None}, orphan : BOOLEAN]
Values == {"none", "ok", "error", "detached", "attached"}

TypeOK ==
    /\ helper \in [up : BOOLEAN, client : Channels \cup {None}, open : BOOLEAN, doing : Reqs, said : Reqs, value : Values]
    /\ chan \in [Channels -> [pipe : BOOLEAN, verified : BOOLEAN, leases : 0..Cardinality(Backends),
                              user : Backends \cup {None}, again : BOOLEAN,
                              step : {"free", "probe", "stop", "start", "await", "greet", "write", "read"}]]
    /\ back \in [Backends -> [pc : {"idle", "hold", "call", "check"}, op : Requests \cup {"none"},
                              tk : Tickets, holding : BOOLEAN]]
    /\ volume \in [Backends -> {"detached", "attached", "left"}]
    /\ ran \in [1..MaxOps -> 0..2]
    /\ ops \in Tickets /\ mode \in {"runs", "quits", "stays"} /\ faults \in 0..MaxFaults

Init ==
    /\ helper = NoHelper
    /\ chan = [c \in Channels |-> NoPipe]
    /\ back = [b \in Backends |-> NoOp]
    /\ volume = [b \in Backends |-> "detached"]
    /\ ran = [n \in 1..MaxOps |-> 0]
    /\ ops = 0 /\ mode = "runs" /\ faults = 0

-----------------------------------------------------------------------------
Fault == faults < MaxFaults /\ faults' = faults + 1

\* The pipe of c reaches the helper that runs now.
Live(c) == helper.up /\ chan[c].pipe /\ helper.client = c /\ helper.open
Free == helper.up /\ helper.client = None

\* What _drop leaves of a connection, and what the helper will notice of it.
Dropped(c) == [chan[c] EXCEPT !.pipe = FALSE, !.verified = FALSE]
Closed(c) == IF Live(c) THEN [helper EXCEPT !.open = FALSE] ELSE helper
Unlocked(ch) == [ch EXCEPT !.user = None, !.step = "free", !.again = FALSE]

Step(b, s) == chan[Ch(b)].user = b /\ chan[Ch(b)].step = s
Goto(b, s) == chan' = [chan EXCEPT ![Ch(b)].step = s]

\* Mutant: an operation that raises gives up its hold.
AfterReleases(b) == [back[b] EXCEPT !.pc = "idle", !.op = "none", !.holding = FALSE]

\* The exception leaves the call: the connection is dropped and its lock released,
\* and the operation goes on where it is caught.
After(b) ==
    CASE back[b].pc = "hold" -> [back[b] EXCEPT !.pc = "idle", !.op = "none"]
      [] back[b].pc = "call" /\ back[b].op = "unmount" -> [back[b] EXCEPT !.pc = "idle", !.op = "none"]
      [] back[b].pc = "call" /\ back[b].op # "unmount" -> [back[b] EXCEPT !.pc = "check"]
      [] OTHER -> [back[b] EXCEPT !.pc = "idle", !.op = "none"]

Raise(b) ==
    /\ chan' = [chan EXCEPT ![Ch(b)] = Unlocked(Dropped(Ch(b)))]
    /\ back' = [back EXCEPT ![b] = After(b)]

-----------------------------------------------------------------------------
\* Operations of a back end: _hold, the call, and the question whether anything is
\* still attached.
Available(b) == back[b].pc = "idle" /\ (b \in Shared => mode # "quits")

Begin(b, op) ==
    /\ Available(b) /\ ops < MaxOps
    /\ ops' = ops + 1
    /\ back' = [back EXCEPT ![b] = [@ EXCEPT !.pc = IF op = "unmount" THEN "call" ELSE "hold",
                                             !.op = op, !.tk = ops + 1]]
    /\ UNCHANGED <<helper, chan, volume, ran, mode, faults>>

\* The lock of the connection; a verified pipe is used as it is.
Enter(b) ==
    LET c == Ch(b)  ready == chan[c].pipe /\ chan[c].verified IN
    /\ back[b].pc # "idle" /\ chan[c].user = None
    /\ ~(back[b].pc = "hold" /\ ready)
    /\ chan' = [chan EXCEPT ![c].user = b, ![c].step = IF ready THEN "write" ELSE "probe"]
    /\ UNCHANGED <<helper, back, volume, ran, ops, mode, faults>>

\* Mutant: every operation takes a lease.
HeldAgain(b) ==
    /\ chan' = [chan EXCEPT ![Ch(b)] = Unlocked([@ EXCEPT !.leases = @ + 1, !.pipe = TRUE, !.verified = TRUE])]
    /\ back' = [back EXCEPT ![b].pc = "call", ![b].holding = TRUE]

\* acquire, once for each back end.
Held(b) ==
    LET line == chan[Ch(b)]
        leases == IF back[b].holding THEN line.leases ELSE line.leases + 1 IN
    /\ chan' = [chan EXCEPT ![Ch(b)] =
                   Unlocked([line EXCEPT !.leases = leases, !.pipe = TRUE, !.verified = TRUE])]
    /\ back' = [back EXCEPT ![b].pc = "call", ![b].holding = TRUE]

Hold(b) ==
    /\ back[b].pc = "hold" /\ chan[Ch(b)].user = None
    /\ chan[Ch(b)].pipe /\ chan[Ch(b)].verified
    /\ Held(b)
    /\ UNCHANGED <<helper, volume, ran, ops, mode, faults>>

-----------------------------------------------------------------------------
\* ensure: the definition is verified, the pipe is tried, and if it does not answer
\* the task is stopped and started.
Connected(c) == helper' = [helper EXCEPT !.client = c, !.open = TRUE, !.said = NoRequest, !.value = "none"]

Probe(b) ==
    /\ Step(b, "probe")
    /\ \/ Fault /\ Raise(b) /\ UNCHANGED helper
       \/ /\ Free /\ Connected(Ch(b))
          /\ chan' = [chan EXCEPT ![Ch(b)].step = "greet", ![Ch(b)].pipe = TRUE]
          /\ UNCHANGED <<back, faults>>
       \/ ~Free /\ Goto(b, "stop") /\ UNCHANGED <<helper, back, faults>>
    /\ UNCHANGED <<volume, ran, ops, mode>>

\* What a request does to the volume when the helper ends in the middle of it.
Attached(r) == IF r.orphan THEN "left" ELSE "attached"
Torn(r) == CASE r.op = "mount" -> {Attached(r)} [] r.op = "unmount" -> {"detached"}
             [] r.op = "maint" -> {Attached(r), "detached"} [] OTHER -> {}
Ended == /\ helper' = NoHelper
         /\ \/ UNCHANGED volume
            \/ \E v \in Torn(helper.doing) : volume' = [volume EXCEPT ![helper.doing.by] = v]

\* stop_task answers for nobody: a failure is swallowed.
StopTask(b) ==
    /\ Step(b, "stop") /\ Goto(b, "start")
    /\ \/ Ended /\ UNCHANGED faults
       \/ Fault /\ UNCHANGED <<helper, volume>>
    /\ UNCHANGED <<back, ran, ops, mode>>

\* A task that runs is not started again.
StartTask(b) ==
    /\ Step(b, "start")
    /\ \/ Goto(b, "await") /\ helper' = [helper EXCEPT !.up = TRUE] /\ UNCHANGED <<back, faults>>
       \/ Fault /\ Raise(b) /\ UNCHANGED helper
    /\ UNCHANGED <<volume, ran, ops, mode>>

Await(b) ==
    /\ Step(b, "await")
    /\ \/ /\ Free /\ Connected(Ch(b))
          /\ chan' = [chan EXCEPT ![Ch(b)].step = "greet", ![Ch(b)].pipe = TRUE]
          /\ UNCHANGED <<back, faults>>
       \/ Raise(b) /\ (IF Free THEN Fault ELSE UNCHANGED faults) /\ UNCHANGED helper
    /\ UNCHANGED <<volume, ran, ops, mode>>

\* The greeting is read and the process behind the pipe measured.
Greet(b) ==
    /\ Step(b, "greet")
    /\ \/ /\ Live(Ch(b))
          /\ IF back[b].pc = "hold" THEN Held(b)
             ELSE chan' = [chan EXCEPT ![Ch(b)].step = "write", ![Ch(b)].verified = TRUE] /\ UNCHANGED back
          /\ UNCHANGED <<helper, faults>>
       \/ /\ Raise(b) /\ helper' = Closed(Ch(b))
          /\ IF Live(Ch(b)) THEN Fault ELSE UNCHANGED faults
    /\ UNCHANGED <<volume, ran, ops, mode>>

-----------------------------------------------------------------------------
\* call: one request and one answer.
Request(b) == [op |-> IF back[b].pc = "check" THEN "state" ELSE back[b].op, tk |-> back[b].tk,
               by |-> b, orphan |-> FALSE]
Received(b) == helper' = [helper EXCEPT !.doing = Request(b)]

\* Mutant: a request that may have been written is written again.
WriteTwice(b) ==
    LET c == Ch(b) IN
    /\ Step(b, "write")
    /\ \/ Live(c) /\ Received(b) /\ Goto(b, "read") /\ UNCHANGED <<back, faults>>
       \/ /\ ~chan[c].again
          /\ chan' = [chan EXCEPT ![c] = [Dropped(c) EXCEPT !.step = "probe", !.again = TRUE]]
          /\ Fault /\ UNCHANGED back
          /\ helper' = [Closed(c) EXCEPT !.doing = IF Live(c) THEN Request(b) ELSE @]
       \/ ~Live(c) /\ Raise(b) /\ UNCHANGED <<helper, faults>>
    /\ UNCHANGED <<volume, ran, ops, mode>>

\* Only what fails before the write itself is tried again, once; a write that fails
\* or times out, delivered or not, is an error.
Write(b) ==
    LET c == Ch(b) IN
    /\ Step(b, "write")
    /\ \/ Live(c) /\ Received(b) /\ Goto(b, "read") /\ UNCHANGED <<back, faults>>
       \/ ~Live(c) /\ Raise(b) /\ UNCHANGED <<helper, faults>>
       \/ /\ Live(c) /\ Raise(b) /\ Fault
          /\ helper' \in {Closed(c), [Closed(c) EXCEPT !.doing = Request(b)]}
       \/ /\ ~chan[c].again
          /\ chan' = [chan EXCEPT ![c] = [Dropped(c) EXCEPT !.step = "probe", !.again = TRUE]]
          /\ helper' = Closed(c) /\ Fault /\ UNCHANGED back
    /\ UNCHANGED <<volume, ran, ops, mode>>

\* Mutant: a lease is given back whether or not there is one.
LessUnchecked(n) == n - 1

\* release().
Less(n) == IF n > 0 THEN n - 1 ELSE n

\* The answer, as the operation goes on with it; without a lease the pipe is closed.
Answered(b) ==
    LET c == Ch(b)
        done == [back[b] EXCEPT !.pc = "idle", !.op = "none"]
        gone == back[b].pc = "check" /\ helper.value = "detached" /\ back[b].holding
        left == IF gone THEN Less(chan[c].leases) ELSE chan[c].leases
    IN
    /\ back' = [back EXCEPT ![b] =
            IF back[b].pc = "check" THEN [done EXCEPT !.holding = back[b].holding /\ ~gone]
            ELSE IF helper.value = "error" THEN After(b)
            ELSE IF back[b].op = "mount" THEN done
            ELSE [back[b] EXCEPT !.pc = "check"]]
    /\ chan' = [chan EXCEPT ![c] = Unlocked([(IF left = 0 THEN Dropped(c) ELSE chan[c]) EXCEPT !.leases = left])]
    /\ helper' = [(IF left = 0 THEN Closed(c) ELSE helper) EXCEPT !.said = NoRequest, !.value = "none"]

\* Mutant: a call that times out keeps the pipe.
ReadKeeps(b) ==
    LET c == Ch(b) IN
    /\ Step(b, "read")
    /\ \/ Live(c) /\ helper.said # NoRequest /\ Answered(b) /\ UNCHANGED faults
       \/ ~Live(c) /\ Raise(b) /\ UNCHANGED <<helper, faults>>
       \/ /\ Live(c) /\ Fault /\ UNCHANGED helper
          /\ chan' = [chan EXCEPT ![c] = Unlocked(@)] /\ back' = [back EXCEPT ![b] = After(b)]
    /\ UNCHANGED <<volume, ran, ops, mode>>

\* A helper that is gone, or late, costs the connection.
Read(b) ==
    LET c == Ch(b) IN
    /\ Step(b, "read")
    /\ \/ Live(c) /\ helper.said # NoRequest /\ Answered(b) /\ UNCHANGED faults
       \/ ~Live(c) /\ Raise(b) /\ UNCHANGED <<helper, faults>>
       \/ Live(c) /\ Raise(b) /\ helper' = Closed(c) /\ Fault
    /\ UNCHANGED <<volume, ran, ops, mode>>

BackendStep(b) ==
    \/ \E op \in {"mount", "unmount", "maint"} : Begin(b, op)
    \/ Enter(b) \/ Hold(b) \/ Probe(b) \/ StopTask(b) \/ StartTask(b) \/ Await(b)
    \/ Greet(b) \/ Write(b) \/ Read(b)

-----------------------------------------------------------------------------
\* The helper.

\* Invoke-Operation: what it reports and what it leaves attached.  Listing the
\* protectors attaches the container, verifying a password may leave it detached.
Outcomes(r) ==
    LET now == volume[r.by]  up == Attached(r) IN
    CASE r.op = "mount"   -> {<<"ok", up>>, <<"error", up>>, <<"error", now>>}
      [] r.op = "unmount" -> {<<"ok", "detached">>, <<"error", now>>}
      [] r.op = "maint"   -> {"ok", "error"} \X {up, "detached"}
      [] OTHER            -> {<<IF now = "detached" THEN "detached" ELSE "attached", now>>}

Execute ==
    /\ helper.up /\ helper.doing.op # "none"
    /\ \E o \in Outcomes(helper.doing) :
          /\ volume' = [volume EXCEPT ![helper.doing.by] = o[2]]
          /\ helper' = [helper EXCEPT !.doing = NoRequest, !.said = helper.doing, !.value = o[1]]
    /\ ran' = IF helper.doing.op = "state" THEN ran ELSE [ran EXCEPT ![helper.doing.tk] = @ + 1]
    /\ UNCHANGED <<chan, back, ops, mode, faults>>

\* Serve-Client returns when the client is gone and what it asked for is done.
HangUp ==
    /\ helper.up /\ helper.client # None /\ ~helper.open /\ helper.doing.op = "none"
    /\ helper' = [NoHelper EXCEPT !.up = TRUE]
    /\ UNCHANGED <<chan, back, volume, ran, ops, mode, faults>>

\* Nobody came back.
IdleOut ==
    /\ Free /\ helper' = NoHelper
    /\ UNCHANGED <<chan, back, volume, ran, ops, mode, faults>>

HelperDies ==
    /\ helper.up /\ Fault /\ Ended
    /\ UNCHANGED <<chan, back, ran, ops, mode>>

-----------------------------------------------------------------------------
\* The end of the broker: shutdown() locks every profile, stops the back ends of
\* those that were locked, and closes the helper if all of them were.

\* PrivilegedHelper.close.
Shut(c) ==
    /\ \/ helper' = IF Live(c) THEN NoHelper ELSE helper
       \/ helper' = Closed(c)
    /\ chan' = [chan EXCEPT ![c] = [Dropped(c) EXCEPT !.leases = 0]]

Unresolved == {b \in Shared : volume[b] # "detached"}

\* A back end that holds nothing closes the helper when it is stopped.
Quit ==
    /\ mode = "runs" /\ \A b \in Shared : back[b].pc = "idle"
    /\ mode' = IF Unresolved = {} THEN "quits" ELSE "stays"
    /\ IF Unresolved = {} \/ \E b \in Shared \ Unresolved : ~back[b].holding
       THEN Shut(Broker) ELSE UNCHANGED <<helper, chan>>
    /\ UNCHANGED <<back, volume, ran, ops, faults>>

\* The process ends: after a clean quit, or at any time.
Gone(c) ==
    /\ helper' = [Closed(c) EXCEPT !.doing.orphan = @ \/ helper.doing.by \in On(c)]
    /\ chan' = [chan EXCEPT ![c] = NoPipe]
    /\ back' = [b \in Backends |-> IF Ch(b) = c THEN NoOp ELSE back[b]]
    /\ volume' = [b \in Backends |-> IF Ch(b) = c /\ volume[b] = "attached" THEN "left" ELSE volume[b]]
    /\ UNCHANGED <<ran, ops>>

Restart ==
    /\ mode' = "runs" /\ Gone(Broker)
    /\ IF mode = "quits" THEN UNCHANGED faults ELSE Fault

\* A connection of its own is left to its process's end.
Leave(c) == /\ c \in Own /\ \A b \in On(c) : back[b].pc = "idle"
            /\ chan[c].pipe
            /\ Gone(c) /\ UNCHANGED <<mode, faults>>

Next ==
    \/ \E b \in Backends : BackendStep(b)
    \/ Execute \/ HangUp \/ IdleOut \/ HelperDies
    \/ Quit \/ Restart
    \/ \E c \in Own : Leave(c)

Spec == Init /\ [][Next]_vars

-----------------------------------------------------------------------------
\* Properties.

\* Between operations, a volume this process attached, through whatever time-out,
\* lost answer, dead helper or late execution, is held by its back end.
AttachedIsHeld ==
    \A b \in Backends : back[b].pc = "idle" /\ volume[b] = "attached" => back[b].holding

\* Until the broker quits, a connection has one lease for each back end that holds
\* it: nobody's release closes the pipe of another.
LeasesAreCounted ==
    mode = "runs" =>
        \A c \in Channels : chan[c].leases = Cardinality({b \in On(c) : back[b].holding})

\* A request is carried out at most once, whatever was retried.
AtMostOnce == \A n \in 1..MaxOps : ran[n] <= 1

\* The answer a call reads is the answer to its request: nothing numbers them, a
\* pipe that may still carry an old one is not used again.
AnswerIsMine ==
    \A b \in Backends : Step(b, "read") /\ Live(Ch(b)) /\ helper.said # NoRequest => helper.said = Request(b)

\* ensure() stops only a helper that serves nobody: no process ends the helper in
\* the middle of another one's request.
StopsOnlyTheStale ==
    [][\A b \in Backends : Step(b, "stop") /\ helper.up /\ ~helper'.up =>
          ~(\E c \in Channels \ {Ch(b)} : Live(c))]_vars

\* A quit that leaves a volume attached leaves its back end the lease of the helper
\* that can still detach it.
UnresolvedKeepsTheLease ==
    mode = "stays" => \A b \in Shared : back[b].holding => chan[Broker].leases > 0
=============================================================================
