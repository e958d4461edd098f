----------------------------- MODULE WindowRounds -----------------------------
(***************************************************************************)
(* The round trips between the thread of the Secure Apps window and the    *)
(* two threads that work for it (secure_apps/secure_apps_gui.py).          *)
(*                                                                         *)
(* The broker's worker is sent a tick every 2.5 seconds, and acknowledges  *)
(* it; a timer that fires while a tick is out is remembered and no more    *)
(* than that.  The worker, in the middle of an operation, and the          *)
(* acceptance run ask the operator: each question goes to the window with  *)
(* a slot of its own for one answer, and the asker waits for that slot or  *)
(* for its timeout.  The window answers from a dialog, and goes on         *)
(* handling messages, other questions among them, while it is open.        *)
(* Closing the window cancels the acceptance run.                          *)
(*                                                                         *)
(* Abstractions: confirmation, physical step and PIN are one kind of       *)
(* question: what the asker makes of no answer is the same, no.  An        *)
(* operation asks at most MaxAsked questions.                              *)
(***************************************************************************)
EXTENDS Naturals, Sequences, SequencesExt

CONSTANTS
    MaxAsked,     \* bound: questions of each asker
    MaxQueue      \* bound: requests and messages waiting

VARIABLES
    hasBroker,    \* whether the bootstrap gave the worker a broker
    requests,     \* what the worker has not begun: "tick" or "op"
    serving,      \* what it is doing
    mail,         \* messages the window has not handled
    pending, coalesced,   \* _tick_pending, _tick_coalesced
    asker,        \* each asker: [pc, asked]
    slot,         \* the one-slot queues, by asker and number of the question
    waiting,      \* _waiting of the acceptance run: the question, or 0
    cancelled,    \* its _cancelled
    closing,      \* how far closeEvent has come
    dialogs,      \* the questions whose dialogs are open, the innermost last
    stuck,        \* the answer the window waits to put into a slot that is full
    taken         \* ghost: the approval each asker was given, with the question it answered

vars == <<hasBroker, requests, serving, mail, pending, coalesced, asker, slot, waiting,
          cancelled, closing, dialogs, stuck, taken>>

Asker == {"run", "worker"}
Number == 1..MaxAsked
Note(said, n) == <<[yes |-> said, to |-> n]>>

Init ==
    /\ hasBroker \in BOOLEAN
    /\ requests = <<>> /\ serving = "nothing" /\ mail = <<>>
    /\ pending = FALSE /\ coalesced = FALSE
    /\ asker = [a \in Asker |-> [pc |-> "idle", asked |-> 0]]
    /\ slot = [a \in Asker |-> [n \in Number |-> <<>>]] /\ waiting = 0 /\ cancelled = FALSE
    /\ closing = [at |-> "no", n |-> 0] /\ dialogs = <<>> /\ stuck = <<>>
    /\ taken = [a \in Asker |-> <<>>]

tickVars == <<hasBroker, requests, serving, pending, coalesced>>
askVars == <<asker, slot, waiting, cancelled, closing, dialogs, stuck, taken>>

Send(r) == Len(requests) < MaxQueue /\ requests' = Append(requests, r)
Tell(m) == Len(mail) < MaxQueue /\ mail' = Append(mail, m)

-----------------------------------------------------------------------------
(* Ticks. *)

\* A tick unless one is out.
WantTick ==
    IF pending
    THEN coalesced' = TRUE /\ UNCHANGED <<pending, requests>>
    ELSE pending' = TRUE /\ coalesced' = FALSE /\ Send("tick")

\* _on_periodic_timer
Timer ==
    /\ stuck = <<>> /\ WantTick
    /\ UNCHANGED <<hasBroker, serving, mail, askVars>>

\* A tick sent by _refresh_all, which does not count it.
RefreshTick ==
    /\ stuck = <<>> /\ dialogs = <<>> /\ Send("tick")
    /\ UNCHANGED <<hasBroker, serving, mail, pending, coalesced, askVars>>

\* An operation the operator asks for.
Operate ==
    /\ stuck = <<>> /\ dialogs = <<>> /\ Send("op")
    /\ UNCHANGED <<hasBroker, serving, mail, pending, coalesced, askVars>>

Begin ==
    /\ serving = "nothing" /\ requests # <<>>
    /\ requests' = Tail(requests) /\ serving' = Head(requests)
    /\ UNCHANGED <<hasBroker, mail, pending, coalesced, askVars>>

\* Mutant: a worker without a broker returns before it acknowledges the tick.
TickEndsIfServed ==
    /\ serving = "tick" /\ serving' = "nothing"
    /\ IF hasBroker THEN Tell([kind |-> "ack"]) ELSE UNCHANGED mail
    /\ UNCHANGED <<hasBroker, requests, pending, coalesced, askVars>>
\* tick: whatever became of it, it is acknowledged.
TickEnds ==
    /\ serving = "tick" /\ serving' = "nothing"
    /\ Tell([kind |-> "ack"])
    /\ UNCHANGED <<hasBroker, requests, pending, coalesced, askVars>>

\* The end of an operation; without a broker there is none to speak of.
OpEnds ==
    /\ serving = "op" /\ asker["worker"].pc = "idle" /\ serving' = "nothing"
    /\ IF hasBroker THEN Tell([kind |-> "done"]) ELSE UNCHANGED mail
    /\ UNCHANGED <<hasBroker, requests, pending, coalesced, askVars>>

\* _tick_acknowledged
Acknowledged ==
    IF coalesced
    THEN pending' = TRUE /\ coalesced' = FALSE /\ Send("tick")
    ELSE pending' = FALSE /\ UNCHANGED <<coalesced, requests>>

-----------------------------------------------------------------------------
(* Questions. *)

Mine(a) == a = "run" \/ (serving = "op" /\ hasBroker)

\* Mutant: every question of an asker is answered through the same queue.
PlaceShared(a) == 1
\* The queue a question is answered through: one of its own.
Place(a) == asker[a].asked

\* _round_trip and _request_pin, up to the cancellation they look for first.
Ask(a) ==
    /\ asker[a].pc = "idle" /\ asker[a].asked < MaxAsked /\ Mine(a)
    /\ ~(a = "run" /\ cancelled)
    /\ asker' = [asker EXCEPT ![a] = [pc |-> "asking", asked |-> @.asked + 1]]
    /\ taken' = [taken EXCEPT ![a] = <<>>]
    /\ UNCHANGED <<tickVars, mail, slot, waiting, cancelled, closing, dialogs, stuck>>

\* The slot is what cancel would wake, and the question is on its way.
Emit(a) ==
    /\ asker[a].pc = "asking"
    /\ waiting' = IF a = "run" THEN asker[a].asked ELSE waiting
    /\ Tell([kind |-> "question", who |-> a, n |-> asker[a].asked, at |-> Place(a)])
    /\ asker' = [asker EXCEPT ![a].pc = "waiting"]
    /\ UNCHANGED <<tickVars, slot, cancelled, closing, dialogs, stuck, taken>>

Approved(notes) == notes # <<>> /\ Head(notes).yes

\* The answer is taken out of the slot, or none has come in time.
Get(a) ==
    /\ asker[a].pc = "waiting"
    /\ slot' = [slot EXCEPT ![a][Place(a)] = <<>>]
    /\ taken' = [taken EXCEPT ![a] = IF (a = "run" /\ cancelled) \/ ~Approved(slot[a][Place(a)])
                                     THEN <<>> ELSE slot[a][Place(a)]]
    /\ asker' = [asker EXCEPT ![a].pc = "leaving"]
    /\ UNCHANGED <<tickVars, mail, waiting, cancelled, closing, dialogs, stuck>>

Leave(a) ==
    /\ asker[a].pc = "leaving"
    /\ waiting' = IF a = "run" THEN 0 ELSE waiting
    /\ asker' = [asker EXCEPT ![a].pc = "idle"]
    /\ UNCHANGED <<tickVars, mail, slot, cancelled, closing, dialogs, stuck, taken>>

\* _confirm_request, _pause_request, _prompt_pin: the dialog opens.
Shown(m) == dialogs' = Append(dialogs, m)

\* The window handles its first message, also from inside a dialog.
Handle ==
    /\ stuck = <<>> /\ mail # <<>> /\ mail' = Tail(mail)
    /\ CASE Head(mail).kind = "ack" -> Acknowledged /\ UNCHANGED dialogs
         [] Head(mail).kind = "done" -> WantTick /\ UNCHANGED dialogs
         [] Head(mail).kind = "question" -> Shown(Head(mail)) /\ UNCHANGED <<pending, coalesced, requests>>
    /\ UNCHANGED <<hasBroker, serving, asker, slot, waiting, cancelled, closing, stuck, taken>>

\* The innermost dialog is closed; a window that finds the slot full waits for ever
\* unless the asker empties it.
Reply(said) ==
    /\ dialogs # <<>> /\ stuck \in {<<>>, <<said>>}
    /\ LET d == Last(dialogs)
       IN IF slot[d.who][d.at] = <<>>
          THEN /\ slot' = [slot EXCEPT ![d.who][d.at] = Note(said, d.n)]
               /\ dialogs' = Front(dialogs) /\ stuck' = <<>>
          ELSE stuck' = <<said>> /\ UNCHANGED <<slot, dialogs>>
    /\ UNCHANGED <<tickVars, mail, asker, waiting, cancelled, closing, taken>>

\* closeEvent while the run is under way: cancel sets the flag, looks for the question
\* that waits, and wakes it.
Cancel ==
    /\ stuck = <<>>
    /\ \/ /\ closing.at = "no" /\ closing' = [closing EXCEPT !.at = "flagged"]
          /\ cancelled' = TRUE /\ UNCHANGED slot
       \/ /\ closing.at = "flagged"
          /\ closing' = [at |-> IF waiting = 0 THEN "done" ELSE "found", n |-> waiting]
          /\ UNCHANGED <<cancelled, slot>>
       \/ /\ closing.at = "found" /\ closing' = [closing EXCEPT !.at = "done"]
          /\ slot' = [slot EXCEPT !["run"][closing.n] = IF @ = <<>> THEN Note(FALSE, closing.n) ELSE @]
          /\ UNCHANGED cancelled
    /\ UNCHANGED <<tickVars, mail, asker, waiting, dialogs, stuck, taken>>

Next ==
    \/ Timer \/ RefreshTick \/ Operate \/ Begin \/ TickEnds \/ OpEnds
    \/ \E a \in Asker : Ask(a) \/ Emit(a) \/ Get(a) \/ Leave(a)
    \/ Handle
    \/ \E said \in BOOLEAN : Reply(said)
    \/ Cancel

Spec == Init /\ [][Next]_vars

-----------------------------------------------------------------------------
TypeOK ==
    /\ requests \in BoundedSeq({"tick", "op"}, MaxQueue)
    /\ serving \in {"nothing", "tick", "op"}
    /\ {hasBroker, pending, coalesced, cancelled} \subseteq BOOLEAN
    /\ asker \in [Asker -> [pc : {"idle", "asking", "waiting", "leaving"}, asked : 0..MaxAsked]]
    /\ \A a \in Asker, n \in Number : Len(slot[a][n]) <= 1
    /\ waiting \in 0..MaxAsked
    /\ \A a \in Asker : Len(taken[a]) <= 1

\* A window that holds its ticks back is waiting for one that is out: it is queued, being
\* served, or its acknowledgement is on its way.  Otherwise the sessions of every profile
\* would never be looked at again, and nothing would expire.
TicksKeepComing ==
    pending => \/ \E i \in DOMAIN requests : requests[i] = "tick"
               \/ serving = "tick"
               \/ \E i \in DOMAIN mail : mail[i].kind = "ack"

\* What a run or the broker takes for an approval, or for a PIN, was the operator's answer
\* to that very question - not a late answer to one that had timed out, not the answer of
\* another dialog that was open at the same time.
ApprovalIsForThisQuestion ==
    \A a \in Asker : \A i \in DOMAIN taken[a] : taken[a][i].to = asker[a].asked
=============================================================================
