---------------------------- MODULE MessageQueue ----------------------------
(***************************************************************************)
(* The queue of prompts an assistant's sessions work off, edited from      *)
(* outside (saipatch/queue_core.py, queue_manager.pyw).                    *)
(*                                                                         *)
(* The assistant's server owns the database: it admits prompts, and        *)
(* promotes the pending prompt of the lowest admitted_seq when a session   *)
(* is free.  Manager windows and command lines change the pending rows     *)
(* beside it.  The driver opens a transaction with the first statement     *)
(* that writes, so what a call reads before that may be old when it        *)
(* writes; one index keeps the admitted_seq of a session unique, and a     *)
(* write that breaks it rolls the whole transaction back.                  *)
(*                                                                         *)
(* Abstractions: a row's id counts the rows made so far, which is also its *)
(* creation time; a new text is Fresh; the sent history, the status     *)
(* lines and the sidebar's badges and filter are left out, and so is the   *)
(* limit of 35 sessions the windows read.                                  *)
(***************************************************************************)
EXTENDS Integers, FiniteSets, FiniteSetsExt, SequencesExt

CONSTANTS
    Chat,        \* the sessions
    Window,      \* open manager windows
    Cli,         \* command lines
    Text,        \* texts a prompt is edited to
    MaxPrompts,  \* bound: rows ever made
    MaxCalls     \* bound: calls of the windows and command lines

VARIABLES
    rows,        \* session_input: [id -> Row]
    events,      \* [Chat -> highest seq of the session's events]
    chats,       \* the rows of the session table
    view,        \* [Window -> its session, selection and list]
    call,        \* [Window \cup Cli -> the call it is in, or Idle]
    made,        \* rows made so far
    calls,       \* calls made so far
    promise,     \* ghost: [id -> what an answered edit or drop promised]
    ran          \* ghost: [id -> the text a promoted row was run with]

vars == <<rows, events, chats, view, call, made, calls, promise, ran>>

Client == Window \cup Cli
Id == 1..MaxPrompts
NoItem == 0
All == "all sessions"
Nothing == "nothing"
Dropped == "dropped"
Fresh == "as admitted"
Parked == -1          \* the source parks a row at -999999
Idle == [op |-> "idle"]

Pending(r) == r.promoted = FALSE
Queued(r) == Pending(r) /\ r.delivery = "queue"

QueuedIn(s) == {i \in DOMAIN rows : rows[i].session = s /\ Queued(rows[i])}

\* The ids of a session's pending queue, the next one first.
PendingQueue(s) == SetToSortSeq(QueuedIn(s), LAMBDA i, j : rows[i].seq < rows[j].seq)

\* All pending rows of known sessions, the oldest first.
AllPending ==
    SetToSortSeq({i \in DOMAIN rows : rows[i].session \in chats /\ Queued(rows[i])},
                 LAMBDA i, j : i < j)

Listed(s) == IF s = All THEN AllPending ELSE PendingQueue(s)

MaxSeq(s) == Max({rows[i].seq : i \in {k \in DOMAIN rows : rows[k].session = s}} \cup {0})

\* The rows without those of a set of ids.
Without(ids) == [i \in DOMAIN rows \ ids |-> rows[i]]

\* The rows with one more, INSERT INTO session_input.
Inserted(i, row) == [j \in DOMAIN rows \cup {i} |-> IF j = i THEN row ELSE rows[j]]

\* The index over (session_id, admitted_seq) admits the rows.
Unique(rs) ==
    \A i, j \in DOMAIN rs :
        i # j /\ rs[i].session = rs[j].session => rs[i].seq # rs[j].seq

Init ==
    /\ rows = <<>>
    /\ events = [s \in Chat |-> 0]
    /\ chats = Chat
    /\ view = [w \in Window |-> [chat |-> All, sel |-> NoItem, line |-> 0, list |-> <<>>]]
    /\ call = [c \in Client |-> Idle]
    /\ made = 0
    /\ calls = 0
    /\ promise = [i \in Id |-> Nothing]
    /\ ran = [i \in Id |-> Nothing]

-----------------------------------------------------------------------------
(* The server of the assistant, as the code uses it. *)

\* A prompt that reaches a session is admitted behind everything there.
Admit(s, d) ==
    /\ made < MaxPrompts
    /\ s \in chats
    /\ made' = made + 1
    /\ LET seq == 1 + Max({MaxSeq(s), events[s]})
       IN  /\ rows' = Inserted(made + 1, [session |-> s, text |-> Fresh, seq |-> seq,
                                           promoted |-> FALSE, delivery |-> d])
           /\ events' = [events EXCEPT ![s] = seq]
    /\ UNCHANGED <<chats, view, call, promise, ran, calls>>

\* A steering prompt may be taken at any time, a queued one in its turn.
Promote(i) ==
    /\ i \in DOMAIN rows
    /\ Pending(rows[i])
    /\ rows[i].session \in chats
    /\ Queued(rows[i]) => \A j \in QueuedIn(rows[i].session) : rows[i].seq <= rows[j].seq
    /\ rows' = [rows EXCEPT ![i].promoted = TRUE]
    /\ events' = [events EXCEPT ![rows[i].session] = @ + 1]
    /\ ran' = [ran EXCEPT ![i] = rows[i].text]
    /\ UNCHANGED <<chats, view, call, made, promise, calls>>

-----------------------------------------------------------------------------
(* The calls of queue_core; each step is one statement or transaction. *)

CanCall(c) == call[c] = Idle /\ calls < MaxCalls
Enter(c, r) == call' = [call EXCEPT ![c] = r]
Return(c) == Enter(c, Idle)

\* DELETE ... WHERE id = ? AND promoted_seq IS NULL.
CanDrop(i) == i \in DOMAIN rows /\ Pending(rows[i])

\* delete_queued_item: its answer is whether a row went.
Drops(i) ==
    IF CanDrop(i) THEN rows' = Without({i}) /\ promise' = [promise EXCEPT ![i] = Dropped]
                  ELSE UNCHANGED <<rows, promise>>

\* clear_queue takes every pending row of the session, whatever its delivery.
ClearQueue(s) == rows' = Without({i \in DOMAIN rows : rows[i].session = s /\ Pending(rows[i])})

ClearAllQueues == rows' = Without({i \in DOMAIN rows : Queued(rows[i])})

\* move_item_in_queue reads the queue in a connection of its own and asks for a
\* swap with the neighbour it saw.
MoveReads(c) ==
    /\ call[c].op = "move"
    /\ LET q == PendingQueue(call[c].chat)
           i == call[c].item
           n == IF call[c].up THEN -1 ELSE 1
       IN  IF i \in ToSet(q) /\ SelectInSeq(q, LAMBDA x : x = i) + n \in DOMAIN q
           THEN Enter(c, [op |-> "first", one |-> i,
                          two |-> q[SelectInSeq(q, LAMBDA x : x = i) + n]])
           ELSE Return(c)
    /\ UNCHANGED <<rows, events, chats, view, made, promise, ran, calls>>

\* swap_items, its first SELECT.
SwapReadsFirst(c) ==
    /\ call[c].op = "first"
    /\ LET i == call[c].one
       IN  IF CanDrop(i)
           THEN Enter(c, [op |-> "second", one |-> i, two |-> call[c].two, seq1 |-> rows[i].seq])
           ELSE Enter(c, [op |-> "second", one |-> i, two |-> call[c].two, seq1 |-> Parked])
    /\ UNCHANGED <<rows, events, chats, view, made, promise, ran, calls>>

\* Its second SELECT; a missing row ends the call.
SwapReadsSecond(c) ==
    /\ call[c].op = "second"
    /\ LET j == call[c].two
       IN  IF call[c].seq1 # Parked /\ CanDrop(j)
           THEN Enter(c, [op |-> "write", one |-> call[c].one, two |-> j,
                          seq1 |-> call[c].seq1, seq2 |-> rows[j].seq])
           ELSE Return(c)
    /\ UNCHANGED <<rows, events, chats, view, made, promise, ran, calls>>

\* UPDATE session_input SET admitted_seq = n WHERE id = i.
Renumbered(rs, i, n) == IF i \in DOMAIN rs THEN [rs EXCEPT ![i].seq = n] ELSE rs

\* Mutant: every update commits on its own.
CommittedInParts(before, parked, half, whole) ==
    IF ~Unique(half) THEN parked ELSE IF ~Unique(whole) THEN half ELSE whole

\* What is committed of the three updates: all, or none of them.
Committed(before, parked, half, whole) ==
    IF Unique(half) /\ Unique(whole) THEN whole ELSE before

\* Its updates; they write what was read, whatever happened since.
SwapWrites(c) ==
    /\ call[c].op = "write"
    /\ LET k == call[c]
           parked == Renumbered(rows, k.one, Parked)
           half == Renumbered(parked, k.two, k.seq1)
           whole == Renumbered(half, k.one, k.seq2)
       IN  rows' = Committed(rows, parked, half, whole)
    /\ Return(c)
    /\ UNCHANGED <<events, chats, view, made, promise, ran, calls>>

\* add_queued_prompt reads the highest admitted_seq, then the highest event.
AddReadsRows(c) ==
    /\ call[c].op = "add"
    /\ Enter(c, [op |-> "added", chat |-> call[c].chat,
                 seq |-> MaxSeq(call[c].chat)])
    /\ UNCHANGED <<rows, events, chats, view, made, promise, ran, calls>>

AddReadsEvents(c) ==
    /\ call[c].op = "added"
    /\ Enter(c, [call[c] EXCEPT !.op = "insert",
                                !.seq = 1 + Max({call[c].seq, events[call[c].chat]})])
    /\ UNCHANGED <<rows, events, chats, view, made, promise, ran, calls>>

\* Its INSERT, which the index may refuse; the session need not exist any more.
AddInserts(c) ==
    /\ call[c].op = "insert"
    /\ made < MaxPrompts
    /\ LET k == call[c]
           new == Inserted(made + 1, [session |-> k.chat, text |-> Fresh, seq |-> k.seq,
                                      promoted |-> FALSE, delivery |-> "queue"])
       IN  IF Unique(new)
           THEN /\ rows' = new
                /\ made' = made + 1
                /\ view' = IF c \in Window THEN [view EXCEPT ![c].sel = made + 1] ELSE view
           ELSE UNCHANGED <<rows, made, view>>
    /\ Return(c)
    /\ UNCHANGED <<events, chats, promise, ran, calls>>

\* edit_queued_prompt, its SELECT.
EditReads(c) ==
    /\ call[c].op = "edit"
    /\ IF CanDrop(call[c].item) THEN Enter(c, [call[c] EXCEPT !.op = "update"]) ELSE Return(c)
    /\ UNCHANGED <<rows, events, chats, view, made, promise, ran, calls>>

\* Mutant: the update trusts what the SELECT saw.
CanUpdateSeen(i) == i \in DOMAIN rows

\* UPDATE ... WHERE id = ? AND promoted_seq IS NULL.
CanUpdate(i) == i \in DOMAIN rows /\ Pending(rows[i])

\* Its UPDATE; the answer is whether a row took the text.
EditWrites(c) ==
    /\ call[c].op = "update"
    /\ LET i == call[c].item
       IN  IF CanUpdate(i)
           THEN /\ rows' = [rows EXCEPT ![i].text = call[c].text]
                /\ promise' = [promise EXCEPT ![i] = call[c].text]
           ELSE UNCHANGED <<rows, promise>>
    /\ Return(c)
    /\ UNCHANGED <<events, chats, view, made, ran, calls>>

-----------------------------------------------------------------------------
(* The window. *)

\* The list after a poll: the row of the selected id is selected again; else the
\* highlight stays on its line, or goes with it.
Shown(v, s) ==
    LET q == Listed(s)
        found == v.sel \in ToSet(q)
    IN  [chat |-> s, list |-> q,
         sel |-> IF found \/ v.line \in DOMAIN q THEN v.sel ELSE NoItem,
         line |-> IF found THEN SelectInSeq(q, LAMBDA x : x = v.sel)
                  ELSE IF v.line \in DOMAIN q THEN v.line ELSE 0]

\* _refresh_data, every 800 ms, under an open edit dialog too: a session that is
\* gone is replaced by the most recent one.
Refresh(w) ==
    /\ call[w].op \in {"idle", "edit"}
    /\ \E s \in Chat \cup {All} :
        /\ IF view[w].chat \in chats \cup {All} THEN s = view[w].chat
           ELSE IF chats = {} THEN s = view[w].chat ELSE s \in chats
        /\ view' = [view EXCEPT ![w] = Shown(view[w], s)]
    /\ UNCHANGED <<rows, events, chats, call, made, promise, ran, calls>>

\* _on_session_selected.
SelectChat(w, s) ==
    /\ call[w] = Idle
    /\ s \in chats \cup {All}
    /\ s # view[w].chat
    /\ view' = [view EXCEPT ![w] = Shown(view[w], s)]
    /\ UNCHANGED <<rows, events, chats, call, made, promise, ran, calls>>

\* _on_queue_selection_changed.
SelectLine(w, l) ==
    /\ call[w] = Idle
    /\ l \in DOMAIN view[w].list
    /\ view' = [view EXCEPT ![w].line = l, ![w].sel = view[w].list[l]]
    /\ UNCHANGED <<rows, events, chats, call, made, promise, ran, calls>>

\* _on_up_clicked, _on_down_clicked.
Move(w, up) ==
    /\ CanCall(w)
    /\ view[w].sel # NoItem /\ view[w].chat # All
    /\ Enter(w, [op |-> "move", chat |-> view[w].chat, item |-> view[w].sel, up |-> up])
    /\ calls' = calls + 1
    /\ UNCHANGED <<rows, events, chats, view, made, promise, ran>>

\* _on_edit_clicked: the row must still be in the list; the dialog stays open as
\* long as the user likes.
Edit(w, t) ==
    /\ CanCall(w)
    /\ view[w].sel \in ToSet(view[w].list)
    /\ Enter(w, [op |-> "edit", item |-> view[w].sel, text |-> t])
    /\ calls' = calls + 1
    /\ UNCHANGED <<rows, events, chats, view, made, promise, ran>>

\* _on_drop_clicked: the row of the highlighted line, and the next line after it.
Drop(w) ==
    /\ CanCall(w)
    /\ view[w].line \in DOMAIN view[w].list
    /\ LET i == view[w].list[view[w].line]
           rest == RemoveAt(view[w].list, view[w].line)
           l == IF view[w].line \in DOMAIN rest THEN view[w].line ELSE Len(rest)
       IN  /\ Drops(i)
           /\ view' = IF ~CanDrop(i) THEN view
                      ELSE [view EXCEPT ![w].list = rest, ![w].line = l,
                                        ![w].sel = IF l = 0 THEN NoItem ELSE rest[l]]
    /\ calls' = calls + 1
    /\ UNCHANGED <<events, chats, call, made, ran>>

\* _on_clear_clicked; the poll that follows is a Refresh.
Clear(w) ==
    /\ CanCall(w)
    /\ IF view[w].chat = All THEN ClearAllQueues ELSE ClearQueue(view[w].chat)
    /\ view' = [view EXCEPT ![w].sel = NoItem]
    /\ calls' = calls + 1
    /\ UNCHANGED <<events, chats, call, made, promise, ran>>

\* _on_add_prompt: into the session shown, else into the first of the sidebar.
Add(w) ==
    /\ CanCall(w)
    /\ \E s \in Chat :
        /\ IF view[w].chat # All THEN s = view[w].chat ELSE s \in chats
        /\ Enter(w, [op |-> "add", chat |-> s])
    /\ calls' = calls + 1
    /\ UNCHANGED <<rows, events, chats, view, made, promise, ran>>

\* _on_delete_session_clicked: events, prompts and the session row go together.
DeleteSession(w) ==
    /\ CanCall(w)
    /\ view[w].chat \in chats
    /\ chats' = chats \ {view[w].chat}
    /\ rows' = Without({i \in DOMAIN rows : rows[i].session = view[w].chat})
    /\ events' = [events EXCEPT ![view[w].chat] = 0]
    /\ view' = [view EXCEPT ![w].chat = All]
    /\ calls' = calls + 1
    /\ UNCHANGED <<call, made, promise, ran>>

\* A command line finds the id by its index in the queue of its session.
Command(c) ==
    /\ CanCall(c)
    /\ \E s \in chats :
        \/ \E i \in QueuedIn(s) :
            \/ Enter(c, [op |-> "drop", item |-> i])
            \/ \E up \in BOOLEAN : Enter(c, [op |-> "move", chat |-> s, item |-> i, up |-> up])
        \/ Enter(c, [op |-> "add", chat |-> s])
        \/ Enter(c, [op |-> "clear", chat |-> s])
    /\ calls' = calls + 1
    /\ UNCHANGED <<rows, events, chats, view, made, promise, ran>>

CommandDrops(c) ==
    /\ call[c].op = "drop"
    /\ Drops(call[c].item)
    /\ Return(c)
    /\ UNCHANGED <<events, chats, view, made, ran, calls>>

CommandClears(c) ==
    /\ call[c].op = "clear"
    /\ ClearQueue(call[c].chat)
    /\ Return(c)
    /\ UNCHANGED <<events, chats, view, made, promise, ran, calls>>

Next ==
    \/ \E s \in Chat, d \in {"queue", "steer"} : Admit(s, d)
    \/ \E i \in Id : Promote(i)
    \/ \E c \in Client :
        \/ MoveReads(c) \/ SwapReadsFirst(c) \/ SwapReadsSecond(c) \/ SwapWrites(c)
        \/ AddReadsRows(c) \/ AddReadsEvents(c) \/ AddInserts(c)
        \/ EditReads(c) \/ EditWrites(c)
    \/ \E w \in Window :
        \/ Refresh(w) \/ Drop(w) \/ Clear(w) \/ Add(w) \/ DeleteSession(w)
        \/ \E s \in Chat \cup {All} : SelectChat(w, s)
        \/ \E l \in 1..MaxPrompts : SelectLine(w, l)
        \/ \E up \in BOOLEAN : Move(w, up)
        \/ \E t \in Text : Edit(w, t)
    \/ \E c \in Cli : Command(c) \/ CommandDrops(c) \/ CommandClears(c)

Spec == Init /\ [][Next]_vars

-----------------------------------------------------------------------------
TypeOK ==
    /\ DOMAIN rows \subseteq Id
    /\ \A i \in DOMAIN rows :
        /\ rows[i].session \in Chat /\ rows[i].text \in Text \cup {Fresh} /\ rows[i].seq \in Int
        /\ rows[i].promoted \in BOOLEAN /\ rows[i].delivery \in {"queue", "steer"}
    /\ events \in [Chat -> Nat]
    /\ chats \subseteq Chat
    /\ made \in 0..MaxPrompts /\ calls \in 0..MaxCalls
    /\ promise \in [Id -> Text \cup {Nothing, Dropped}]
    /\ ran \in [Id -> Text \cup {Nothing, Fresh}]

\* What an edit or a drop answered "done" is what the session runs: a dropped
\* prompt never runs, and an edited one runs with the text of its last edit,
\* whichever window, command line or promotion came between the statements.
AnswerHolds ==
    \A i \in Id : ran[i] # Nothing /\ promise[i] # Nothing => ran[i] = promise[i]

\* No reader, the server least of all, sees a row a swap has parked: a swap that
\* the index stops half-way takes its first update back.
NothingParked == \A i \in DOMAIN rows : rows[i].seq # Parked
=============================================================================
