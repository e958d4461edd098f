----------------------------- MODULE ViewerText -----------------------------
(***************************************************************************)
(* What the queue viewer shows of a running session (saipatch/             *)
(* viewer_presentation.py, viewer_live_stream.py, viewer_observer.py).     *)
(*                                                                         *)
(* An assistant writes messages of text parts.  Its server publishes every *)
(* event on one live connection and keeps the events that start and end a  *)
(* part in the database.  The stream worker forwards the live events of    *)
(* the selected session; the observer polls the database and posts an      *)
(* immutable snapshot of what it assembled: it begins at the latest        *)
(* prompted event, or, where none is, with the last events, so that a      *)
(* message may be cut in two by where it begins.  Both reach the window's  *)
(* queue, and the presenter decides which of them the user sees.           *)
(*                                                                         *)
(* Abstractions: a text is the part it belongs to and whether it is a      *)
(* partial or the final one; a message of a session is its number, a part  *)
(* is its number within the message; the bound on the rendered bytes and   *)
(* the cadence of repaints are left out; the lifecycle line is not         *)
(* modelled.                                                               *)
(***************************************************************************)
EXTENDS Naturals, Sequences, FiniteSets, SequencesExt

CONSTANTS
    Session,    \* the sessions
    Quiet,      \* the sessions that have one written part and write no more
    Recent,     \* the events read of a session without a prompted event (50)
    MaxRows,    \* bound: the event rows a session writes
    MaxSelect,  \* bound: selections by the user
    MaxLosses,  \* bound: losses of the live connection
    MaxInbox    \* bound: messages waiting in the window's queue

VARIABLES
    log,        \* [Session -> Seq(Event)]: the event rows of the database
    active,     \* [Session -> the part being written, or NoPart]
    wire,       \* published events the stream worker has not read
    linked,     \* the live connection stands
    losses,     \* connections lost so far
    sel,        \* the window's current_session_id
    selects,    \* selections so far
    toStream,   \* selection commands the stream worker has not taken
    toObserver, \* selection commands the observer has not taken
    stream,     \* the stream worker: its session and message
    observer,   \* the observer: its session, where it begins and the last row it read
    inbox,      \* the window's queue
    msg,        \* _current_message_id of the presenter
    retired,    \* _retired_messages
    parts,      \* _parts: what is shown, in order
    writing,    \* _active_part_id
    final       \* _finalized_parts

serverVars == <<log, active>>
lineVars == <<wire, linked, losses>>
choiceVars == <<sel, selects>>
shownVars == <<msg, retired, parts, writing, final>>
vars == <<serverVars, lineVars, choiceVars, toStream, toObserver, stream, observer, inbox,
          shownVars>>

NoSession == "no session"
None == 0
Msg == 1..MaxRows
PartId == Msg
NoPart == <<0, 0>>

\* An event of a session: a prompt is taken up, a part starts, grows or ends.
Event == [do : {"prompted", "started", "delta", "ended"}, session : Session,
          msg : {None} \union Msg, part : {None} \union PartId]
\* A text: the part of which session it was written for, partial or final.
Text == [session : Session, msg : Msg, part : PartId, whole : BOOLEAN]
Nothing == [whole |-> FALSE, empty |-> TRUE]
TextOf(e, whole) == [session |-> e.session, msg |-> e.msg, part |-> e.part, whole |-> whole]

\* A part on the screen.
Part == [id : PartId, text : Text \union {Nothing}, final : BOOLEAN]

TypeOK ==
    /\ log \in [Session -> Seq(Event)] /\ active \in [Session -> {NoPart} \union (Msg \X PartId)]
    /\ wire \in Seq(Event) /\ linked \in BOOLEAN /\ losses \in 0..MaxLosses
    /\ sel \in Session \union {NoSession} /\ selects \in 0..MaxSelect
    /\ stream \in [session : Session \union {NoSession}, msg : {None} \union Msg]
    /\ observer \in [session : Session \union {NoSession}, from : Nat, read : Nat, busy : BOOLEAN]
    /\ msg \in {None} \union Msg /\ retired \subseteq Msg
    /\ parts \in Seq(Part) /\ writing \in {None} \union PartId
    /\ final \subseteq ({None} \union Msg) \X PartId

-----------------------------------------------------------------------------
(* The server.                                                             *)

Publish(e) == wire' = IF linked THEN Append(wire, e) ELSE wire

\* What is written next: a further part of the message, or a new message, whose
\* parts are numbered on or anew.
Following(s) ==
    LET starts == SelectSeq(log[s], LAMBDA e : e.do = "started")
    IN IF starts = <<>> THEN {<<1, 1>>}
       ELSE LET l == starts[Len(starts)] IN {<<l.msg, l.part + 1>>, <<l.msg + 1, 1>>, <<l.msg + 1, l.part + 1>>}

\* A prompt is taken up, whatever is being written.
Prompts(s) ==
    /\ s \notin Quiet /\ Len(log[s]) < MaxRows
    /\ log' = [log EXCEPT ![s] = Append(@, [do |-> "prompted", session |-> s, msg |-> None, part |-> None])]
    /\ UNCHANGED <<active, lineVars, choiceVars, toStream, toObserver, stream, observer, inbox,
                   shownVars>>

Starts(s) ==
    /\ active[s] = NoPart /\ s \notin Quiet /\ Len(log[s]) < MaxRows
    /\ \E n \in Following(s) :
         LET e == [do |-> "started", session |-> s, msg |-> n[1], part |-> n[2]]
         IN log' = [log EXCEPT ![s] = Append(@, e)] /\ active' = [active EXCEPT ![s] = n]
            /\ Publish(e)
    /\ UNCHANGED <<linked, losses, choiceVars, toStream, toObserver, stream, observer, inbox,
                   shownVars>>

Grows(s) ==
    /\ active[s] # NoPart
    /\ LET e == [do |-> "delta", session |-> s, msg |-> active[s][1], part |-> active[s][2]]
       IN /\ linked /\ \A i \in DOMAIN wire : wire[i] # e
          /\ Publish(e)
    /\ UNCHANGED <<serverVars, linked, losses, choiceVars, toStream, toObserver, stream,
                   observer, inbox, shownVars>>

Ends(s) ==
    /\ active[s] # NoPart
    /\ LET e == [do |-> "ended", session |-> s, msg |-> active[s][1], part |-> active[s][2]]
       IN log' = [log EXCEPT ![s] = Append(@, e)] /\ Publish(e)
    /\ active' = [active EXCEPT ![s] = NoPart]
    /\ UNCHANGED <<linked, losses, choiceVars, toStream, toObserver, stream, observer, inbox,
                   shownVars>>

-----------------------------------------------------------------------------
(* The stream worker.                                                      *)

\* What was not read is gone with the connection, and nothing is sent again.
Lose ==
    /\ linked /\ losses < MaxLosses
    /\ linked' = FALSE /\ losses' = losses + 1 /\ wire' = <<>>
    /\ UNCHANGED <<serverVars, choiceVars, toStream, toObserver, stream, observer, inbox,
                   shownVars>>

Reconnect ==
    /\ ~linked /\ linked' = TRUE
    /\ UNCHANGED <<serverVars, wire, losses, choiceVars, toStream, toObserver, stream,
                   observer, inbox, shownVars>>

StreamSelect ==
    /\ toStream # <<>> /\ toStream' = Tail(toStream)
    /\ stream' = IF stream.session = Head(toStream) THEN stream
                 ELSE [session |-> Head(toStream), msg |-> None]
    /\ UNCHANGED <<serverVars, lineVars, choiceVars, toObserver, observer, inbox, shownVars>>

\* Frames of another session, and text of another message than the one that
\* started, are not forwarded.
Forwards(e) ==
    /\ e.session = stream.session
    /\ e.do = "started" \/ e.msg = stream.msg

Frame ==
    /\ wire # <<>> /\ Len(inbox) < MaxInbox
    /\ LET e == Head(wire) IN
       IF Forwards(e)
       THEN /\ stream' = [stream EXCEPT !.msg = e.msg]
            /\ inbox' = Append(inbox, [from |-> "live", session |-> stream.session, event |-> e])
       ELSE UNCHANGED <<stream, inbox>>
    /\ wire' = Tail(wire)
    /\ UNCHANGED <<serverVars, linked, losses, choiceVars, toStream, toObserver, observer,
                   shownVars>>

-----------------------------------------------------------------------------
(* The observer.                                                           *)

Unread(s) == [session |-> s, from |-> 0, read |-> 0, busy |-> FALSE]

ObserverSelect ==
    /\ toObserver # <<>> /\ ~observer.busy /\ toObserver' = Tail(toObserver)
    /\ observer' = IF observer.session = Head(toObserver) THEN observer ELSE Unread(Head(toObserver))
    /\ UNCHANGED <<serverVars, lineVars, choiceVars, toStream, stream, inbox, shownVars>>

\* Where the first read of a session begins: at the latest prompted event, else at the
\* last events.
StartOf(rows) ==
    LET prompted == {i \in DOMAIN rows : rows[i].do = "prompted"}
    IN Max(IF prompted # {} THEN prompted ELSE {1, Len(rows) + 1 - Recent})

\* The first tick of a session looks for it; the rows are read by a statement after it.
\* A session without an event is read from its first one on.
Hydrate ==
    LET s == observer.session IN
    /\ s # NoSession /\ observer.from = 0
    /\ observer' = [observer EXCEPT !.from = StartOf(log[s]), !.busy = log[s] # <<>>]
    /\ UNCHANGED <<serverVars, lineVars, choiceVars, toStream, toObserver, stream, inbox, shownVars>>

\* _process_event_text: a part that starts begins a new turn only if another message is
\* known, and a part that ends is there, whether its start was read or not.
Assembled(turn, e) ==
    LET ps == IF e.do = "started" /\ turn.msg \notin {None, e.msg} THEN <<>> ELSE turn.parts
        of == {i \in DOMAIN ps : ps[i].id = e.part}
        ended == [id |-> e.part, text |-> TextOf(e, TRUE), final |-> TRUE]
        fresh == [id |-> e.part, text |-> Nothing, final |-> FALSE]
    IN CASE e.do = "started" ->
              [msg |-> e.msg, parts |-> IF of # {} THEN ps ELSE Append(ps, fresh)]
         [] e.do = "ended" ->
              [turn EXCEPT !.parts = IF of = {} THEN Append(ps, ended)
                                     ELSE [i \in DOMAIN ps |-> IF i \in of THEN ended ELSE ps[i]]]
         [] OTHER -> turn

\* The durable picture that rows give, each part with its final text once it has ended.
Durable(rows) == FoldLeft(Assembled, [msg |-> None, parts |-> <<>>], rows)

\* The rows of a session the observer goes by.
Window(rows) == SubSeq(rows, observer.from, Len(rows))

\* A tick that finds new rows reads them all and posts the snapshot.
Poll ==
    LET s == observer.session
        turn == Durable(Window(log[s]))
    IN
    /\ s # NoSession /\ observer.from # 0 /\ observer.read < Len(log[s]) /\ Len(inbox) < MaxInbox
    /\ observer' = [observer EXCEPT !.read = Len(log[s]), !.busy = FALSE]
    /\ inbox' = Append(inbox, [from |-> "durable", session |-> s, msg |-> turn.msg,
                               parts |-> turn.parts])
    /\ UNCHANGED <<serverVars, lineVars, choiceVars, toStream, toObserver, stream, shownVars>>

-----------------------------------------------------------------------------
(* The window and the presenter.                                           *)

ResetTurn == msg' = None /\ retired' = {} /\ parts' = <<>> /\ writing' = None /\ final' = {}

Select(s) ==
    /\ selects < MaxSelect /\ s # sel
    /\ sel' = s /\ selects' = selects + 1
    /\ toStream' = Append(toStream, s) /\ toObserver' = Append(toObserver, s)
    /\ ResetTurn
    /\ UNCHANGED <<serverVars, lineVars, stream, observer, inbox>>

Arrives(from) == inbox # <<>> /\ Head(inbox).from = from /\ inbox' = Tail(inbox)
Now == Head(inbox)

Retire(m) == retired' = IF msg = None THEN retired ELSE retired \union {msg}

HasText(ps) == SelectSeq(ps, LAMBDA p : p.text # Nothing)

\* A message that was left behind never comes back by way of a snapshot.
Stale(m) == m \notin {None, msg} /\ m \in retired

\* A snapshot without text only names the message, and only while no partial is
\* on the screen.  Another one is the durable truth about its message, or, when it
\* names none, about the one on the screen.
OnDurable ==
    /\ Arrives("durable")
    /\ LET ps == HasText(Now.parts)
           m  == Now.msg
           live == \E i \in DOMAIN parts : ~parts[i].final /\ parts[i].text # Nothing
       IN IF Now.session # sel \/ Stale(m) \/ (ps = <<>> /\ (live \/ m \in {None, msg}))
          THEN UNCHANGED shownVars
          ELSE IF ps = <<>>
          THEN msg' = m /\ Retire(m) /\ UNCHANGED <<parts, writing, final>>
          ELSE /\ IF m \in {None, msg} THEN UNCHANGED <<msg, retired, writing>>
                  ELSE msg' = m /\ Retire(m) /\ writing' = None
               /\ parts' = ps
               /\ final' = final \union {<<m, ps[i].id>> : i \in DOMAIN ps}
    /\ UNCHANGED <<serverVars, lineVars, choiceVars, toStream, toObserver, stream, observer>>

Index(id) == IF \E i \in DOMAIN parts : parts[i].id = id
             THEN CHOOSE i \in DOMAIN parts : parts[i].id = id ELSE 0

\* The part an event is about: its own, or the active one when it is not there.
PartFor(id) == IF Index(id) # 0 THEN Index(id) ELSE Index(writing)

Put(i, id, text, fin) ==
    parts' = IF i = 0 THEN Append(parts, [id |-> id, text |-> text, final |-> fin])
             ELSE [parts EXCEPT ![i].text = text, ![i].final = fin]

\* Mutant: the parts of the message before stay.
KeptParts(e) == parts

\* A new message begins with an empty screen.
PartsFor(e) == IF e.msg = msg THEN parts ELSE <<>>

OnStarted(e) ==
    /\ msg' = e.msg
    /\ IF e.msg # msg THEN Retire(e.msg) ELSE UNCHANGED retired
    /\ LET ps == PartsFor(e) IN
       parts' = IF \E i \in DOMAIN ps : ps[i].id = e.part THEN ps
                ELSE Append(ps, [id |-> e.part, text |-> Nothing, final |-> FALSE])
    /\ writing' = e.part /\ UNCHANGED final

\* Mutant: a late partial is written over a part that was final.
AcceptsLate(e) == msg = None \/ e.msg = msg

\* A partial counts for the message on the screen, and never for a part that is
\* final already.
Accepts(e) ==
    /\ msg = None \/ e.msg = msg
    /\ <<msg, e.part>> \notin final
    /\ LET i == PartFor(e.part) IN i = 0 \/ ~parts[i].final

OnDelta(e) ==
    /\ IF Accepts(e) THEN Put(PartFor(e.part), e.part, TextOf(e, FALSE), FALSE)
       ELSE UNCHANGED parts
    /\ UNCHANGED <<msg, retired, writing, final>>

OnEnded(e) ==
    /\ IF msg = None \/ e.msg = msg
       THEN /\ Put(PartFor(e.part), e.part, TextOf(e, TRUE), TRUE)
            /\ final' = final \union {<<msg, e.part>>}
       ELSE UNCHANGED <<parts, final>>
    /\ UNCHANGED <<msg, retired, writing>>

\* Mutant: the presenter takes what the stream worker sends, whoever it is for.
ForAnyone(m) == sel # NoSession

\* Only the selected session is shown.
ForSelected(m) == m.session = sel /\ sel # NoSession

OnLive ==
    /\ Arrives("live")
    /\ IF ~ForSelected(Now) THEN UNCHANGED shownVars
       ELSE LET e == Now.event IN
            CASE e.do = "started" -> OnStarted(e)
              [] e.do = "delta" -> OnDelta(e)
              [] e.do = "ended" -> OnEnded(e)
    /\ UNCHANGED <<serverVars, lineVars, choiceVars, toStream, toObserver, stream, observer>>

-----------------------------------------------------------------------------
Before(s) == <<[do |-> "started", session |-> s, msg |-> 1, part |-> 1],
               [do |-> "ended", session |-> s, msg |-> 1, part |-> 1]>>

Init ==
    /\ log = [s \in Session |-> IF s \in Quiet THEN Before(s) ELSE <<>>]
    /\ active = [s \in Session |-> NoPart]
    /\ wire = <<>> /\ linked = TRUE /\ losses = 0
    /\ sel = NoSession /\ selects = 0 /\ toStream = <<>> /\ toObserver = <<>>
    /\ stream = [session |-> NoSession, msg |-> None]
    /\ observer = Unread(NoSession) /\ inbox = <<>>
    /\ msg = None /\ retired = {} /\ parts = <<>> /\ writing = None /\ final = {}

Next ==
    \/ \E s \in Session : Prompts(s) \/ Starts(s) \/ Grows(s) \/ Ends(s) \/ Select(s)
    \/ Lose \/ Reconnect \/ StreamSelect \/ Frame \/ ObserverSelect \/ Hydrate \/ Poll
    \/ OnDurable \/ OnLive

Spec == Init /\ [][Next]_vars

-----------------------------------------------------------------------------
(* Properties.                                                             *)

\* Whatever is still on its way when the user selects another session, the
\* screen only ever shows text that was written in the selected one.
OnlyTheSelected ==
    \A i \in DOMAIN parts : parts[i].text # Nothing => parts[i].text.session = sel

\* What was shown final is never shown partial again, nor another text in its
\* place, whatever of the two ways is behind the other.
FinalIsWhole ==
    losses = 0 => \A i \in DOMAIN parts :
        <<msg, parts[i].id>> \in final /\ parts[i].text # Nothing =>
            parts[i].text = [session |-> sel, msg |-> msg, part |-> parts[i].id, whole |-> TRUE]

Settled ==
    /\ sel # NoSession /\ wire = <<>> /\ inbox = <<>> /\ toStream = <<>> /\ toObserver = <<>>
    /\ observer.from # 0 /\ observer.read = Len(log[sel]) /\ observer.read > 0

Finals(ps) == SelectSeq(ps, LAMBDA p : p.final)
Written(rows) == Durable(rows).parts
Newest(rows) == Durable(rows).msg

\* No message is cut by where the observer begins.
Uncut(rows) ==
    \A i \in 1..(observer.from - 1), j \in observer.from..Len(rows) :
        rows[i].msg # None => rows[i].msg # rows[j].msg

\* Once everything that was written has arrived, in whatever order the two ways
\* delivered it, every ended part of the newest message that the observer has read is
\* shown whole, under its own name (LIVE PARTIAL -> DURABLE FINAL -> DURABLE FINAL
\* REMAINS); and where no message is cut by the beginning of what it reads, nothing is
\* missing of the newest message, and its parts stand in order and alone.
Converges ==
    Settled /\ losses = 0 =>
        LET rows == log[sel]
            read == Finals(Written(Window(rows)))
        IN /\ \A i \in DOMAIN read :
                read[i].text.msg = Newest(Window(rows)) => read[i] \in ToSet(parts)
           /\ Uncut(rows) /\ read # <<>> => Finals(parts) = Finals(Written(rows))

\* For the record, what TLC refutes: a message that is cut leaves a part of an older one
\* beside those of the newest.
NothingOlderIsShown ==
    Settled /\ losses = 0 =>
        \A i \in DOMAIN parts : parts[i].final => parts[i].text.msg = Newest(log[sel])
=============================================================================
