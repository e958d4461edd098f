------------------------------ MODULE LiveStream ------------------------------
(***************************************************************************)
(* The stream worker of the queue viewer (saipatch/viewer_live_stream.py): *)
(* one connection to a server's events, opened again after it fails, and   *)
(* the text of the turn it shows, within one bound.                        *)
(*                                                                         *)
(* The worker looks for data as soon as it has asked for the stream, so    *)
(* it holds a stream for live before anything has come of it, and starts   *)
(* its delays over.  A reply that fails says so in two signals, and the    *)
(* window's commands come in between.                                      *)
(*                                                                         *)
(* Abstractions: a text is the numbers of its characters, each one byte;   *)
(* frames arrive whole, and those made while nothing listens are missed;   *)
(* of the other sessions the filter lets nothing through.  Delays and the  *)
(* signals to the window are left out.                                     *)
(***************************************************************************)
EXTENDS Integers, FiniteSets, SequencesExt

CONSTANTS
    Url,         \* servers
    Budget,      \* bytes a turn may show
    MaxTexts,    \* bound: texts of a message
    MaxLength,   \* bound: characters of a text
    MaxMessages, \* bound: messages
    MaxDials,    \* bound: connections
    MaxCommands  \* bound: commands of the window

VARIABLES
    running,    \* _running
    url,        \* _endpoint_url, None for no endpoint
    chosen,     \* the session it is for: its own (TRUE) or another
    wire,       \* connections a server still has: number to "open" or "failed"
    reply,      \* _reply: the connection it listens to, 0 for none
    alive,      \* _connection_alive
    timer,      \* a reconnect is due
    backoff,    \* _backoff_index
    dials,
    commands,
    message,    \* _current_message_id, 0 for none
    parts,      \* _parts: [id, chunks, bytes, finalized, ended]
    total,      \* _total_bytes
    truncated,
    server,     \* the session at the server: its message, the number, length and state of its text
    got         \* ghost: what arrived of each text of the turn

streamVars == <<running, url, chosen, wire, reply, alive, timer, backoff, dials, commands,
                message, parts, total, truncated, server, got>>

None == "none"
Nothing == [t \in 1..MaxTexts |-> <<>>]
Delays == 4                                       \* RECONNECT_BACKOFF_S
link == <<wire, reply, alive, timer, backoff, dials>>
turn == <<message, parts, total, truncated, got>>

-----------------------------------------------------------------------------
(* The connection. *)

Drop(w, c) == [n \in DOMAIN w \ {c} |-> w[n]]

\* Mutant: a stream is opened whatever is listened to already.
OpenedAlways(w, r, u) ==
    IF u # None
    THEN /\ dials' = dials + 1 /\ wire' = [n \in DOMAIN w \cup {dials + 1} |-> IF n \in DOMAIN w THEN w[n] ELSE "open"]
         /\ reply' = dials + 1 /\ alive' = TRUE /\ backoff' = 0
    ELSE wire' = w /\ reply' = r /\ UNCHANGED <<dials, alive, backoff>>

\* _open_stream, over connections w, listening to r, for the endpoint u: never a second one.
\* It ends with a look for data.
Opened(w, r, u) ==
    IF u # None /\ r = 0
    THEN /\ dials' = dials + 1 /\ wire' = [n \in DOMAIN w \cup {dials + 1} |-> IF n \in DOMAIN w THEN w[n] ELSE "open"]
         /\ reply' = dials + 1 /\ alive' = TRUE /\ backoff' = 0
    ELSE wire' = w /\ reply' = r /\ UNCHANGED <<dials, alive, backoff>>

\* A turn that begins, for a message.
NewTurn(m, ps) == message' = m /\ parts' = ps /\ total' = 0 /\ truncated' = FALSE /\ got' = Nothing
ResetTurn == NewTurn(0, <<>>)

\* _schedule_reconnect
Schedule == timer' = TRUE /\ backoff' = IF timer \/ backoff = Delays - 1 THEN backoff ELSE backoff + 1

StreamInit ==
    /\ running = FALSE /\ url \in Url \cup {None} /\ chosen = TRUE
    /\ wire = <<>> /\ reply = 0 /\ alive = FALSE /\ timer = FALSE /\ backoff = 0
    /\ dials = 0 /\ commands = 0
    /\ message = 0 /\ parts = <<>> /\ total = 0 /\ truncated = FALSE /\ got = Nothing
    /\ server = [message |-> 0, text |-> 0, length |-> 0, open |-> FALSE]

Start ==
    /\ ~running /\ commands = 0 /\ running' = TRUE
    /\ Opened(wire, reply, url)
    /\ UNCHANGED <<url, chosen, timer, commands, turn, server>>

Command == running /\ commands < MaxCommands /\ commands' = commands + 1 /\ dials < MaxDials

\* The window chooses this session, or another.
SelectSession ==
    /\ Command /\ chosen' = ~chosen /\ ResetTurn
    /\ UNCHANGED <<running, url, link, server>>

\* A reconnect that is due stays due.
Retarget(u) ==
    /\ Command /\ u # url /\ url' = u /\ ResetTurn
    /\ IF u # None THEN Opened(Drop(wire, reply), 0, u)
       ELSE /\ wire' = Drop(wire, reply) /\ reply' = 0 /\ alive' = FALSE /\ backoff' = 0
            /\ UNCHANGED dials
    /\ UNCHANGED <<running, chosen, timer, server>>

\* F5
Refresh ==
    /\ Command /\ ~alive /\ url # None
    /\ timer' = FALSE /\ Opened(wire, reply, url)
    /\ UNCHANGED <<running, url, chosen, turn, server>>

Stop ==
    /\ Command /\ running' = FALSE
    /\ wire' = Drop(wire, reply) /\ reply' = 0 /\ alive' = FALSE /\ timer' = FALSE
    /\ UNCHANGED <<url, chosen, backoff, dials, turn, server>>

\* errorOccurred
Fail(c) ==
    /\ c \in DOMAIN wire /\ wire[c] = "open" /\ wire' = [wire EXCEPT ![c] = "failed"]
    /\ IF running THEN alive' = FALSE /\ Schedule ELSE UNCHANGED <<alive, timer, backoff>>
    /\ UNCHANGED <<running, url, chosen, reply, dials, commands, turn, server>>

\* finished: what is listened to is given up, whichever connection has finished.
Finish(c) ==
    /\ c \in DOMAIN wire /\ wire' = Drop(wire, c)
    /\ IF running THEN reply' = 0 /\ alive' = FALSE /\ Schedule ELSE UNCHANGED <<reply, alive, timer, backoff>>
    /\ UNCHANGED <<running, url, chosen, dials, commands, turn, server>>

\* _reconnect_tick
ReconnectTick ==
    /\ timer /\ timer' = FALSE /\ dials < MaxDials
    /\ IF running /\ ~alive THEN Opened(wire, reply, url) ELSE UNCHANGED <<wire, reply, alive, backoff, dials>>
    /\ UNCHANGED <<running, url, chosen, commands, turn, server>>

-----------------------------------------------------------------------------
(* The text of the turn. *)

Text(p) == FlattenSeq(p.chunks)
SizeOf(ps) == FoldLeft(LAMBDA n, p : n + p.bytes, 0, ps)
\* Python's s[n:], which counts from the end when n is negative.
Slice(s, n) == SubSeq(s, 1 + (IF n >= 0 THEN n ELSE IF Len(s) + n > 0 THEN Len(s) + n ELSE 0), Len(s))
PartAt(ps, t) == CHOOSE i \in DOMAIN ps : ps[i].id = t

\* _part_by_id, which makes the part
WithPart(ps, t) ==
    IF \E i \in DOMAIN ps : ps[i].id = t THEN ps
    ELSE Append(ps, [id |-> t, chunks |-> <<<<>>>>, bytes |-> 0, finalized |-> FALSE, ended |-> FALSE])

\* Of a part that was cut before, only the last chunk is looked at.
Cuttable(p) == IF p.finalized THEN Last(p.chunks) ELSE Text(p)

\* Mutant: the newest is cut away.
CutLate(p, n) == SubSeq(Cuttable(p), 1, Len(Cuttable(p)) - n)
\* The front of a part is cut away.
Cut(p, n) == SubSeq(Cuttable(p), n + 1, Len(Cuttable(p)))

\* _apply_total_truncation: the oldest parts are cut until the new bytes fit.
Trimmed(ps, sum, new) ==
    FoldLeft(LAMBDA acc, i :
        IF acc.total + new <= Budget THEN acc
        ELSE LET p == acc.parts[i]
                 n == IF p.bytes < acc.total + new - Budget THEN p.bytes ELSE acc.total + new - Budget
                 cut == [acc.parts EXCEPT ![i] = [p EXCEPT !.chunks = <<Cut(p, n)>>, !.bytes = Len(Cut(p, n)), !.finalized = TRUE]]
             IN [parts |-> cut, total |-> SizeOf(cut)],
      [parts |-> ps, total |-> sum], [i \in DOMAIN ps |-> i])

\* _append_delta
Appended(t, delta) ==
    LET ps == WithPart(parts, t)
        i == PartAt(ps, t)
        fits == total + Len(delta) <= Budget
        cut == IF fits THEN [parts |-> ps, total |-> total] ELSE Trimmed(ps, total, Len(delta))
        p == cut.parts[i]
        kept == Slice(delta, Len(delta) - Budget)
    IN IF ps[i].ended THEN parts' = ps /\ UNCHANGED <<total, truncated>>
       ELSE /\ truncated' = (truncated \/ ~fits)
            /\ IF cut.total + Len(delta) <= Budget
               THEN /\ parts' = [cut.parts EXCEPT ![i].chunks = Append(@, delta), ![i].bytes = @ + Len(delta)]
                    /\ total' = cut.total + Len(delta)
               ELSE /\ parts' = [cut.parts EXCEPT ![i].chunks = <<kept>>, ![i].bytes = Len(kept)]
                    /\ total' = cut.total - p.bytes + Len(kept)

\* Mutant: what the part had is counted still.
FinalizedTwice(t, final) ==
    LET ps == WithPart(parts, t)
        i == PartAt(ps, t)
        fits == total + Len(final) <= Budget
        kept == IF fits THEN final ELSE Slice(final, Len(final) - Budget)
    IN /\ parts' = [ps EXCEPT ![i] = [@ EXCEPT !.chunks = <<kept>>, !.bytes = Len(kept), !.ended = TRUE]]
       /\ total' = total + Len(kept) /\ truncated' = ~fits

\* _finalize_part: the other parts are not cut for it, and of a text that is too long only
\* beside them the slice is from the end.
Finalized(t, final) ==
    LET ps == WithPart(parts, t)
        i == PartAt(ps, t)
        others == total - ps[i].bytes
        fits == others + Len(final) <= Budget
        kept == IF fits THEN final ELSE Slice(final, Len(final) - Budget)
    IN /\ parts' = [ps EXCEPT ![i] = [@ EXCEPT !.chunks = <<kept>>, !.bytes = Len(kept), !.ended = TRUE]]
       /\ total' = others + Len(kept) /\ truncated' = ~fits

-----------------------------------------------------------------------------
(* The server, and what the worker makes of its frames. *)

Listens == running /\ reply \in DOMAIN wire /\ wire[reply] = "open" /\ chosen
Rest == UNCHANGED <<running, url, chosen, link, commands>>


\* step.started
StepStarts ==
    /\ server.message < MaxMessages
    /\ server' = [message |-> server.message + 1, text |-> 0, length |-> 0, open |-> FALSE]
    /\ IF Listens THEN NewTurn(server'.message, <<>>) ELSE UNCHANGED turn
    /\ Rest

\* text.started
TextStarts ==
    /\ server.message > 0 /\ ~server.open /\ server.text < MaxTexts
    /\ server' = [server EXCEPT !.text = @ + 1, !.length = 0, !.open = TRUE]
    /\ IF ~Listens THEN UNCHANGED turn
       ELSE IF message # server.message THEN NewTurn(server.message, WithPart(<<>>, server'.text))
       ELSE parts' = WithPart(parts, server'.text) /\ UNCHANGED <<message, total, truncated, got>>
    /\ Rest

\* text.delta: of another message it is ignored.
Delta(n) ==
    /\ server.open /\ n \in 1..(MaxLength - server.length)
    /\ server' = [server EXCEPT !.length = @ + n]
    /\ IF ~Listens \/ message # server.message THEN UNCHANGED turn
       ELSE LET delta == [k \in 1..n |-> server.length + k]
            IN Appended(server.text, delta) /\ got' = [got EXCEPT ![server.text] = @ \o delta] /\ UNCHANGED message
    /\ Rest

\* text.ended, with the whole text
TextEnds ==
    /\ server.open /\ server' = [server EXCEPT !.open = FALSE]
    /\ IF ~Listens \/ message # server.message THEN UNCHANGED turn
       ELSE LET final == [k \in 1..server.length |-> k]
            IN Finalized(server.text, final) /\ got' = [got EXCEPT ![server.text] = final] /\ UNCHANGED message
    /\ Rest

StreamNext ==
    \/ Start \/ SelectSession \/ Refresh \/ Stop \/ ReconnectTick
    \/ \E u \in Url \cup {None} : Retarget(u)
    \/ \E c \in DOMAIN wire : Fail(c) \/ Finish(c)
    \/ StepStarts \/ TextStarts \/ TextEnds \/ \E n \in 1..MaxLength : Delta(n)

StreamSpec == StreamInit /\ [][StreamNext]_streamVars

-----------------------------------------------------------------------------
TypeOK ==
    /\ url \in Url \cup {None} /\ reply \in {0} \cup DOMAIN wire /\ backoff \in 0..(Delays - 1)
    /\ message \in 0..MaxMessages /\ Len(parts) <= MaxTexts /\ total \in Nat

\* Whatever fails, and whatever the window asks for between the two signals of a failure or
\* while a reconnect is due: a server never has two streams of the viewer, and a viewer that
\* runs and has an endpoint has a stream, or a reconnect is due.
OneStream ==
    /\ Cardinality({c \in DOMAIN wire : wire[c] = "open"}) <= 1
    /\ running /\ url # None => reply # 0 \/ timer

\* Whatever was cut for the bound: each text that is shown is the end of what arrived of it,
\* and the total is what is held.
ShownIsTheEnd ==
    /\ total = SizeOf(parts)
    /\ \A i \in DOMAIN parts : IsSuffix(Text(parts[i]), got[parts[i].id])
=============================================================================
