------------------------------ MODULE MCSaipatch ------------------------------
(***************************************************************************)
(* An instance of the modules of the message queue for TLC: sending from   *)
(* the viewer, the viewer's text, and the queue itself.  They share no     *)
(* state, so one run takes their disjoint union: the initial state picks   *)
(* the part that moves, and the others rest in their own initial states.   *)
(***************************************************************************)
EXTENDS Naturals, Sequences

CONSTANTS
    Session,
    Url, Proc, Knows, Up, MaxGen, MaxReq, MaxRev, MaxWorld, MaxPosted,   \* ViewerSend
    MaxSteps,   \* bound: requests, selections, edits and server changes together
    Quiet, Recent, MaxRows, MaxSelect, MaxLosses, MaxInbox,              \* ViewerText
    MaxMoves,   \* bound: rows, selections and losses together
    Chat, Windows, Cli, Texts, MaxPrompts, MaxCalls                      \* MessageQueue

ASSUME SaipatchConstants == MaxPrompts \in Nat /\ MaxReq \in Nat

VARIABLES
    part,
    at, world, cur, gen, status, listed, gone, enabled, owner, rids, rev, blank, submit,
    inflight, preset, pending, dialog, posted, told, target, files, jobs, sender, aim,
    submitted,
    log, active, wire, linked, losses, sel, selects, toStream, toObserver, stream, observer,
    inbox, msg, retired, parts, writing, final,
    rows, events, chats, view, call, made, calls, promise, ran

sendVars == <<at, world, cur, gen, status, listed, gone, enabled, owner, rids, rev, blank,
              submit, inflight, preset, pending, dialog, posted, told, target, files, jobs,
              sender, aim, submitted>>
textVars == <<log, active, wire, linked, losses, sel, selects, toStream, toObserver, stream,
              observer, inbox, msg, retired, parts, writing, final>>
queueVars == <<rows, events, chats, view, call, made, calls, promise, ran>>

S == INSTANCE ViewerSend
T == INSTANCE ViewerText
Q == INSTANCE MessageQueue WITH Window <- Windows, Text <- Texts

FirstUrl == CHOOSE u \in Url : TRUE
Busy == CHOOSE s \in Session : s \notin Quiet     \* the session that writes

Init ==
    /\ part \in {"send", "text", "queue"}
    /\ S!Init /\ T!Init /\ Q!Init
    /\ at[FirstUrl] = Up              \* the addresses are alike
    /\ part # "send" => preset        \* the only other choice of an initial state

Next ==
    /\ UNCHANGED part
    /\ \/ part = "send" /\ S!Next /\ rids' + gen' + rev' + world' <= MaxSteps
          /\ UNCHANGED <<textVars, queueVars>>
       \/ part = "text" /\ T!Next /\ Len(log[Busy])' + selects' + losses' <= MaxMoves
          /\ UNCHANGED <<sendVars, queueVars>>
       \/ part = "queue" /\ Q!Next /\ UNCHANGED <<sendVars, textVars>>

Spec == Init /\ [][Next]_<<part, sendVars, textVars, queueVars>>

\* The processes that answer for the sessions: the first knows one of them.
MCKnows == [p \in Proc |-> IF p = Up THEN {"a"} ELSE Session]

\* ViewerSend: an admission is reserved exactly while its request is under way.
ReservationIsExact == part = "send" => S!ReservationIsExact
\* ViewerText: with no event lost, the screen ends with what the session wrote.
Converges == part = "text" => T!Converges
\* MessageQueue: what an edit or a drop answered is what the session runs.
AnswerHolds == part = "queue" => Q!AnswerHolds
=============================================================================
