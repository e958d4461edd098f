------------------------------- MODULE MCHelper -------------------------------
(***************************************************************************)
(* An instance for TLC of the elevated helper and of what leads to it: its *)
(* installation (HelperInstall), its one pipe (HelperChannel), the         *)
(* acceptance of an installation (Acceptance) and the page of the window   *)
(* that offers the next step (SetupGuide).  They share no state, so one    *)
(* run takes their disjoint union: the initial state picks the part that   *)
(* moves, and the others rest in their own initial states.                 *)
(***************************************************************************)
EXTENDS HelperInstall, FiniteSets

CONSTANTS
    Shared, Own, Broker, Nobody, MaxOps, MaxBreaks,              \* HelperChannel
    Run, Profile, MaxEdits, MaxBegun, MaxFailures,               \* Acceptance
    FirstSetups, Tolerance, MaxTime, MaxLaunches, MaxClicks, MaxQueue, MaxInbox  \* SetupGuide

\* The back ends are finitely many.
ASSUME FewBackends == IsFiniteSet(Shared \cup Own)

\* What the setup may be when the first window is started.
Setups == [lua : {"off", "on"}, helper : {"none", "bad", "good"},
           record : {"none", "silent", "ready"}, fits : BOOLEAN, app : BOOLEAN,
           enrolled : BOOLEAN, migrated : BOOLEAN, copy : BOOLEAN]
ASSUME SetupsOK == FirstSetups \subseteq Setups

VARIABLES
    part,
    helper, chan, back, volume, ran, ops, mode, breaks,
    facts, drill, tmp, record, edits, begun, failures, proven, verdict,
    setup, marker, clock, win, queue, inbox, testing, launches, clicks, failed, owed, unseen

installVars == vars
channelVars == <<helper, chan, back, volume, ran, ops, mode, breaks>>
acceptVars == <<facts, drill, tmp, record, edits, begun, failures, proven, verdict>>
guideVars == <<setup, marker, clock, win, queue, inbox, testing, launches, clicks, failed, owed,
               unseen>>

C == INSTANCE HelperChannel WITH None <- Nobody, faults <- breaks, MaxFaults <- MaxBreaks
A == INSTANCE Acceptance
G == INSTANCE SetupGuide

AllInit ==
    /\ part \in {"install", "channel", "accept", "guide"}
    /\ Init /\ C!Init /\ A!Init /\ G!Init
    /\ part # "guide" =>
        /\ setup = CHOOSE s \in FirstSetups : TRUE
        /\ marker = G!NoMarker

AllNext ==
    /\ UNCHANGED part
    /\ \/ part = "install" /\ Next /\ UNCHANGED <<channelVars, acceptVars, guideVars>>
       \/ part = "channel" /\ C!Next /\ UNCHANGED <<installVars, acceptVars, guideVars>>
       \/ part = "accept" /\ A!Next /\ UNCHANGED <<installVars, channelVars, guideVars>>
       \/ part = "guide" /\ G!Next /\ UNCHANGED <<installVars, channelVars, acceptVars>>

AllSpec == AllInit /\ [][AllNext]_<<part, installVars, channelVars, acceptVars, guideVars>>

\* The computers the page is opened on: nothing is set up, the helper is, or its
\* acceptance too.
Bare == [lua |-> "off", helper |-> "none", record |-> "none", fits |-> FALSE, app |-> FALSE,
         enrolled |-> FALSE, migrated |-> FALSE, copy |-> FALSE]
Hosted == [Bare EXCEPT !.lua = "on", !.helper = "good", !.record = "silent"]
Vouched == [Hosted EXCEPT !.record = "ready", !.fits = TRUE, !.app = TRUE]
MCSetups == {Bare, Hosted, Vouched}

\* HelperChannel: the helper's count of leases is that of the backends that hold one.
LeasesAreCounted == part = "channel" => C!LeasesAreCounted
\* Acceptance: a record that says ready was written by a run that proved what it names.
ReadyMeansProven == part = "accept" => A!ReadyMeansProven
\* SetupGuide: what the page offers follows from what it was told last.
ActionIsFresh == part = "guide" => G!ActionIsFresh
\* SetupGuide: the action offered and the list of the steps speak of the same step.
GuideAgrees == part = "guide" => G!GuideAgrees
=============================================================================
