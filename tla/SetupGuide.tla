------------------------------ MODULE SetupGuide ------------------------------
(***************************************************************************)
(* The setup page of the Secure Apps window: which one step it offers next *)
(* (secure_apps/sa_setup.py) and how the window keeps that answer true     *)
(* (secure_apps_gui.py).                                                   *)
(*                                                                         *)
(* The window's thread measures nothing heavy.  It posts requests to the   *)
(* broker's worker thread, which serves them in order and posts back       *)
(* messages; the disposable acceptance runs in a thread of its own.  The   *)
(* window caches what it was told, computes the next action from that and  *)
(* from what is on the disk, and computes it again only when a handler has *)
(* marked its snapshot dirty.  A handler that shows a message box does so  *)
(* from inside its own call: other messages are handled while the box is   *)
(* open, and the handler's last lines run when it is closed.               *)
(*                                                                         *)
(* Abstractions: one profile.  A durable fact is a member of a small set:  *)
(* how a step of the setup comes to its result is in the modules of the    *)
(* steps.  Enrolling, with its recovery dialog, is one request.  The clock *)
(* moves between two windows, and is never stepped; a marker of an older   *)
(* version has no boot.                                                    *)
(***************************************************************************)
EXTENDS Naturals, Sequences, SequencesExt

CONSTANTS
    FirstSetups,   \* what may have been done before the first window is started
    Tolerance,     \* REBOOT_IDENTITY_TOLERANCE_SECONDS
    MaxTime,       \* bound: the clock
    MaxLaunches,   \* bound: windows started one after another
    MaxClicks,     \* bound: steps asked for, and pages checked again
    MaxQueue,      \* bound: requests waiting
    MaxInbox,      \* bound: messages waiting
    MaxFailures    \* bound: measurements, registry reads and marker writes that fail,
                   \* and changes nobody tells the window of

VARIABLES
    setup,         \* what is durable: [lua, helper, record, fits, app, enrolled, migrated, copy]
    marker,        \* reboot-pending.json
    clock,         \* [now, booted]: the time, and when Windows was started
    win,           \* the window, or Closed
    queue,         \* requests the worker has not begun
    inbox,         \* messages the window has not handled
    testing,       \* acceptance runs under way
    launches, clicks, failed,
    owed,          \* ghost: when Windows had been started as the marker was last written
    unseen         \* ghost: what changed behind the back of the page

vars == <<setup, marker, clock, win, queue, inbox, testing, launches, clicks, failed, owed, unseen>>

None == "none"
NoReport == [lua |-> "unknown", elevated |-> FALSE, helper |-> "none"]
Unknown == [NoReport EXCEPT !.helper = "unknown"]
NoMarker == [there |-> FALSE]
Legacy == [there |-> TRUE, legacy |-> TRUE]
Closed == [on |-> FALSE]

\* SETUP_BUTTON_ACTIONS whose handler asks before it posts the request, and those that post at once.
Asking == {"prepare-uac", "install", "acceptance", "import", "enroll", "migrate"}
Direct == {"check", "caps"}

Init ==
    /\ setup \in FirstSetups
    /\ marker \in {NoMarker, Legacy}
    /\ clock = [now |-> 0, booted |-> 0]
    /\ win = Closed /\ queue = <<>> /\ inbox = <<>> /\ testing = 0
    /\ launches = 0 /\ clicks = 0 /\ failed = 0
    /\ owed = {} /\ unseen = {}

Fails == failed < MaxFailures /\ failed' = failed + 1
Works == UNCHANGED failed

-----------------------------------------------------------------------------
(* What the page offers. *)

Up == clock.now - clock.booted

\* mark_reboot_pending: the uptime and the boot it was written in.
Mark ==
    \/ /\ marker' = [there |-> TRUE, legacy |-> FALSE, up |-> Up, boot |-> clock.booted]
       /\ owed' = {clock.booted} /\ Works
    \/ Fails /\ UNCHANGED <<marker, owed>>

\* The measured pair that retires a marker of an older version.
Separated(report) == report.lua = "on" /\ ~report.elevated

\* Mutant: the measurement is believed before the boot is asked.
SatisfiedByMeasure(report) ==
    \/ Separated(report)
    \/ ~marker.legacy /\ (Up < marker.up \/ clock.booted - marker.boot > Tolerance)
\* What retires a marker: a shorter uptime, another boot, or, when no boot is known, the
\* measurement.
Satisfied(report) ==
    IF marker.legacy
    THEN Separated(report)
    ELSE Up < marker.up \/ clock.booted - marker.boot > Tolerance

\* is_reboot_pending, and the marker it leaves.
Pending(report) == marker.there /\ ~Satisfied(report)
MarkerLeft(report) == IF Pending(report) THEN marker ELSE NoMarker

\* evaluate: the record fits what is installed now.
Accepted == setup.record = "ready" /\ setup.fits

\* get_next_setup_action: the first step that is not done.
NextAction(report, pending, commissioned, probed) ==
    IF report.lua = "off" /\ ~pending THEN "prepare-uac"
    ELSE IF pending THEN "restart"
    ELSE IF report.elevated THEN "relaunch"
    ELSE IF report.helper \in {"none", "unknown"} THEN "install"
    ELSE IF report.helper # "good" THEN "check"
    ELSE IF ~commissioned /\ setup.record = None THEN "check"
    ELSE IF ~Accepted /\ ~probed THEN "caps"
    ELSE IF ~Accepted THEN "acceptance"
    ELSE IF ~setup.app THEN "import"
    ELSE IF ~setup.enrolled THEN "enroll"
    ELSE IF ~setup.migrated THEN "migrate"
    ELSE IF setup.copy THEN "secure"
    ELSE "ready"

\* Mutant: the key has to be probed in this window, accepted or not.
HostLinesProbed(report, commissioned, probed) ==
    <<Separated(report), report.helper \notin {"none", "unknown"},
      commissioned \/ setup.record # None, probed, Accepted>>
\* get_setup_checklist: what makes each line of the list complete.  Every line after the
\* first that is not complete waits for that one.
HostLines(report, commissioned, probed) ==
    <<Separated(report), report.helper \notin {"none", "unknown"},
      commissioned \/ setup.record # None, probed \/ Accepted, Accepted>>
VaultLines == <<setup.app, setup.enrolled, setup.migrated, ~setup.copy>>

\* The step the page says it is at, the first line that is not complete or 0, and what
\* that line says.
Step(report, pending, commissioned, probed) ==
    LET at == SelectInSeq(HostLines(report, commissioned, probed) \o VaultLines,
                          LAMBDA done : ~done)
    IN [at |-> at,
        says |-> CASE at = 0 -> "complete"
                   [] at = 1 -> IF pending THEN "reboot required" ELSE "action required"
                   [] at = 3 /\ report.helper # "good" -> "failed"
                   [] at \in {2, 9} -> "action required"
                   [] OTHER -> "ready"]

\* _show_evaluating
Evaluating(w) == [w EXCEPT !.pending = FALSE, !.next = "evaluating", !.dirty = FALSE]

\* _recompute_setup_state, when the registry can be read.
Recomputed(w) ==
    LET pending == Pending(w.report)
    IN IF w.report = NoReport /\ ~pending
       THEN Evaluating(w)
       ELSE [w EXCEPT !.pending = pending, !.dirty = FALSE,
                      !.next = NextAction(w.report, pending, w.commissioned, w.probed),
                      !.step = Step(w.report, pending, w.commissioned, w.probed)]

\* _invalidate_setup, for a window that has become w.  A registry that cannot be read
\* leaves the page as it is, and dirty.
Refresh(w) ==
    \/ /\ win' = Recomputed(w) /\ marker' = MarkerLeft(w.report)
       /\ unseen' = unseen \ {"disk"} /\ Works
    \/ Fails /\ win' = [w EXCEPT !.dirty = TRUE] /\ UNCHANGED <<marker, unseen>>

-----------------------------------------------------------------------------
(* The window. *)

\* The window starts, elevated or not, and asks for a measurement.
Launch ==
    /\ ~win.on /\ launches < MaxLaunches /\ launches' = launches + 1
    /\ \E elevated \in BOOLEAN :
         win' = [on |-> TRUE, elevated |-> elevated, report |-> NoReport, commissioned |-> FALSE,
                 probed |-> FALSE, pending |-> FALSE, next |-> "evaluating", dirty |-> TRUE,
                 step |-> [at |-> 0, says |-> "complete"], asked |-> None, boxes |-> <<>>]
    /\ queue' = <<"measure">>
    /\ UNCHANGED <<setup, marker, clock, inbox, testing, clicks, failed, owed, unseen>>

Ended == win' = Closed /\ queue' = <<>> /\ inbox' = <<>> /\ testing' = 0

Close ==
    /\ win.on /\ Ended
    /\ UNCHANGED <<setup, marker, clock, launches, clicks, failed, owed, unseen>>

\* Windows is restarted, by the page or by its user.
Restart ==
    /\ clock.now < MaxTime
    /\ clock' = [now |-> clock.now + 1, booted |-> clock.now + 1]
    /\ Ended
    /\ UNCHANGED <<setup, marker, launches, clicks, failed, owed, unseen>>

Wait ==
    /\ ~win.on /\ clock.now < MaxTime /\ clock' = [clock EXCEPT !.now = @ + 1]
    /\ UNCHANGED <<setup, marker, win, queue, inbox, testing, launches, clicks, failed, owed, unseen>>

Free == win.on /\ win.asked = None /\ win.boxes = <<>>
Post(requests) == Len(queue) + Len(requests) <= MaxQueue /\ queue' = queue \o requests

\* A button of the page.  _require_setup_action lets only the step through that the
\* page offers; repair and remove are offered in a dialog of their own.
Click(step) ==
    /\ Free /\ clicks < MaxClicks /\ clicks' = clicks + 1
    /\ step \in {"repair", "remove"} \/ win.next = step
    /\ IF step \in Direct
       THEN Post(<<step>>) /\ UNCHANGED win
       ELSE win' = [win EXCEPT !.asked = step] /\ UNCHANGED queue
    /\ UNCHANGED <<setup, marker, clock, inbox, testing, launches, failed, owed, unseen>>

\* The question of the step is answered, whatever the page has come to offer meanwhile.
Answer(yes) ==
    /\ win.on /\ win.asked # None /\ win.boxes = <<>>
    /\ win' = [win EXCEPT !.asked = None]
    /\ CASE ~yes -> UNCHANGED <<queue, testing>>
         [] yes /\ win.asked = "acceptance" -> testing < 2 /\ testing' = testing + 1 /\ UNCHANGED queue
         [] OTHER -> Post(<<win.asked>>) /\ UNCHANGED testing
    /\ UNCHANGED <<setup, marker, clock, inbox, launches, clicks, failed, owed, unseen>>

\* _refresh_all
Recheck ==
    /\ Free /\ clicks < MaxClicks /\ clicks' = clicks + 1
    /\ Refresh(win) /\ Post(<<"measure", "caps">>)
    /\ UNCHANGED <<setup, clock, inbox, testing, launches, owed>>

\* _on_secure_plaintext_backup: a copy that is gone is the only thing it acts upon.
SecureCopy ==
    /\ Free /\ win.next = "secure" /\ ~setup.copy /\ Refresh(win)
    /\ UNCHANGED <<setup, clock, queue, inbox, testing, launches, clicks, owed>>

\* _restart_later
RestartLater ==
    /\ Free /\ win.pending
    /\ Mark /\ win' = [win EXCEPT !.boxes = <<"refresh">>]
    /\ UNCHANGED <<setup, clock, queue, inbox, testing, launches, clicks, unseen>>

\* A periodic status arrives: it recomputes only a page that is dirty.
Status ==
    /\ win.on /\ win.dirty /\ Refresh(win)
    /\ UNCHANGED <<setup, clock, queue, inbox, testing, launches, clicks, owed>>

Box(w, after) == win' = [w EXCEPT !.boxes = Append(@, after)]

\* _privileged_status_ready: the only handler that fills the cached measurement.
ReportReady(m) == Refresh([win EXCEPT !.report = m.report]) /\ UNCHANGED owed

\* _privileged_action_result
ActionResult(m) ==
    \/ /\ m.of = "prepare-uac" /\ m.ok
       /\ Mark /\ Box(win, "refresh") /\ UNCHANGED unseen
    \/ /\ m.of = "check" /\ m.ok
       /\ Box([win EXCEPT !.commissioned = TRUE], "refresh")
       /\ Works /\ UNCHANGED <<marker, owed, unseen>>
    \/ /\ m.of = "install" \/ (m.of \in {"repair", "remove"} /\ ~m.ok)
       /\ Box(win, "refresh")
       /\ Works /\ UNCHANGED <<marker, owed, unseen>>
    \/ /\ m.ok = (m.of \in {"repair", "remove"}) /\ m.of # "install"
       /\ Refresh(win) /\ UNCHANGED owed

\* _caps_ready
CapsReady(m) == Refresh([win EXCEPT !.probed = m.ok]) /\ UNCHANGED owed

\* Mutant: the end of an operation is shown and the page is left as it was.
OperationShown(m) ==
    /\ Box(win, "nothing") /\ Works
    /\ UNCHANGED <<marker, owed, unseen>>
\* _apply_operation and _enroll_done.  A refusal that may be about the helper asks for a
\* new measurement.
OperationDone(m) ==
    IF m.of = "import" /\ m.ok
    THEN Refresh(win) /\ UNCHANGED owed
    ELSE /\ \E after \in IF m.ok THEN {"refresh"} ELSE {"refresh", "measure"} : Box(win, after)
         /\ Works /\ UNCHANGED <<marker, owed, unseen>>

\* The first message is handled, even while a question or a box is open.
Handle ==
    /\ inbox # <<>> /\ inbox' = Tail(inbox)
    /\ LET m == Head(inbox)
       IN CASE m.kind = "report" -> ReportReady(m)
            [] m.kind = "result" -> ActionResult(m)
            [] m.kind = "caps" -> CapsReady(m)
            [] m.kind = "done" -> OperationDone(m)
            [] m.kind = "tested" -> Refresh(win) /\ UNCHANGED owed
    /\ UNCHANGED <<setup, clock, queue, testing, launches, clicks>>

\* The innermost box is closed, and its handler goes on.
Dismiss ==
    /\ win.on /\ win.boxes # <<>>
    /\ LET w == [win EXCEPT !.boxes = Front(@)]
           after == Last(win.boxes)
       IN IF after = "nothing"
          THEN win' = w /\ Works /\ UNCHANGED <<queue, marker, unseen>>
          ELSE /\ Refresh(w)
               /\ IF after = "measure" THEN Post(<<"measure">>) ELSE UNCHANGED queue
    /\ UNCHANGED <<setup, clock, inbox, testing, launches, clicks, owed>>

-----------------------------------------------------------------------------
(* The worker, one request after another. *)

Tell(m) == Len(inbox) < MaxInbox /\ inbox' = Append(inbox, m)

\* privilegedStatus
Measure ==
    \/ /\ Tell([kind |-> "report", report |-> [lua |-> setup.lua, elevated |-> win.elevated,
                                               helper |-> setup.helper]])
       /\ unseen' = unseen \ {"host"} /\ Works
    \/ Fails /\ Tell([kind |-> "report", report |-> Unknown]) /\ UNCHANGED unseen

\* What a privileged action leaves: a failed one may have done anything to the helper.
Done(step, ok) ==
    CASE step = "prepare-uac" -> {[setup EXCEPT !.lua = IF ok THEN "on" ELSE @]}
      [] step = "check" -> {setup}
      [] step = "remove" /\ ok -> {[setup EXCEPT !.helper = "none", !.fits = FALSE]}
      [] step \in {"install", "repair"} /\ ok -> {[setup EXCEPT !.helper = "good", !.fits = FALSE]}
      [] OTHER -> {[setup EXCEPT !.helper = h, !.fits = FALSE] : h \in {"none", "bad", "good"}}

\* Mutant: what the action answered has to do for a measurement.
PrivilegedUnmeasured(step) ==
    /\ \E ok \in BOOLEAN :
        /\ (step = "check" /\ ok) => setup.helper = "good"
        /\ setup' \in Done(step, ok)
        /\ Tell([kind |-> "result", of |-> step, ok |-> ok])
    /\ queue' = Tail(queue)
\* privilegedAction: the result is told, and the change is measured before the next request.
Privileged(step) ==
    /\ \E ok \in BOOLEAN :
        /\ (step = "check" /\ ok) => setup.helper = "good"
        /\ setup' \in Done(step, ok)
        /\ Tell([kind |-> "result", of |-> step, ok |-> ok])
    /\ queue' = <<"measure">> \o Tail(queue)

\* importApp, enroll and migrateVault, which is refused without an acceptance that fits.
Operation(step) ==
    \E ok \in BOOLEAN :
        /\ (step = "migrate" /\ ok) => Accepted
        /\ setup' = IF ~ok THEN setup
                    ELSE CASE step = "import" -> [setup EXCEPT !.app = TRUE]
                           [] step = "enroll" -> [setup EXCEPT !.enrolled = TRUE]
                           [] step = "migrate" -> [setup EXCEPT !.migrated = TRUE, !.copy = TRUE]
        /\ Tell([kind |-> "done", of |-> step, ok |-> ok])
        /\ queue' = Tail(queue)

Work ==
    /\ queue # <<>>
    /\ LET step == Head(queue)
       IN CASE step = "measure" -> Measure /\ queue' = Tail(queue) /\ UNCHANGED setup
            [] step = "caps" -> /\ \E ok \in BOOLEAN : Tell([kind |-> "caps", ok |-> ok])
                                /\ queue' = Tail(queue) /\ Works /\ UNCHANGED <<setup, unseen>>
            [] step \in {"prepare-uac", "install", "repair", "remove", "check"} ->
                   Privileged(step) /\ Works /\ UNCHANGED unseen
            [] step \in {"import", "enroll", "migrate"} ->
                   Operation(step) /\ Works /\ UNCHANGED unseen
    /\ UNCHANGED <<marker, clock, win, testing, launches, clicks, owed>>

\* An acceptance run ends: it passes, it leaves a record that does not grant readiness,
\* or it leaves none.
Tested ==
    /\ testing > 0 /\ testing' = testing - 1
    /\ \E record \in {None, "silent", "ready"} :
         setup' = [setup EXCEPT !.record = record, !.fits = (record = "ready")]
    /\ Tell([kind |-> "tested"])
    /\ UNCHANGED <<marker, clock, win, queue, launches, clicks, failed, owed, unseen>>

\* Somebody deletes or restores the readable copy or the application, or touches the helper.
Meddle ==
    /\ Fails
    /\ \/ /\ setup.migrated /\ setup' = [setup EXCEPT !.copy = ~@]
          /\ unseen' = unseen \cup {"disk"}
       \/ /\ setup.app /\ setup' = [setup EXCEPT !.app = FALSE]
          /\ unseen' = unseen \cup {"disk"}
       \/ /\ setup.helper = "good" /\ setup' = [setup EXCEPT !.helper = "bad", !.fits = FALSE]
          /\ unseen' = unseen \cup {"host", "disk"}
    /\ UNCHANGED <<marker, clock, win, queue, inbox, testing, launches, clicks, owed>>

Next ==
    \/ Launch \/ Close \/ Restart \/ Wait
    \/ \E step \in Asking \cup Direct \cup {"repair", "remove"} : Click(step)
    \/ \E yes \in BOOLEAN : Answer(yes)
    \/ Recheck \/ SecureCopy \/ RestartLater \/ Status \/ Handle \/ Dismiss
    \/ Work \/ Tested \/ Meddle

Spec == Init /\ [][Next]_vars

-----------------------------------------------------------------------------
TypeOK ==
    /\ setup \in [lua : {"off", "on"}, helper : {"none", "bad", "good"},
                  record : {None, "silent", "ready"}, fits : BOOLEAN, app : BOOLEAN,
                  enrolled : BOOLEAN, migrated : BOOLEAN, copy : BOOLEAN]
    /\ clock.booted <= clock.now /\ clock.now <= MaxTime
    /\ win.on => /\ {win.dirty, win.pending, win.commissioned, win.probed} \subseteq BOOLEAN
                 /\ win.asked \in Asking \cup {None, "repair", "remove"}
    /\ testing \in 0..2
    /\ unseen \subseteq {"disk", "host"}

\* The page has caught up: nothing is asked, shown, queued, posted or running, and the last
\* measurement and the last look at the registry worked.
Quiet ==
    /\ Free /\ queue = <<>> /\ inbox = <<>> /\ testing = 0
    /\ ~win.dirty /\ win.report # Unknown

\* Whatever came of the steps, failed ones and two acceptance runs side by side included,
\* and in whatever order their messages and boxes were handled: once the page has caught
\* up, the one step it offers is the one the facts call for - a page left at an older
\* answer would lead through a step that is not due, or away from one that is.
ActionIsFresh ==
    Quiet /\ unseen = {} =>
        win.next = NextAction([lua |-> setup.lua, elevated |-> win.elevated, helper |-> setup.helper],
                              Pending(win.report), win.commissioned, win.probed)

\* The line of the list that each action is about.
LineOf(action) ==
    CASE action \in {"prepare-uac", "restart", "relaunch"} -> 1
      [] action = "install" -> 2
      [] action = "check" -> 3
      [] action = "caps" -> 4
      [] action = "acceptance" -> 5
      [] action = "import" -> 6
      [] action = "enroll" -> 7
      [] action = "migrate" -> 8
      [] action = "secure" -> 9
      [] action = "ready" -> 0

\* The one action the page offers and the first line of its list that is not complete,
\* which the code works out apart from each other, are about the same step, through new
\* measurements, lost facts and windows opened again: a person told to do one step and
\* shown another as missing cannot finish.  Not so in three cases the code is at odds with
\* itself: a restart that is owed although privileges are separated already, a helper whose
\* definition went bad after it had been tried, and a measurement that failed.
GuideAgrees ==
    LET odd == \/ win.next = "restart" /\ Separated(win.report)
               \/ win.next = "check" /\ win.report.helper = "bad"
               \/ win.report = Unknown
    IN win.on /\ ~win.dirty /\ win.next # "evaluating" /\ ~odd =>
         /\ win.step.at = LineOf(win.next)
         /\ (win.next = "restart" <=> win.step.says = "reboot required")

\* The marker of an owed restart is gone only when Windows has been started again since
\* it was written, however often the page measured a host that looks as if it had.
RestartNotForgotten ==
    ~marker.there => \A boot \in owed : clock.booted > boot
=============================================================================
