----------------------------- MODULE ViewerSend -----------------------------
(***************************************************************************)
(* How the queue viewer sends a prompt (saipatch/queue_viewer.pyw,         *)
(* viewer_sender.py, viewer_endpoint.py).                                  *)
(*                                                                         *)
(* Four threads work together.  The window owns the selection, the         *)
(* generation number of that selection, the last accepted verdict of the   *)
(* resolver and the one reservation of the admission path.  The resolver   *)
(* probes every loopback server for the session it was last told of.  The  *)
(* preset worker reads a file for an immutable request envelope.  The      *)
(* sender posts.  Commands to a worker and results to the window are       *)
(* queued signals: the window takes them in the order they were posted.    *)
(*                                                                         *)
(* Abstractions: a server process sits at an address and knows sessions;   *)
(* processes end and others take the address.  A prompt is the revision of *)
(* the composer it was typed at.  The three presets and the free file are  *)
(* one preset and one file; CORE, W2 and PERF of a batch are 1, 2 and 3.   *)
(***************************************************************************)
EXTENDS Naturals, Sequences, FiniteSets, SequencesExt

CONSTANTS
    Session,    \* the sessions of the OpenCode database
    Url,        \* the loopback addresses a server may listen at
    Proc,       \* the server processes, by their pid and start time
    Knows,      \* [Proc -> SUBSET Session]: the sessions a process answers for
    Up,         \* the process that runs when the viewer is opened
    MaxGen,     \* bound: how often the user selects a session
    MaxReq,     \* bound: request ids minted
    MaxRev,     \* bound: edits of the composer
    MaxWorld,   \* bound: servers that end or appear
    MaxPosted   \* bound: verdicts and lists waiting in the window's queue

VARIABLES
    at,         \* the process at each address, NoProc when nobody listens
    world,      \* servers that ended or appeared so far
    cur,        \* current_session_id
    gen,        \* _resolution_generation
    status,     \* _endpoint_status: the verdict last accepted
    listed,     \* the sessions of the last summaries
    gone,       \* _session_unavailable
    enabled,    \* the send controls and the composer take input
    owner,      \* _admission_owner: [rid, session], or NoOwner
    rids,       \* request ids minted so far
    rev,        \* _composer_rev
    blank,      \* the composer holds no text
    submit,     \* _composer_submit: the revision that was sent, or NoRev
    inflight,   \* _inflight_sends: the revision kept for each request
    preset,     \* the preset has a file (_preset_paths)
    pending,    \* _pending_audit_slot
    dialog,     \* the modal file dialog that is open
    posted,     \* the window's queue: the signals of the workers
    told,       \* commands for the resolver that it has not taken yet
    target,     \* the resolver's _target_session_id
    files,      \* commands for the preset worker
    jobs,       \* commands for the sender
    sender,     \* the job the sender is in
    aim,        \* ghost: what was selected and resolved when the request was reserved
    submitted   \* ghost: the revision of the last submission

guiVars == <<cur, gen, status, listed, gone, enabled>>
formVars == <<rev, blank, submit, submitted, inflight>>
auditVars == <<preset, pending, dialog>>
vars == <<at, world, guiVars, owner, rids, formVars, auditVars, posted, told,
          target, files, jobs, sender, aim>>

NoProc == "no process"
NoSession == "no session"
NoUrl == "no address"
NoOwner == [rid |-> 0, session |-> NoSession]
NoRev == 0
Rid == 1..MaxReq
Rev == 1..MaxRev
NoAim == [session |-> NoSession, url |-> NoUrl, proc |-> NoProc]

\* A verdict of the resolver: EndpointStatus.
Verdict == [state : {"RESOLVED", "AMBIGUOUS", "UNAVAILABLE"}, url : Url \union {NoUrl},
            proc : Proc \union {NoProc}, gen : 0..MaxGen, session : Session \union {NoSession}]
Unresolved == [state |-> "UNAVAILABLE", url |-> NoUrl, proc |-> NoProc, gen |-> 0,
               session |-> NoSession]

\* A request envelope: what the window hands to a worker and gets back.
Job == [kind : {"prompt", "cc", "batch", "audit", "file"}, rid : Rid,
        session : Session, url : Url \union {NoUrl}, proc : Proc \union {NoProc}]
Idle == [busy |-> FALSE]

TypeOK ==
    /\ at \in [Url -> Proc \union {NoProc}] /\ world \in 0..MaxWorld
    /\ cur \in Session \union {NoSession} /\ gen \in 0..MaxGen /\ status \in Verdict
    /\ listed \subseteq Session /\ gone \in BOOLEAN /\ enabled \in BOOLEAN
    /\ owner \in [rid : {0} \union Rid, session : Session \union {NoSession}]
    /\ rids \in 0..MaxReq /\ rev \in Rev /\ blank \in BOOLEAN
    /\ submit \in {NoRev} \union Rev /\ submitted \in {NoRev} \union Rev
    /\ inflight \in [Rid -> {NoRev} \union Rev]
    /\ preset \in BOOLEAN /\ pending \in BOOLEAN /\ dialog \in {"none", "file", "preset"}
    /\ told \in Seq(Session) /\ jobs \in Seq(Job)
    /\ aim \in [session : Session \union {NoSession}, url : Url \union {NoUrl},
               proc : Proc \union {NoProc}]

-----------------------------------------------------------------------------
(* The world: servers end, and the same or another address is taken over.  *)

Ends(u) ==
    /\ at[u] # NoProc /\ world < MaxWorld
    /\ at' = [at EXCEPT ![u] = NoProc] /\ world' = world + 1
    /\ UNCHANGED <<guiVars, owner, rids, formVars, auditVars, posted, told, target,
                   files, jobs, sender, aim>>

Listens(u, p) ==
    /\ at[u] = NoProc /\ \A v \in Url : at[v] # p /\ world < MaxWorld
    /\ at' = [at EXCEPT ![u] = p] /\ world' = world + 1
    /\ UNCHANGED <<guiVars, owner, rids, formVars, auditVars, posted, told, target,
                   files, jobs, sender, aim>>

-----------------------------------------------------------------------------
(* The resolver thread.                                                    *)

\* It takes a selection command.
Retarget ==
    /\ told # <<>> /\ target' = Head(told) /\ told' = Tail(told)
    /\ UNCHANGED <<at, world, guiVars, owner, rids, formVars, auditVars, posted, files,
                   jobs, sender, aim>>

\* An address answers for the target when the process there knows the session;
\* without a target any server that answers is a candidate.
Found(s) == {[url |-> u, proc |-> at[u]] :
                u \in {v \in Url : at[v] # NoProc /\ (s = NoSession \/ s \in Knows[at[v]])}}

\* A tick of its timer.  The generation is the window's at the time of the scan
\* while the target is the one the resolver was last told of, so a verdict may
\* carry a newer generation than its session.  Exactly one candidate resolves.
VerdictOf(s) ==
    LET f == Found(s)
        n == Cardinality(f)
        c == IF n = 1 THEN CHOOSE x \in f : TRUE ELSE [url |-> NoUrl, proc |-> NoProc]
    IN [state |-> CASE n = 0 -> "UNAVAILABLE" [] n = 1 -> "RESOLVED" [] OTHER -> "AMBIGUOUS",
        url |-> c.url, proc |-> c.proc, gen |-> gen, session |-> s]

Resolve ==
    /\ Cardinality({i \in DOMAIN posted : posted[i].sig \in {"resolved", "sidebar"}}) < MaxPosted
    /\ posted' = Append(posted, [sig |-> "resolved", verdict |-> VerdictOf(target)])
    /\ UNCHANGED <<at, world, guiVars, owner, rids, formVars, auditVars, told, target, files,
                   jobs, sender, aim>>

\* The observer lists the sessions it read.
Observe(ss) ==
    /\ Cardinality({i \in DOMAIN posted : posted[i].sig \in {"resolved", "sidebar"}}) < MaxPosted
    /\ ss # listed /\ ss # {}
    /\ posted' = Append(posted, [sig |-> "sidebar", sessions |-> ss])
    /\ UNCHANGED <<at, world, guiVars, owner, rids, formVars, auditVars, told, target,
                   files, jobs, sender, aim>>

-----------------------------------------------------------------------------
(* The window: selection, edits and clicks.                                *)

\* The redundant check before every send: a verdict that is resolved, for this
\* selection and this session, and a session that is still listed.
CanSend ==
    /\ cur # NoSession /\ ~gone
    /\ status.state = "RESOLVED" /\ status.gen = gen /\ status.session = cur
    /\ cur \in listed

\* The controls follow the same check, and are busy while a reservation stands.
UpdateControls == enabled' = (CanSend /\ owner = NoOwner)'

Free == dialog = "none"

Select(s) ==
    /\ Free /\ s \in listed /\ gen < MaxGen /\ s # cur
    /\ cur' = s /\ gone' = FALSE /\ gen' = gen + 1 /\ status' = Unresolved
    /\ told' = Append(told, s)
    /\ UNCHANGED <<at, world, listed, owner, rids, formVars, auditVars, posted, target,
                   files, jobs, sender, aim>>
    /\ UpdateControls

Edit ==
    /\ Free /\ enabled /\ rev < MaxRev
    /\ rev' = rev + 1 /\ blank' \in BOOLEAN
    /\ UNCHANGED <<at, world, guiVars, owner, rids, submit, submitted, inflight, auditVars,
                   posted, told, target, files, jobs, sender, aim>>

\* _acquire_admission followed by the check of _can_send: a reservation that
\* may not send is given back in the same turn, so nothing changes.
MayAcquire == owner = NoOwner /\ CanSend /\ rids < MaxReq

Aimed == [session |-> cur, url |-> status.url, proc |-> status.proc]

Acquire ==
    /\ rids' = rids + 1
    /\ owner' = [rid |-> rids + 1, session |-> cur]
    /\ aim' = Aimed

\* Only the owner of the request gives the reservation back.
Release(rid) == /\ owner' = IF owner.rid = rid THEN NoOwner ELSE owner
                /\ aim' = IF owner.rid = rid THEN NoAim ELSE aim

Envelope(kind, rid) == [kind |-> kind, rid |-> rid, session |-> cur,
                        url |-> status.url, proc |-> status.proc]

Send ==
    /\ Free /\ enabled /\ MayAcquire /\ ~blank
    /\ Acquire
    /\ submit' = rev /\ submitted' = rev
    /\ jobs' = Append(jobs, Envelope("prompt", rids + 1))
    /\ UNCHANGED <<at, world, guiVars, rev, blank, inflight, auditVars, posted, told,
                   target, files, sender>>

ContinueSession ==
    /\ Free /\ enabled /\ MayAcquire
    /\ Acquire
    /\ jobs' = Append(jobs, Envelope("cc", rids + 1))
    /\ UNCHANGED <<at, world, guiVars, formVars, auditVars, posted, told, target, files, sender>>

ThreeWaves ==
    /\ Free /\ enabled /\ MayAcquire /\ preset
    /\ Acquire
    /\ jobs' = Append(jobs, Envelope("batch", rids + 1))
    /\ UNCHANGED <<at, world, guiVars, formVars, auditVars, posted, told, target, files, sender>>

\* Bound: one saved preset under way at a time.
SavesWaiting == Cardinality({i \in DOMAIN files : files[i].do = "save"})
                + Cardinality({i \in DOMAIN posted : posted[i].sig = "saved"})

\* A preset button: without a file the reservation is given back and the user
\* is asked for one; the slot stays pending.
Audit ==
    /\ Free /\ enabled /\ MayAcquire
    /\ \/ /\ preset
          /\ Acquire
          /\ files' = Append(files, [do |-> "read", job |-> Envelope("audit", rids + 1)])
          /\ UNCHANGED <<pending, dialog>>
       \/ /\ ~preset /\ SavesWaiting = 0
          /\ pending' = TRUE /\ dialog' = "preset"
          /\ UNCHANGED <<owner, rids, aim, files>>
    /\ UNCHANGED <<at, world, guiVars, formVars, preset, posted, told, target, jobs, sender>>

PresetDialog ==
    /\ dialog = "preset" /\ dialog' = "none"
    /\ \/ files' = Append(files, [do |-> "save"]) /\ UNCHANGED pending
       \/ pending' = FALSE /\ UNCHANGED files
    /\ UNCHANGED <<at, world, guiVars, owner, rids, formVars, preset, posted, told,
                   target, jobs, sender, aim>>

AuditFile ==
    /\ Free /\ enabled /\ MayAcquire
    /\ Acquire /\ dialog' = "file"
    /\ UNCHANGED <<at, world, guiVars, formVars, preset, pending, posted, told, target,
                   files, jobs, sender>>

\* The envelope of a free file is built when its dialog closes, from the
\* verdict that stands then.
FileDialog ==
    /\ dialog = "file" /\ dialog' = "none"
    /\ \/ /\ files' = Append(files, [do |-> "read", job |-> Envelope("file", owner.rid)])
          /\ UNCHANGED owner
       \/ UNCHANGED files
    /\ IF files' = files THEN Release(owner.rid) ELSE UNCHANGED <<owner, aim>>
    /\ UNCHANGED <<at, world, guiVars, rids, formVars, preset, pending, posted, told,
                   target, jobs, sender>>

-----------------------------------------------------------------------------
(* The preset worker.                                                      *)

ReadOrSave ==
    /\ files # <<>> /\ files' = Tail(files)
    /\ LET f == Head(files) IN
       IF f.do = "save"
       THEN posted' = Append(posted, [sig |-> "saved"])
       ELSE \E ok \in BOOLEAN :
              posted' = Append(posted, [sig |-> IF ok THEN "loaded" ELSE "fileError",
                                        job |-> f.job])
    /\ UNCHANGED <<at, world, guiVars, owner, rids, formVars, auditVars, told, target,
                   jobs, sender, aim>>

-----------------------------------------------------------------------------
(* The sender thread.                                                      *)

\* A prompt is announced before it is posted.  A batch reads its three presets
\* first.  An audit or a file verifies its captured target first.
TakeJob ==
    /\ sender = Idle /\ jobs # <<>> /\ jobs' = Tail(jobs)
    /\ LET j == Head(jobs) IN
       \/ /\ j.kind \in {"prompt", "cc"}
          /\ posted' = Append(posted, [sig |-> "started", job |-> j])
          /\ sender' = [busy |-> TRUE, job |-> j, part |-> 1, at |-> "post"]
       \/ /\ j.kind = "batch"
          /\ \/ sender' = [busy |-> TRUE, job |-> j, part |-> 1, at |-> "post"]
                /\ UNCHANGED posted
             \/ posted' = Append(posted, [sig |-> "waves", job |-> j, ok |-> FALSE])
                /\ UNCHANGED sender
       \/ /\ j.kind \in {"audit", "file"}
          /\ sender' = [busy |-> TRUE, job |-> j, part |-> 1, at |-> "verify"]
          /\ UNCHANGED posted
    /\ UNCHANGED <<at, world, guiVars, owner, rids, formVars, auditVars, told, target,
                   files, aim>>

\* _verify_target: the captured process lives and the captured address still
\* answers for the captured session.
Verified(j) ==
    /\ j.url # NoUrl /\ \E u \in Url : at[u] = j.proc
    /\ at[j.url] # NoProc /\ j.session \in Knows[at[j.url]]

Ended(j, ok) == Append(posted, [sig |-> IF j.kind = "batch" THEN "waves" ELSE "completed",
                                job |-> j, ok |-> ok])

Verify ==
    /\ sender # Idle /\ sender.at = "verify"
    /\ \/ Verified(sender.job) /\ sender' = [sender EXCEPT !.at = "post"] /\ UNCHANGED posted
       \/ sender' = Idle /\ posted' = Ended(sender.job, FALSE)
    /\ UNCHANGED <<at, world, guiVars, owner, rids, formVars, auditVars, told, target,
                   files, jobs, aim>>

\* The answer comes back, or the bound runs out first, whether the server has
\* admitted the post or not.  A batch goes on to its next part and stops at a
\* failure.
Answer(ok) ==
    /\ sender # Idle /\ sender.at = "post"
    /\ ok => \E p \in Proc : at[sender.job.url] = p /\ sender.job.session \in Knows[p]
    /\ LET j == sender.job IN
       \/ /\ j.kind = "batch" /\ ok /\ sender.part < 3
          /\ sender' = [sender EXCEPT !.part = @ + 1] /\ UNCHANGED posted
       \/ /\ ~(j.kind = "batch" /\ ok /\ sender.part < 3)
          /\ sender' = Idle /\ posted' = Ended(j, ok)
    /\ UNCHANGED <<at, world, guiVars, owner, rids, formVars, auditVars, told, target,
                   files, jobs, aim>>

-----------------------------------------------------------------------------
(* The window takes the next signal.                                       *)

Arrives(sig) == posted # <<>> /\ Head(posted).sig = sig /\ posted' = Tail(posted)
Now == Head(posted)

\* A verdict counts only for the selection and the session it was made for.
Accept(v) == cur # NoSession /\ v.gen = gen /\ v.session = cur

OnResolved ==
    /\ Arrives("resolved")
    /\ IF Accept(Now.verdict) THEN status' = Now.verdict ELSE UNCHANGED status
    /\ UNCHANGED <<at, world, cur, gen, listed, gone, owner, rids, formVars, auditVars,
                   told, target, files, jobs, sender, aim>>
    /\ IF Accept(Now.verdict) THEN UpdateControls ELSE UNCHANGED enabled

\* A selected session that is not listed any more is closed at once.
OnSidebar ==
    /\ Arrives("sidebar")
    /\ listed' = Now.sessions
    /\ IF cur # NoSession /\ cur \notin Now.sessions
       THEN gone' = TRUE /\ status' = Unresolved
       ELSE UNCHANGED <<gone, status>>
    /\ UNCHANGED <<at, world, cur, gen, owner, rids, formVars, auditVars, told, target,
                   files, jobs, sender, aim>>
    /\ IF cur # NoSession /\ cur \notin Now.sessions THEN UpdateControls ELSE UNCHANGED enabled

OnStarted ==
    /\ Arrives("started")
    /\ LET j == Now.job
           stale == j.session # cur
       IN /\ inflight' = [inflight EXCEPT ![j.rid] = IF stale THEN NoRev ELSE submit]
          /\ submit' = IF stale THEN submit ELSE NoRev
    /\ UNCHANGED <<at, world, cur, gen, status, listed, gone, owner, rids, rev, blank, submitted, auditVars, told,
                   target, files, jobs, sender, aim>>
    /\ UpdateControls

\* Mutant: the composer is cleared whenever something typed was admitted.
ClearsAlways(j, ok) == ok /\ j.session = cur /\ inflight[j.rid] # NoRev

\* The composer is cleared when it still holds exactly what was submitted.
Clears(j, ok) == ok /\ j.session = cur /\ inflight[j.rid] # NoRev /\ inflight[j.rid] = rev

OnCompleted ==
    /\ Arrives("completed")
    /\ LET j == Now.job IN
       /\ inflight' = [inflight EXCEPT ![j.rid] = NoRev]
       /\ Release(j.rid)
       /\ blank' = (blank \/ Clears(j, Now.ok))
    /\ UNCHANGED <<at, world, cur, gen, status, listed, gone, rids, rev, submit, submitted,
                   auditVars, told, target, files, jobs, sender>>
    /\ UpdateControls

\* The end of a batch; for a session that is not selected any more the controls
\* are left as they are.
OnWaves ==
    /\ Arrives("waves") /\ Release(Now.job.rid)
    /\ UNCHANGED <<at, world, cur, gen, status, listed, gone, rids, formVars, auditVars, told, target, files,
                   jobs, sender>>
    /\ IF Now.job.session = cur THEN UpdateControls ELSE UNCHANGED enabled

\* Mutant: the prepared text is sent to what is selected now.
Retargeted(j) == IF CanSend THEN Envelope(j.kind, j.rid) ELSE j

\* The envelope of the click is the only target.
Target(j) == j

OnLoaded ==
    /\ Arrives("loaded")
    /\ jobs' = Append(jobs, Target(Now.job))
    /\ UNCHANGED <<at, world, guiVars, owner, rids, formVars, auditVars, told, target,
                   files, sender, aim>>

\* Mutant: a file that cannot be read gives nothing back.
NoRelease(rid) == owner' = owner /\ aim' = aim

\* A file that cannot be read ends the request.
ReleaseFile(rid) == Release(rid)

OnFileError ==
    /\ Arrives("fileError") /\ ReleaseFile(Now.job.rid) /\ pending' = FALSE
    /\ UNCHANGED <<at, world, guiVars, rids, formVars, preset, dialog, told, target,
                   files, jobs, sender>>

\* The saved preset is sent at once when its click is still pending: to what is
\* selected now, under a reservation of its own.
OnSaved ==
    /\ Arrives("saved") /\ preset' = TRUE /\ pending' = FALSE
    /\ IF pending /\ MayAcquire
       THEN /\ Acquire
            /\ files' = Append(files, [do |-> "read", job |-> Envelope("audit", rids + 1)])
       ELSE UNCHANGED <<owner, rids, aim, files>>
    /\ UNCHANGED <<at, world, guiVars, formVars, dialog, told, target, jobs, sender>>

-----------------------------------------------------------------------------
Init ==
    /\ \E u \in Url : at = [v \in Url |-> IF v = u THEN Up ELSE NoProc]
    /\ world = 0 /\ cur = NoSession /\ gen = 0 /\ status = Unresolved
    /\ listed = Session /\ gone = FALSE /\ enabled = FALSE
    /\ owner = NoOwner /\ rids = 0 /\ rev = 1 /\ blank = FALSE
    /\ submit = NoRev /\ submitted = NoRev /\ inflight = [r \in Rid |-> NoRev]
    /\ preset \in BOOLEAN /\ pending = FALSE /\ dialog = "none"
    /\ posted = <<>> /\ told = <<>> /\ files = <<>> /\ jobs = <<>> /\ sender = Idle
    /\ target = NoSession
    /\ aim = NoAim

User == (\E s \in Session : Select(s)) \/ Edit \/ Send \/ ContinueSession
        \/ ThreeWaves \/ Audit \/ PresetDialog \/ AuditFile \/ FileDialog
Workers == Retarget \/ Resolve
           \/ (\E ss \in SUBSET Session : Observe(ss))
           \/ ReadOrSave \/ TakeJob \/ Verify \/ (\E ok \in BOOLEAN : Answer(ok))
Window == OnResolved \/ OnSidebar \/ OnStarted \/ OnCompleted \/ OnWaves \/ OnLoaded
          \/ OnFileError \/ OnSaved
World == \E u \in Url : Ends(u) \/ \E p \in Proc : Listens(u, p)

Next == User \/ Workers \/ Window \/ World
Spec == Init /\ [][Next]_vars

-----------------------------------------------------------------------------
(* Properties.                                                             *)

\* The requests that something still has to answer for.
Outstanding ==
    {jobs[i].rid : i \in DOMAIN jobs}
    \union {files[i].job.rid : i \in {k \in DOMAIN files : files[k].do = "read"}}
    \union (IF sender = Idle THEN {} ELSE {sender.job.rid})
    \union {posted[i].job.rid : i \in {k \in DOMAIN posted :
                posted[k].sig \in {"completed", "waves", "loaded", "fileError"}}}
    \union (IF dialog = "file" THEN {owner.rid} ELSE {})

\* The reservation stands for exactly one request that some thread still has to
\* answer, and no second one is under way: a double click sends nothing twice,
\* and no failure of a file, a verification or a post leaves the buttons locked.
ReservationIsExact ==
    Outstanding = IF owner = NoOwner THEN {} ELSE {owner.rid}

\* What is posted goes to the session that was selected when the request was
\* reserved, however the selection moved while a file was read, and, for an
\* audit, no server was ever asked that was not verified to be there: a post to
\* another session or address than the one resolved for it never happens.
AimIsKept ==
    sender # Idle /\ sender.at = "post" =>
        /\ sender.job.session = aim.session
        /\ aim.session \in Knows[aim.proc]
        /\ sender.job.kind # "file" => sender.job.url = aim.url /\ sender.job.proc = aim.proc

\* An answer never empties the composer of text that was typed after the last
\* submission (the protection of _on_send_completed).
NewerTextIsKept == [][posted # posted' /\ blank' /\ ~blank => rev = submitted]_vars
=============================================================================
