-------------------------- MODULE BackupPublisher --------------------------
(***************************************************************************)
(* Who publishes a backup, and when (sa_broker.py).  A lock that detached the  *)
(* vault queues a publication for a background thread; the next open cancels    *)
(* it and waits a while; the window and the command line publish in the         *)
(* foreground under the profile's lock.                                         *)
(*                                                                          *)
(* runtime.lock is held while broker.pc is not "idle"; backup_lock makes Queue   *)
(* and Take one step each; everything else interleaves.  What a publication does *)
(* to the files is BackupStore; here it is a copy that is torn if somebody      *)
(* wrote into the mounted vault meanwhile.                                      *)
(***************************************************************************)
EXTENDS Naturals

CONSTANTS
    Threads,  \* publisher threads that may live at once
    Keys,     \* HMAC keys that may be in memory at once
    NoKey, NoRequest, NoThread

\* What is missing is told apart from what is there.
Distinct == NoKey \notin Keys /\ NoRequest \notin Keys \cup {NoKey} /\ NoThread \notin Threads

VARIABLES
    mounted,  \* the volume is attached and readable
    state,    \* runtime.backup_state
    pending,  \* runtime.backup_pending_request (and backup_requested)
    token,    \* runtime.backup_cancel_token
    worker,   \* runtime.backup_worker
    thread,   \* the publisher threads
    broker,   \* the operation that holds runtime.lock
    live,     \* keys whose bytes are not wiped
    dropped,  \* what threads held that died of a question for the state
    torn      \* who committed the last publication, if its copy was torn

vars == <<mounted, state, pending, token, worker, thread, broker, live, dropped, torn>>

MaybeKey == Keys \cup {NoKey}
States == {"NEVER_CREATED", "PUBLISHING", "CURRENT_AUTHENTICATED", "CURRENT_INTEGRITY_ONLY",
           "STALE", "FAILED"}
ThreadSteps == {"dead", "loop", "check", "recheck", "copy", "commit", "report"}
BrokerSteps == {"idle", "joining", "mounting", "unmounting", "queueing",
                "sync", "sync copy", "sync commit"}
Dead == [pc |-> "dead", key |-> NoKey, torn |-> FALSE]
Idle == [pc |-> "idle", key |-> NoKey, torn |-> FALSE]

TypeOK ==
    /\ mounted \in BOOLEAN /\ token \in BOOLEAN
    /\ state \in States
    /\ pending \in MaybeKey \cup {NoRequest}
    /\ worker \in Threads \cup {NoThread}
    /\ thread \in [Threads -> [pc : ThreadSteps, key : MaybeKey, torn : BOOLEAN]]
    /\ broker \in [pc : BrokerSteps, key : MaybeKey, torn : BOOLEAN]
    /\ live \subseteq Keys /\ dropped \subseteq live \cup {NoKey}
    /\ torn \in {"nobody", "thread", "broker"}

Init ==
    /\ mounted = FALSE /\ state = "NEVER_CREATED"
    /\ pending = NoRequest /\ token = FALSE
    /\ worker = NoThread /\ thread = [t \in Threads |-> Dead]
    /\ broker = Idle /\ live = {} /\ dropped = {}
    /\ torn = "nobody"

-----------------------------------------------------------------------------
Alive(t) == t # NoThread /\ thread[t].pc # "dead"
Wiped(k) == live \ {k}

\* A session without a secret derives no key.
Derives(k) == k = NoKey \/ (k \in Keys \ live)

-----------------------------------------------------------------------------
\* open, under runtime.lock.

\* A publication that shows is cancelled and waited for; the profile's lock stays
\* held.
Open ==
    /\ broker.pc = "idle" /\ ~mounted
    /\ IF state = "PUBLISHING"
       THEN token' = TRUE /\ broker' = [Idle EXCEPT !.pc = "joining"]
       ELSE broker' = [Idle EXCEPT !.pc = "mounting"] /\ UNCHANGED token
    /\ UNCHANGED <<mounted, state, pending, worker, thread, live, dropped, torn>>

\* The wait ends with the thread, or after 1.5 s with storage_busy.
Joined ==
    /\ broker.pc = "joining"
    /\ ~Alive(worker)
    /\ broker' = [broker EXCEPT !.pc = "mounting"]
    /\ UNCHANGED <<mounted, state, pending, token, worker, thread, live, dropped, torn>>

Busy ==
    /\ broker.pc = "joining"
    /\ Alive(worker)
    /\ broker' = Idle
    /\ UNCHANGED <<mounted, state, pending, token, worker, thread, live, dropped, torn>>

Mount ==
    /\ broker.pc = "mounting"
    /\ mounted' \in BOOLEAN
    /\ broker' = Idle
    /\ UNCHANGED <<state, pending, token, worker, thread, live, dropped, torn>>

\* The application writes; a copy in progress mixes what was with what is.
Edit ==
    /\ mounted
    /\ thread' = [t \in Threads |-> [thread[t] EXCEPT !.torn = @ \/ thread[t].pc = "copy"]]
    /\ broker' = [broker EXCEPT !.torn = @ \/ broker.pc = "sync copy"]
    /\ UNCHANGED <<mounted, state, pending, token, worker, live, dropped, torn>>

-----------------------------------------------------------------------------
\* _secure_lock, under runtime.lock: the key is derived before the session dies.
Lock(k) ==
    /\ broker.pc = "idle" /\ mounted
    /\ Derives(k)
    /\ live' = live \cup ({k} \cap Keys)
    /\ broker' = [Idle EXCEPT !.pc = "unmounting", !.key = k]
    /\ UNCHANGED <<mounted, state, pending, token, worker, thread, dropped, torn>>

Unmount ==
    /\ broker.pc = "unmounting"
    /\ mounted' = FALSE
    /\ broker' = [broker EXCEPT !.pc = "queueing"]
    /\ UNCHANGED <<state, pending, token, worker, thread, live, dropped, torn>>

UnmountFails ==
    /\ broker.pc = "unmounting"
    /\ live' = Wiped(broker.key)
    /\ broker' = Idle
    /\ UNCHANGED <<mounted, state, pending, token, worker, thread, dropped, torn>>

\* _queue_backup_publication, under backup_lock.  A request nobody took is
\* replaced and its key wiped; a thread that shows PUBLISHING and lives will come
\* by; otherwise a new one is started.
QueueKey(k) ==
    /\ live' = (live \cup ({k} \cap Keys)) \ ({pending} \ {k})
    /\ pending' = k
    /\ IF state = "PUBLISHING" /\ Alive(worker)
       THEN UNCHANGED <<token, worker, thread>>
       ELSE /\ token' = FALSE
            /\ \E t \in Threads :
                  /\ ~Alive(t)
                  /\ worker' = t
                  /\ thread' = [thread EXCEPT ![t] = [Dead EXCEPT !.pc = "loop"]]

\* The container is gone or is not a BitLocker one: nothing to publish.
NoContainer ==
    /\ broker.pc = "queueing"
    /\ live' = Wiped(broker.key)
    /\ broker' = Idle
    /\ UNCHANGED <<mounted, state, pending, token, worker, thread, dropped, torn>>

Queue ==
    /\ broker.pc = "queueing"
    /\ QueueKey(broker.key)
    /\ broker' = Idle
    /\ UNCHANGED <<mounted, state, dropped, torn>>

\* publish_backup(wait=False) does not take runtime.lock.
PublishLater(k) ==
    /\ Derives(k)
    /\ QueueKey(k)
    /\ UNCHANGED <<mounted, state, broker, dropped, torn>>

-----------------------------------------------------------------------------
\* publish_backup(wait=True), under runtime.lock and without the token.
Sync(k) ==
    /\ broker.pc = "idle"
    /\ Derives(k)
    /\ live' = live \cup ({k} \cap Keys)
    /\ broker' = [Idle EXCEPT !.pc = "sync", !.key = k]
    /\ UNCHANGED <<mounted, state, pending, token, worker, thread, dropped, torn>>

\* Mutant: the foreground publication trusts its caller that the vault is closed.
SyncCopyAttached ==
    /\ broker.pc = "sync"
    /\ broker' = [broker EXCEPT !.pc = "sync copy"]
    /\ UNCHANGED <<mounted, state, pending, token, worker, thread, live, dropped, torn>>

SyncCopy ==
    /\ broker.pc = "sync" /\ ~mounted
    /\ broker' = [broker EXCEPT !.pc = "sync copy"]
    /\ UNCHANGED <<mounted, state, pending, token, worker, thread, live, dropped, torn>>

SyncCommit ==
    /\ broker.pc = "sync copy"
    /\ broker' = [broker EXCEPT !.pc = "sync commit", !.torn = FALSE]
    /\ torn' = IF broker.torn THEN "broker" ELSE "nobody"
    /\ UNCHANGED <<mounted, state, pending, token, worker, thread, live, dropped>>

Current(k) == IF k = NoKey THEN "CURRENT_INTEGRITY_ONLY" ELSE "CURRENT_AUTHENTICATED"

SyncReport ==
    /\ broker.pc = "sync commit"
    /\ state' = Current(broker.key)
    /\ live' = Wiped(broker.key)
    /\ broker' = Idle
    /\ UNCHANGED <<mounted, pending, token, worker, thread, dropped, torn>>

\* Attached, no space, a changed protector, a failed check: the state stays.
SyncFails ==
    /\ broker.pc \in {"sync", "sync copy", "sync commit"}
    /\ live' = Wiped(broker.key)
    /\ broker' = Idle
    /\ UNCHANGED <<mounted, state, pending, token, worker, thread, dropped, torn>>

-----------------------------------------------------------------------------
\* _run_backup_publisher, one turn of a thread.

At(t, step) == thread[t].pc = step
Turn(t, step) == thread' = [thread EXCEPT ![t].pc = step]
Dies(t) == thread' = [thread EXCEPT ![t] = Dead]

\* Mutant: a thread that was started has a request.
TakeUnasked(t) ==
    /\ At(t, "loop")
    /\ state' = "PUBLISHING"
    /\ thread' = [thread EXCEPT ![t] = [pc |-> "check", key |-> pending, torn |-> FALSE]]
    /\ pending' = NoRequest
    /\ UNCHANGED <<mounted, token, worker, broker, live, dropped, torn>>

\* Mutant: the request is taken and left in its place.
TakeLeaves(t) ==
    /\ At(t, "loop")
    /\ IF pending = NoRequest
       THEN Dies(t) /\ UNCHANGED <<state, pending>>
       ELSE /\ state' = "PUBLISHING"
            /\ thread' = [thread EXCEPT ![t] = [pc |-> "check", key |-> pending, torn |-> FALSE]]
            /\ UNCHANGED pending
    /\ UNCHANGED <<mounted, token, worker, broker, live, dropped, torn>>

\* Under backup_lock.
Take(t) ==
    /\ At(t, "loop")
    /\ IF pending = NoRequest
       THEN Dies(t) /\ UNCHANGED <<state, pending>>
       ELSE /\ state' = "PUBLISHING"
            /\ thread' = [thread EXCEPT ![t] = [pc |-> "check", key |-> pending, torn |-> FALSE]]
            /\ pending' = NoRequest
    /\ UNCHANGED <<mounted, token, worker, broker, live, dropped, torn>>

Detached(t) ==
    /\ At(t, "check") /\ ~mounted
    /\ Turn(t, "recheck")
    /\ UNCHANGED <<mounted, state, pending, token, worker, broker, live, dropped, torn>>

\* Mutant: the key of a publication that is not made is kept.
AttachedKeeps(t) ==
    /\ At(t, "check") /\ mounted
    /\ state' = "STALE"
    /\ Dies(t)
    /\ UNCHANGED <<mounted, pending, token, worker, broker, live, dropped, torn>>

\* The thread leaves its loop, whatever was queued meanwhile.
Attached(t) ==
    /\ At(t, "check") /\ mounted
    /\ state' = "STALE"
    /\ live' = Wiped(thread[t].key)
    /\ Dies(t)
    /\ UNCHANGED <<mounted, pending, token, worker, broker, dropped, torn>>

\* The question for the state is outside the try: it can raise, and the thread
\* ends with PUBLISHING showing and its key in memory.
StateRaises(t) ==
    /\ At(t, "check")
    /\ Dies(t)
    /\ dropped' = dropped \cup {thread[t].key}
    /\ UNCHANGED <<mounted, state, pending, token, worker, broker, live, torn>>

CopyBegins(t) ==
    /\ At(t, "recheck") /\ ~mounted
    /\ Turn(t, "copy")
    /\ UNCHANGED <<mounted, state, pending, token, worker, broker, live, dropped, torn>>

CopyEnds(t) ==
    /\ At(t, "copy")
    /\ Turn(t, "commit")
    /\ UNCHANGED <<mounted, state, pending, token, worker, broker, live, dropped, torn>>

Commit(t) ==
    /\ At(t, "commit")
    /\ thread' = [thread EXCEPT ![t].pc = "report", ![t].torn = FALSE]
    /\ torn' = IF thread[t].torn THEN "thread" ELSE "nobody"
    /\ UNCHANGED <<mounted, state, pending, token, worker, broker, live, dropped>>

Done(t, said) ==
    /\ state' = said
    /\ live' = Wiped(thread[t].key)
    /\ thread' = [thread EXCEPT ![t] = [Dead EXCEPT !.pc = "loop"]]
    /\ UNCHANGED <<mounted, pending, token, worker, broker, dropped, torn>>

Report(t) == At(t, "report") /\ Done(t, Current(thread[t].key))

\* The token is looked at before each chunk.
Cancelled(t) == At(t, "copy") /\ token /\ Done(t, "STALE")

\* Mutant: a failure is logged, the state is not changed.
FailsQuietly(t) ==
    /\ thread[t].pc \in {"recheck", "copy", "commit"}
    /\ Done(t, state)

Fails(t) ==
    /\ thread[t].pc \in {"recheck", "copy", "commit"}
    /\ Done(t, "FAILED")

ThreadStep(t) ==
    \/ Take(t) \/ Detached(t) \/ Attached(t) \/ StateRaises(t)
    \/ CopyBegins(t) \/ CopyEnds(t) \/ Commit(t) \/ Report(t) \/ Cancelled(t) \/ Fails(t)

BrokerStep ==
    \/ Open \/ Joined \/ Busy \/ Mount
    \/ \E k \in MaybeKey : Lock(k) \/ Sync(k)
    \/ Unmount \/ UnmountFails \/ NoContainer \/ Queue
    \/ SyncCopy \/ SyncCommit \/ SyncReport \/ SyncFails

Next ==
    \/ BrokerStep
    \/ Edit
    \/ \E k \in MaybeKey : PublishLater(k)
    \/ \E t \in Threads : ThreadStep(t)

\* Threads are scheduled; nobody has to open, lock or queue.
Fairness == \A t \in Threads : WF_vars(ThreadStep(t))

Spec == Init /\ [][Next]_vars /\ Fairness

-----------------------------------------------------------------------------
\* Properties.

\* No thread and no foreground publication signs with a key that was wiped under
\* it, by a request that replaced its own or by another publisher
\* (_queue_backup_publication against _run_backup_publisher).
KeyInUseIsLive ==
    /\ \A t \in Threads : thread[t].key \in Keys => thread[t].key \in live
    /\ broker.key \in Keys => broker.key \in live
    /\ pending \in Keys => pending \in live

\* A key in memory has somebody who will wipe it: the request it waits in, the
\* thread or the operation that uses it; only a thread whose question for the
\* state raised leaves one behind.
KeyHasAnOwner ==
    \A k \in live \ dropped :
        \/ pending = k
        \/ broker.key = k
        \/ \E t \in Threads : thread[t].key = k

\* PUBLISHING is not shown for ever: the thread that is at it says how it ended,
\* unless it could not ask for the state.
PublishingEnds == state = "PUBLISHING" ~> (state # "PUBLISHING" \/ dropped # {})

\* A publication in the foreground holds the profile's lock, so no open can make
\* a torn copy of it.
ForegroundIsWhole == torn # "broker"

\* What publish_backup says must be so: the container is not in use while it is
\* copied.
NothingTorn == torn = "nobody"

\* A queued request is picked up.
RequestsServed == pending # NoRequest ~> pending = NoRequest
=============================================================================
