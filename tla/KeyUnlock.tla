------------------------------ MODULE KeyUnlock ------------------------------
(***************************************************************************)
(* Opening a vault with a security key (secure_apps/sa_auth.py, and the    *)
(* elevated worker sa_fido_worker.py that speaks to the keys).             *)
(*                                                                         *)
(* unwrap_volume_secret goes through the groups of enrolled credentials    *)
(* that share a salt; for each group the provider resolves its transport,  *)
(* asks for the PIN and offers the group to the keys that are plugged in,  *)
(* one after the other.  A refusal by the owner ends the call, any other   *)
(* error goes on to the next key, to a probe for credentials of a retired  *)
(* generation, and to the next group.  Not so half an answer, one without  *)
(* the output, by a credential nobody enrolled or without verification of  *)
(* the user: the worker returns from inside its loop, and the keys that    *)
(* follow are not asked; the direct path notes it and goes on.  A listing  *)
(* of the keys can fail with keys plugged in.  enroll_additional opens the vault   *)
(* the same way, makes a credential on the first key that makes one, and   *)
(* wraps the secret for it.  Keys come and go while this runs, each has    *)
(* its own PIN and its own number of tries.                                *)
(*                                                                         *)
(* Abstractions: a PIN is the key it belongs to; a key answers an          *)
(* assertion as a FIDO2 key does (Outcomes, external); user verification   *)
(* is required.  Cryptography is left out: the secret of a row is opened   *)
(* by its credential and by nothing else.                                  *)
(***************************************************************************)
EXTENDS Naturals, FiniteSets, SequencesExt

CONSTANTS
    Key,          \* the owner's security keys
    Cred,         \* credentials
    Salt,         \* hmac-secret salts of the profile
    FirstRows,    \* the enrolments the store begins with
    FirstHeld,    \* the credentials the keys begin with
    MaxTries,     \* tries of a PIN before a key blocks itself
    MaxPulls,     \* bound: keys plugged in or pulled out
    MaxCalls      \* bound: unlocks and enrolments

VARIABLES
    transport,    \* the path this host has: "helper", "direct", "windows"
    plugged,      \* the keys plugged in
    tries,        \* tries left on each key
    held,         \* the credentials on each key
    rows,         \* the credential store: [cred, gen, salt]
    call,         \* the call that runs, or how the last one ended
    pulls, calls,
    owner,        \* ghost: the key whose owner has refused it nothing in this call, nor it him
    cut           \* ghost: in this call the keys could not be listed, or half an answer of
                  \* another key ended a walk the owner's key was still to be asked in

vars == <<transport, plugged, tries, held, rows, call, pulls, calls, owner, cut>>

NoKey == "none"
ActiveGen == 2          \* active_daily_generation; the retired one is 1
Idle == [at |-> "idle"]

Active == {r \in rows : r.gen = ActiveGen}
OlderIds == {r.cred : r \in rows \ Active}
Group(s) == {r.cred : r \in {x \in Active : x.salt = s}}
Opens(k) == held[k] \cap {r.cred : r \in Active} # {}

Init ==
    /\ transport \in {"helper", "direct", "windows"}
    /\ plugged \in SUBSET Key
    /\ tries = [k \in Key |-> MaxTries]
    /\ held = FirstHeld /\ rows = FirstRows
    /\ call = Idle
    /\ pulls = 0 /\ calls = 0 /\ owner = NoKey /\ cut = FALSE

-----------------------------------------------------------------------------
(* The keys and their owner. *)

Plug(k) ==
    /\ pulls < MaxPulls /\ pulls' = pulls + 1
    /\ plugged' = IF k \in plugged THEN plugged \ {k} ELSE plugged \cup {k}
    /\ owner' = IF owner = k THEN NoKey ELSE owner
    /\ UNCHANGED <<transport, tries, held, rows, call, calls, cut>>

\* What key k makes of an assertion over the allowed credentials, with this PIN: the
\* PIN is checked first, then the owner touches it or does not.
Checked(k, allowed, pin) ==
    IF pin = NoKey THEN {[is |-> "no_pin", tries |-> tries[k]]}
    ELSE IF tries[k] = 0 THEN {[is |-> "pin_failed", tries |-> 0]}
    ELSE IF pin # k THEN {[is |-> "pin_failed", tries |-> tries[k] - 1]}
    ELSE {[is |-> "cancelled", tries |-> MaxTries]} \cup
         IF allowed \cap held[k] = {} THEN {[is |-> "wrong_credential", tries |-> MaxTries]}
         ELSE {[is |-> "ok", tries |-> MaxTries, cred |-> c] : c \in allowed \cap held[k]}

\* A key that verifies nobody, or is broken, gives half an answer whatever the PIN.
Outcomes(k, allowed, pin) ==
    IF k \notin plugged THEN {[is |-> "failed", tries |-> tries[k]]}
    ELSE Checked(k, allowed, pin) \cup {[is |-> "half", tries |-> tries[k]]}

-----------------------------------------------------------------------------
(* The provider's errors. *)

\* A PIN that was not given is the owner's no to the worker ...
WorkerCategory(is) == IF is = "no_pin" THEN "cancelled" ELSE is

\* ... and a failure like any other on the direct path.
DirectCategory(is) == IF is = "no_pin" THEN "failed" ELSE is

Category(is) == IF transport = "direct" THEN DirectCategory(is) ELSE WorkerCategory(is)

\* A call of get_key_material for a set of credentials begins.
Request(c, allowed, phase) ==
    [c EXCEPT !.at = "resolve", !.allowed = allowed, !.phase = phase,
              !.pin = NoKey, !.devices = <<>>, !.last = "failed"]

Ended(c, is) == [at |-> "ended", op |-> c.op, is |-> is]

\* The next group of credentials that share a salt, if there is one.
NextGroup(c) ==
    IF c.groups = <<>> THEN Ended(c, "failed")
    ELSE Request([c EXCEPT !.groups = Tail(@)], Group(Head(c.groups)), "active")

\* unwrap_volume_secret, for what get_key_material answered.  A retired key is noticed
\* by the probe, and what the probe raises then is swallowed with every other error.
Answered(c, is, cred) ==
    CASE c.phase = "wrap" ->
            IF is = "ok" THEN [c EXCEPT !.at = "add", !.allowed = {cred}] ELSE Ended(c, is)
      [] c.phase # "wrap" /\ is \in {"cancelled", "unavailable"} -> Ended(c, is)
      [] c.phase = "active" /\ is = "ok" ->
            IF transport = "windows" THEN Ended(c, "capability")
            ELSE IF c.op = "unlock" THEN Ended(c, "open")
            ELSE Request(c, {}, "create")
      [] c.phase = "active" /\ is \notin {"ok", "cancelled", "unavailable"} ->
            IF OlderIds # {} THEN Request(c, OlderIds, "older") ELSE NextGroup(c)
      [] c.phase = "older" /\ is \notin {"cancelled", "unavailable"} -> NextGroup(c)
      [] c.phase = "create" /\ is \notin {"ok", "cancelled", "unavailable"} -> Ended(c, is)

\* Mutant: the first key that answers with an error is the last one asked.
OnlyFirst(c, is) == Answered(c, is, NoKey)

\* The loop over the keys goes on to the next one, and the last error is the answer.
Failed(c, is) ==
    IF c.devices = <<>> THEN Answered(c, is, NoKey) ELSE [c EXCEPT !.at = "device"]

\* Half an answer: the elevated worker asks no further key, the direct path the next.
Halved(c) ==
    IF transport = "direct" THEN Failed(c, "capability") ELSE Answered(c, "capability", NoKey)

Unanswered(c, is) == IF is = "half" THEN Halved(c) ELSE Failed(c, Category(is))

-----------------------------------------------------------------------------
(* The call. *)

Begin(op) ==
    /\ call.at \in {"idle", "ended"} /\ calls < MaxCalls /\ Active # {}
    /\ calls' = calls + 1
    /\ \E order \in SetToSeqs({s \in Salt : Group(s) # {}}) :
        call' = NextGroup([op |-> op, at |-> "resolve", groups |-> order, allowed |-> {},
                           phase |-> "active", pin |-> NoKey, devices |-> <<>>, last |-> "failed"])
    /\ owner' \in {k \in plugged : Opens(k) /\ tries[k] > 0} \cup {NoKey}
    /\ cut' = FALSE
    /\ UNCHANGED <<transport, plugged, tries, held, rows, pulls>>

\* Ghost: the group at hand is one that the owner's key opens.
Mine == owner # NoKey /\ call.phase = "active" /\ call.allowed \cap held[owner] # {}

\* resolve_transport and _require_connected: the helper or the listing of the keys
\* fails, no key is there, or the path is clear.
Resolve ==
    /\ call.at = "resolve"
    /\ \/ /\ transport # "windows"
          /\ call' = Answered(call, "unavailable", NoKey)
          /\ cut' = TRUE
       \/ /\ call' = IF plugged = {} THEN Answered(call, "unavailable", NoKey)
                     ELSE [call EXCEPT !.at = IF transport = "helper" THEN "pin" ELSE "list"]
          /\ UNCHANGED cut
    /\ UNCHANGED <<transport, plugged, tries, held, rows, pulls, calls, owner>>

\* The broker asks for the PIN once for all the keys the worker will try.
AskPin ==
    /\ call.at = "pin"
    /\ \E pin \in Key \cup {NoKey} :
        /\ call' = [call EXCEPT !.at = "list", !.pin = pin]
        /\ owner' = IF owner = pin THEN owner ELSE NoKey
    /\ UNCHANGED <<transport, plugged, tries, held, rows, pulls, calls, cut>>

\* What the keys not being listed makes of a call: _devices says that there is none,
\* the worker ends without an answer.
Unlisted == IF transport = "direct" THEN {"unavailable"} ELSE {"unavailable", "failed"}

\* list_devices fails.
ListFails ==
    /\ call.at = "list" /\ transport # "windows"
    /\ \E is \in Unlisted :
        /\ call' = Answered(call, is, NoKey)
        /\ cut' = (cut \/ is = "unavailable" \/ Mine)
    /\ UNCHANGED <<transport, plugged, tries, held, rows, pulls, calls, owner>>

\* list_devices; the platform client asks for one key.
List ==
    /\ call.at = "list"
    /\ \/ plugged = {} /\ call' = Answered(call, "unavailable", NoKey)
       \/ transport # "windows" /\ \E order \in SetToSeqs(plugged) :
            order # <<>> /\ call' = [call EXCEPT !.at = "device", !.devices = order]
       \/ transport = "windows" /\ \E k \in plugged :
            call' = [call EXCEPT !.at = "device", !.devices = <<k>>]
    /\ UNCHANGED <<transport, plugged, tries, held, rows, pulls, calls, owner, cut>>

\* Ghost: the owner refuses when he types another PIN or does not touch, and his key
\* refuses him when it gives half an answer.
Refused(k, pin, is) ==
    (transport # "helper" /\ pin # owner) \/ is = "cancelled" \/ (is = "half" /\ k = owner)

\* The next key is offered the credentials; on the direct path and on Windows the PIN
\* is asked for each of them.
Device ==
    /\ call.at = "device" /\ call.phase # "create"
    /\ LET k == Head(call.devices)
           rest == [call EXCEPT !.devices = Tail(@)]
       IN  \E pin \in IF transport = "helper" THEN {call.pin} ELSE Key \cup {NoKey} :
           \E o \in Outcomes(k, call.allowed, pin) :
             /\ tries' = [tries EXCEPT ![k] = o.tries]
             /\ owner' = IF Refused(k, pin, o.is) THEN NoKey ELSE owner
             /\ cut' = (cut \/ (o.is = "half" /\ transport = "helper" /\ Mine))
             /\ call' = IF o.is = "ok" THEN Answered(rest, "ok", o.cred)
                        ELSE Unanswered(rest, o.is)
    /\ UNCHANGED <<transport, plugged, held, rows, pulls, calls>>

\* wrap_volume_secret_for: one more assertion, by the new credential.
Wrap(c, cred) == Request(c, {cred}, "wrap")

\* What key k makes of a creation: a credential that no key had, which stays on it
\* when it was made without hmac-secret or without verification of the user.
Creations(k, pin) ==
    {o \in Outcomes(k, {}, pin) : o.is \notin {"wrong_credential", "half"}} \cup
    {[is |-> IF o.is = "half" THEN "half" ELSE "ok", tries |-> o.tries, cred |-> c] :
        o \in {x \in Outcomes(k, {}, pin) : x.is \in {"wrong_credential", "half"}},
        c \in Cred \ UNION {held[x] : x \in Key}}

\* create_credential: the first key that makes one; then the secret is wrapped for it.
Create ==
    /\ call.at = "device" /\ call.phase = "create"
    /\ LET k == Head(call.devices)
           rest == [call EXCEPT !.devices = Tail(@)]
       IN  \E pin \in IF transport = "helper" THEN {call.pin} ELSE Key \cup {NoKey} :
           \E o \in Creations(k, pin) :
             /\ tries' = [tries EXCEPT ![k] = o.tries]
             /\ owner' = NoKey
             /\ held' = IF o.is \in {"ok", "half"} THEN [held EXCEPT ![k] = @ \cup {o.cred}] ELSE held
             /\ call' = IF o.is = "ok" THEN Wrap(rest, o.cred) ELSE Unanswered(rest, o.is)
    /\ UNCHANGED <<transport, plugged, rows, pulls, calls, cut>>

\* CredentialStore.add, with the salt of the first enrolment and the first generation.
Add ==
    /\ call.at = "add"
    /\ \E s \in Salt, c \in call.allowed :
        /\ \E r \in rows : r.salt = s
        /\ rows' = rows \cup {[cred |-> c, gen |-> 1, salt |-> s]}
    /\ call' = Ended(call, "open")
    /\ UNCHANGED <<transport, plugged, tries, held, pulls, calls, owner, cut>>

Next ==
    \/ \E k \in Key : Plug(k)
    \/ \E op \in {"unlock", "enrol"} : Begin(op)
    \/ Resolve \/ AskPin \/ List \/ ListFails \/ Device \/ Create \/ Add

Spec == Init /\ [][Next]_vars

-----------------------------------------------------------------------------
TypeOK ==
    /\ transport \in {"helper", "direct", "windows"}
    /\ plugged \subseteq Key
    /\ tries \in [Key -> 0..MaxTries]
    /\ held \in [Key -> SUBSET Cred]
    /\ rows \subseteq [cred : Cred, gen : {1, ActiveGen}, salt : Salt]
    /\ call.at \in {"idle", "resolve", "pin", "list", "device", "add", "ended"}
    /\ pulls \in 0..MaxPulls /\ calls \in 0..MaxCalls
    /\ owner \in Key \cup {NoKey} /\ cut \in BOOLEAN

\* Whoever has a key that opens the vault, leaves it plugged in, types its PIN each
\* time he is asked and touches what blinks gets in, whichever other keys are plugged
\* in beside it and in whatever order groups and keys are tried: a call that ends
\* otherwise was cut, by a failure of the machine to list its keys or, with the helper
\* only, by half an answer of a key that was asked before his in a group he can open.
\* No error of another key ends it too early, and half an answer neither on the direct
\* path nor in another group.  (Not through the platform client, where every unlock of
\* a vault is refused: see README.)
WillingOwnerGetsIn ==
    call.at = "ended" /\ call.op = "unlock" /\ transport # "windows" /\ call.is # "open"
        => owner = NoKey \/ cut
=============================================================================
