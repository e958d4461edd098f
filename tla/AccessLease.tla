----------------------------- MODULE AccessLease ------------------------------
(***************************************************************************)
(* Temporary read access for another account (accounts/sai_access.py).     *)
(*                                                                         *)
(* grant adds a read right for the account to one object and writes a      *)
(* lease with its end; revoke and sweep, which revokes whatever has        *)
(* expired, take the account's granted rights away again and mark the      *)
(* lease.  Each is a process of its own that may end anywhere, and all of  *)
(* them read and write the same lease file and the same ACL, with nothing  *)
(* between them: the ACL is changed first, the lease written after it.     *)
(*                                                                         *)
(* Abstractions: one account and one object, a directory, whose ACL is the *)
(* set of rights granted to the account; a lease's own directory entry, so *)
(* its hash, is the lease.  Refusals before anything is read - a reparse   *)
(* point, an account that is not registered, a parent that cannot be       *)
(* traversed, a duration that is none of the two - are the command not     *)
(* being given.                                                            *)
(***************************************************************************)
EXTENDS Naturals

CONSTANTS
    Call,         \* the commands that may be under way at a time
    MaxCommands,  \* bound: commands given
    MaxForeign    \* bound: changes somebody else makes to the ACL

VARIABLES
    acl,          \* the rights granted to the account on the object
    lease,        \* the lease file, or NoLease
    ended,        \* the leases whose time has come
    command,      \* each call: [pc, verb, asked, seen, held, id]
    given,        \* commands given
    foreign,      \* changes by somebody else
    calm          \* ghost: no grant met a revocation, none was cut after its ACE, and nobody
                  \* else granted a read right

leaseVars == <<acl, lease, ended, command, given, foreign, calm>>

\* The rights an ACE of the account may hold: "flat" and "deep" are what the tool grants,
\* "write" stands for any other.
Right == {"flat", "deep", "write"}
NoLease == [id |-> 0]
Lease == {NoLease} \cup
         [id : 1..MaxCommands, right : {"flat", "deep"}, before : SUBSET Right, revoked : BOOLEAN]
Rest == [pc |-> "idle", verb |-> "none", asked |-> "flat", seen |-> {}, held |-> NoLease,
         id |-> 0]

LeaseInit ==
    /\ acl \in {{}, {"write"}} /\ lease = NoLease /\ ended = {}
    /\ command = [c \in Call |-> Rest] /\ given = 0 /\ foreign = 0 /\ calm = TRUE

\* lease_expired: a lease for the session never does.
Expired(l) == l.id \in ended
Active(l) == l # NoLease /\ ~l.revoked /\ ~Expired(l)

Turn(c, pc) == command' = [command EXCEPT ![c].pc = pc]
Ends(c) == command' = [command EXCEPT ![c] = Rest]
\* Nothing of the other kind is under way, granting or revoking.
Apart(c, verb) ==
    \A d \in Call \ {c} : command[d].pc = "idle" \/ (command[d].verb = "grant") = (verb = "grant")

-----------------------------------------------------------------------------
(* cmd_grant *)

\* main and parse_args, up to what the command finds of a lease.
Give(c, verb, asked) ==
    /\ command[c].pc = "idle" /\ given < MaxCommands
    /\ given' = given + 1 /\ calm' = (calm /\ Apart(c, verb))
    /\ command' = [command EXCEPT ![c] = [Rest EXCEPT !.pc = "begun", !.verb = verb,
                                          !.asked = asked, !.id = given + 1]]
    /\ UNCHANGED <<acl, lease, ended, foreign>>

\* An active lease is not granted over; one that has expired is.
GrantBegins(c) ==
    /\ command[c].pc = "begun" /\ command[c].verb = "grant"
    /\ IF Active(lease) THEN Ends(c) ELSE Turn(c, "before")
    /\ UNCHANGED <<acl, lease, ended, given, foreign, calm>>

ReadBefore(c) ==
    /\ command[c].pc = "before"
    /\ command' = [command EXCEPT ![c].seen = acl, ![c].pc = "grant"]
    /\ UNCHANGED <<acl, lease, ended, given, foreign, calm>>

\* icacls /grant adds to what the account has; the deep right holds the flat one.
Wider(rights, right) ==
    IF right = "flat" /\ "deep" \in rights THEN rights
    ELSE IF right = "deep" THEN (rights \ {"flat"}) \cup {"deep"} ELSE rights \cup {right}

GrantAce(c) ==
    /\ command[c].pc = "grant" /\ acl' = Wider(acl, command[c].asked)
    /\ Turn(c, "after")
    /\ UNCHANGED <<lease, ended, given, foreign, calm>>

\* An ACL that has not changed is no lease of this command's.
ReadAfter(c) ==
    /\ command[c].pc = "after"
    /\ IF acl = command[c].seen THEN Ends(c) ELSE Turn(c, "write")
    /\ UNCHANGED <<acl, lease, ended, given, foreign, calm>>

WriteLease(c) ==
    /\ command[c].pc = "write" /\ Ends(c)
    /\ lease' = [id |-> command[c].id, right |-> command[c].asked, before |-> command[c].seen,
                 revoked |-> FALSE]
    /\ UNCHANGED <<acl, ended, given, foreign, calm>>

-----------------------------------------------------------------------------
(* cmd_revoke and cmd_sweep *)

\* revoke takes any lease that is not revoked, sweep only one that has expired.
RevokeBegins(c) ==
    /\ command[c].pc = "begun" /\ command[c].verb \in {"revoke", "sweep"}
    /\ IF lease = NoLease \/ lease.revoked \/ (command[c].verb = "sweep" /\ ~Expired(lease))
       THEN Ends(c)
       ELSE command' = [command EXCEPT ![c].held = lease, ![c].pc = "remove"]
    /\ UNCHANGED <<acl, lease, ended, given, foreign, calm>>

\* Mutant: a right that could not be removed is marked as revoked all the same.
RemoveAceOrNot(c) ==
    /\ command[c].pc = "remove" /\ Turn(c, "mark")
    /\ acl' = {} \/ UNCHANGED acl
    /\ UNCHANGED <<lease, ended, given, foreign, calm>>
\* icacls /remove:g takes every right the account was granted, whoever granted it.  When
\* it fails, sweep reports the lease and goes on, revoke ends.
RemoveAce(c) ==
    /\ command[c].pc = "remove"
    /\ \/ acl' = {} /\ Turn(c, "mark")
       \/ Ends(c) /\ UNCHANGED acl
    /\ UNCHANGED <<lease, ended, given, foreign, calm>>

\* The lease as it was read is marked, also when the rights are not those of before it.
Mark(c) ==
    /\ command[c].pc = "mark" /\ Ends(c)
    /\ lease' = [command[c].held EXCEPT !.revoked = TRUE]
    /\ UNCHANGED <<acl, ended, given, foreign, calm>>

-----------------------------------------------------------------------------
(* Time, and others. *)

\* The end of a lease; one for the session has none.
Expire(l) ==
    /\ l \in 1..given /\ l \notin ended /\ l = lease.id
    /\ ended' = ended \cup {l}
    /\ UNCHANGED <<acl, lease, command, given, foreign, calm>>

\* A command is ended before its next step, or what it reads cannot be read.
Cut(c) ==
    /\ command[c].pc # "idle" /\ Ends(c)
    /\ calm' = (calm /\ command[c].pc \notin {"after", "write"})
    /\ UNCHANGED <<acl, lease, ended, given, foreign>>

Foreign(right) ==
    /\ foreign < MaxForeign /\ foreign' = foreign + 1 /\ calm' = (calm /\ right = "write")
    /\ acl' = IF right \in acl THEN acl \ {right} ELSE acl \cup {right}
    /\ UNCHANGED <<lease, ended, command, given>>

LeaseNext ==
    \/ \E c \in Call : \/ \E verb \in {"grant", "revoke", "sweep"}, asked \in {"flat", "deep"} :
                             Give(c, verb, asked)
                       \/ GrantBegins(c) \/ ReadBefore(c) \/ GrantAce(c) \/ ReadAfter(c)
                       \/ WriteLease(c) \/ RevokeBegins(c) \/ RemoveAce(c) \/ Mark(c) \/ Cut(c)
    \/ \E l \in 1..MaxCommands : Expire(l)
    \/ \E right \in Right : Foreign(right)

LeaseSpec == LeaseInit /\ [][LeaseNext]_leaseVars

-----------------------------------------------------------------------------
TypeOK ==
    /\ acl \subseteq Right /\ lease \in Lease /\ ended \subseteq 1..MaxCommands
    /\ \A c \in Call : command[c].pc \in
         {"idle", "begun", "before", "grant", "after", "write", "remove", "mark"}

\* Nothing the tool granted outlives its leases: while no command is under way, a read
\* right on the object has a lease that is not revoked, so that a revoke or a sweep will
\* still take it away - also when a lease was granted over an expired one that was never
\* swept, with another right, by two commands at once, or when a revocation was cut short.
\* What is excepted is what the ghost names.
AccessIsLeased ==
    (calm /\ (\A c \in Call : command[c].pc = "idle") /\ acl \cap {"flat", "deep"} # {})
        => lease # NoLease /\ ~lease.revoked
=============================================================================
