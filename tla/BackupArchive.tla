--------------------------- MODULE BackupArchive ---------------------------
(***************************************************************************)
(* What a directory of encrypted backups promises, whatever file operations *)
(* it is made of (sa_backup.publish_backup, sa_future_gates): a generation   *)
(* appears in one step, whole and verified; only decay makes it stop         *)
(* verifying; what verifies later is what was published; and CURRENT selects *)
(* nothing but a published generation.  BackupStore implements this.         *)
(***************************************************************************)
EXTENDS Naturals

CONSTANTS
    Generations,  \* generation directories ever created
    NoGeneration, \* CURRENT does not exist; no generation
    Payloads,     \* contents the container has had
    NoPayload     \* nothing; no payload

VARIABLES
    published, \* what each generation was published with
    good,      \* what each generation verifies as, NoPayload if it does not
    selected   \* what CURRENT names

archive == <<published, good, selected>>

Init ==
    /\ published = [g \in Generations |-> NoPayload]
    /\ good = published
    /\ selected = NoGeneration

\* A whole generation appears, decayed at the worst since it was verified;
\* nothing else changes.
Publish(g, p) ==
    /\ published[g] = NoPayload
    /\ published' = [published EXCEPT ![g] = p]
    /\ \E seen \in {p, NoPayload} : good' = [good EXCEPT ![g] = seen]
    /\ UNCHANGED selected

\* A file of a generation is damaged or moved away with its generation.
Decay(g) ==
    /\ good[g] # NoPayload
    /\ good' = [good EXCEPT ![g] = NoPayload]
    /\ UNCHANGED <<published, selected>>

\* A sidecar is rebuilt around the payload that was published.
Attest(g) ==
    /\ good[g] = NoPayload /\ published[g] # NoPayload
    /\ good' = [good EXCEPT ![g] = published[g]]
    /\ UNCHANGED <<published, selected>>

\* CURRENT is replaced.
Select(g) ==
    /\ published[g] # NoPayload
    /\ selected' = g
    /\ UNCHANGED <<published, good>>

Next ==
    \E g \in Generations :
        \/ \E p \in Payloads : Publish(g, p)
        \/ Decay(g)
        \/ Attest(g)
        \/ Select(g)

Spec == Init /\ [][Next]_archive
=============================================================================
