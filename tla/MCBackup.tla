------------------------------ MODULE MCBackup ------------------------------
(***************************************************************************)
(* Instances for TLC of the backups: the files of the archive              *)
(* (BackupStore) and who publishes when (BackupPublisher).  They share no  *)
(* state, and each has a specification in which the other rests.           *)
(***************************************************************************)
EXTENDS BackupStore, TLC

CONSTANTS Threads, Keys, NoKey, NoRequest, NoThread              \* BackupPublisher
VARIABLES mounted, state, pending, token, worker, thread, broker, live, dropped, torn

P == INSTANCE BackupPublisher

archiveVars == vars
publisherVars == <<mounted, state, pending, token, worker, thread, broker, live, dropped, torn>>

ASSUME PublisherConstants == P!Distinct

BothInit == Init /\ P!Init
StoreSpec == BothInit /\ [][Next /\ UNCHANGED publisherVars]_<<archiveVars, publisherVars>>
PublisherSpec ==
    /\ BothInit /\ [][P!Next /\ UNCHANGED archiveVars]_<<archiveVars, publisherVars>>
    /\ P!Fairness

PublisherSymmetry == Permutations(Publishers)

\* BackupPublisher: no publication signs with a key that was wiped under it.
KeyInUseIsLive == P!KeyInUseIsLive

\* BackupPublisher: a thread that shows PUBLISHING says how it ended, unless it could
\* not ask for the state.
PublishingEnds == P!PublishingEnds
=============================================================================
