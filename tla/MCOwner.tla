-------------------------------- MODULE MCOwner -------------------------------
(***************************************************************************)
(* An instance for TLC of what the owner meets: the keys of a vault        *)
(* (VaultKeys), an unlock with the keys in hand (KeyUnlock), the rounds    *)
(* between the window and its workers (WindowRounds), the processes of a   *)
(* protected application (ProcessFamily) and the import of an application  *)
(* into managed storage (AppImport).  They share no state, so one run      *)
(* takes their disjoint union: the initial state picks the part that       *)
(* moves, and the others rest in their own initial states.                 *)
(***************************************************************************)
EXTENDS VaultKeys, ProcessFamily

CONSTANTS
    Key, Cred, Salt, FirstRows, FirstHeld, MaxTries, MaxPulls, MaxCalls, \* KeyUnlock
    MaxAsked, MaxQueue,                                                  \* WindowRounds
    Imports, MaxActive, MaxMisses                                        \* AppImport

\* The owner's keys and the vault's salts are finitely many, and what is enrolled is an
\* enrolment; so are the imports.
ASSUME OwnerConstants ==
    /\ IsFiniteSet(Key) /\ IsFiniteSet(Salt) /\ IsFiniteSet(Imports)
    /\ FirstHeld \in [Key -> SUBSET Cred]
    /\ FirstRows \subseteq [cred : Cred, gen : {1, 2}, salt : Salt]
    /\ MaxTries \in Nat /\ MaxAsked \in Nat

VARIABLES
    part,
    transport, plugged, tries, held, rows, call, pulls, calls, owner, cut,
    hasBroker, requests, serving, mail, pending, coalesced, asker, slot, waiting, cancelled,
    closing, dialogs, stuck, taken,
    app, staging, previous, import, misses, had, overlapped

keyVars == vars
unlockVars == <<transport, plugged, tries, held, rows, call, pulls, calls, owner, cut>>
roundVars == <<hasBroker, requests, serving, mail, pending, coalesced, asker, slot, waiting,
               cancelled, closing, dialogs, stuck, taken>>
importVars == <<app, staging, previous, import, misses, had, overlapped>>

U == INSTANCE KeyUnlock
W == INSTANCE WindowRounds
I == INSTANCE AppImport WITH faults <- misses, MaxFaults <- MaxMisses

AllInit ==
    /\ part \in {"keys", "unlock", "rounds", "family", "import"}
    /\ Init /\ U!Init /\ W!Init /\ FamilyInit /\ I!Init
    /\ part # "unlock" => transport = "direct" /\ plugged = {}
    /\ part # "rounds" => hasBroker
    /\ part # "import" => ~app.there

AllNext ==
    /\ UNCHANGED part
    /\ \/ part = "keys" /\ Next /\ UNCHANGED <<unlockVars, roundVars, familyVars, importVars>>
       \/ part = "unlock" /\ U!Next /\ UNCHANGED <<keyVars, roundVars, familyVars, importVars>>
       \/ part = "rounds" /\ W!Next /\ UNCHANGED <<keyVars, unlockVars, familyVars, importVars>>
       \/ part = "family" /\ FamilyNext /\ UNCHANGED <<keyVars, unlockVars, roundVars, importVars>>
       \/ part = "import" /\ I!Next /\ UNCHANGED <<keyVars, unlockVars, roundVars, familyVars>>

AllSpec ==
    AllInit /\ [][AllNext]_<<part, keyVars, unlockVars, roundVars, familyVars, importVars>>

\* Two keys: one has an old and a current credential, the other a current one.
MCRows == {[cred |-> "c1", gen |-> 2, salt |-> "s1"], [cred |-> "c2", gen |-> 2, salt |-> "s2"],
           [cred |-> "c0", gen |-> 1, salt |-> "s1"]}
MCHeld == [k \in Key |-> IF k = "k1" THEN {"c1"} ELSE {"c2", "c0"}]

\* KeyUnlock: whoever has a key that opens the vault, and does what is asked, gets in,
\* unless half an answer of another key came first or the keys could not be listed.
WillingOwnerGetsIn == part = "unlock" => U!WillingOwnerGetsIn
\* WindowRounds: what the owner answers is taken for the question he saw.
ApprovalIsForThisQuestion == part = "rounds" => W!ApprovalIsForThisQuestion
\* AppImport: an application that has been whole is whole somewhere.
KnownGoodStays == part = "import" => I!KnownGoodStays
=============================================================================
