------------------------------ MODULE MCSweeps ------------------------------
(***************************************************************************)
(* Instances for TLC of the programs that sweep a machine and take things  *)
(* away: the junk sweep (JunkSweep), the removal of duplicates             *)
(* (DuplicateSweep) and the watcher of processes (SpinWatch).  They share  *)
(* no state, so a specification takes their disjoint union: the initial    *)
(* state picks the part that moves, and the others rest.                   *)
(***************************************************************************)
EXTENDS JunkSweep, TLC

CONSTANTS disks, folder, diskC, diskD, folderF, aFile, aTree, aLeaf, aLog,
          Path, Content, Orders, NoFile, MaxDupEdits,                \* DuplicateSweep
          Pid, Caller, RequiredHits, HotSpan, StaleGap, Timeout, Life, Reminder,
          MaxTime, MaxSweeps, MaxCalls, MaxSpinFaults                \* SpinWatch

VARIABLES
    part,
    names, data, sweep, dupEdits,
    now, proc, streaks, damaged, ledger, audit, lease, registry, call, w,
    seen, told, dead, held, calls, sweeps, spinFaults

junkVars == vars
dupVars == <<names, data, sweep, dupEdits>>
spinVars == <<now, proc, streaks, damaged, ledger, audit, lease, registry, call, w,
              seen, told, dead, held, calls, sweeps, spinFaults>>

D == INSTANCE DuplicateSweep WITH
        Order <- Orders, None <- NoFile, MaxEdits <- MaxDupEdits,
        file <- names, edits <- dupEdits
W == INSTANCE SpinWatch WITH MaxFaults <- MaxSpinFaults, faults <- spinFaults

\* What is not a file is no identity of one, and the sweeps meet names of the tree.
ASSUME DuplicateConstants ==
    /\ NoFile \notin Path /\ NoFile \notin D!FileId /\ Content # {}
    /\ \A s \in DOMAIN Orders : \A k \in DOMAIN Orders[s] : Orders[s][k] \in Path

\* Thresholds and times are positive.
ASSUME SpinConstants == W!SpinAssumption

\* The initial states, of which the resting parts have one.
AllInit ==
    /\ Init /\ D!Init /\ W!Init
    /\ part # "dups" => \A x \in Path : names[x] = 1
    /\ part # "spin" => \A p \in Pid : ~proc[p].live

AllNext ==
    /\ UNCHANGED part
    /\ \/ part = "junk" /\ Next /\ UNCHANGED <<dupVars, spinVars>>
       \/ part = "dups" /\ D!Next /\ UNCHANGED <<junkVars, spinVars>>
       \/ part = "spin" /\ W!Next /\ UNCHANGED <<junkVars, dupVars>>

AllSpec == AllInit /\ [][AllNext]_<<part, junkVars, dupVars, spinVars>>

InitJunk == part = "junk" /\ AllInit
InitOther == part \in {"dups", "spin"} /\ AllInit

JunkSpec == InitJunk /\ [][AllNext]_<<part, junkVars, dupVars, spinVars>>
OtherSpec == InitOther /\ [][AllNext]_<<part, junkVars, dupVars, spinVars>>

\* A sweep of two disks and a run over a folder on the second: a tree with up to
\* two nodes on the first disk, a file in the folder.
MCRuns == {disks, folder}
MCStreaming == {disks}
MCTargets == [r \in {disks, folder} |-> IF r = disks THEN <<diskC, diskD>> ELSE <<folderF>>]
MCInside == {<<folderF, diskD>>}
MCItems == [s \in {diskC, diskD, folderF} |-> IF s = diskC THEN <<aTree>> ELSE <<aFile>>]
MCInner == [i \in {aFile, aTree} |-> IF i = aTree THEN {aLeaf, aLog} ELSE {}]
MCPrecious == {aLog}

\* Two sweeps for duplicates, of which the second begins with the last name of the first.
MCOrders == [s |-> <<"p", "q", "r">>, t |-> <<"r", "p", "q">>]

\* DuplicateSweep: nothing a sweep does takes the last copy of a content.
LastCopyStays == [][D!SweepKeeps]_dupVars

\* SpinWatch: a streak on disk is what was seen of that very process.
StreakIsTrue == W!StreakIsTrue

Alike == Permutations(Caller)
=============================================================================
