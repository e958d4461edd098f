----------------------------- MODULE MirrorBackup -----------------------------
(***************************************************************************)
(* The backup monitor of the scenarios (scenarios/services/backup/         *)
(* BACKUP.py): every few seconds it hashes the names, times and sizes of a *)
(* folder; when they differ from the hash it holds, it copies the mirror   *)
(* to the next of 50 numbered archives and brings the mirror up to date,   *)
(* file by file.  The folder is edited meanwhile, a file also while it is  *)
(* copied, and a copy can be cut short: the file in the mirror then has    *)
(* the time of the writing, is newer than the one it is a copy of, and is  *)
(* not copied again before that is edited.                                 *)
(*                                                                         *)
(* Abstractions: a file is its time, and no time is given twice, so that   *)
(* two contents of a file with one time and size are left out; an archive  *)
(* is the mirror it is a copy of; a copy that is under way has the time of *)
(* the last edit, which is what the comparison with later ones needs.  The *)
(* music half of the program is not modelled.                              *)
(***************************************************************************)
EXTENDS Integers, FiniteSets, FiniteSetsExt

CONSTANTS
    File,
    Slots,        \* 50: the archive numbers before they start again
    MaxEditTimes, \* bound: edits
    MaxLocks,     \* bound: files that could not be read, archives and copies that failed
    MaxRestarts   \* bound: starts after the first

VARIABLES
    source,       \* file to its time; 0 is no file
    mirror,       \* the times in the mirror
    archive,      \* number to the mirror copied there
    counter,      \* backup_counter
    lastHash,     \* last_hash: what was hashed, or none
    round,        \* the round: [pc, hash, left, seen, open, edited]; `edited` is ghost
    edits, locks, restarts,
    missed        \* ghost: the files that, since they were last edited or copied whole, were
                  \* skipped (by a lock, by a first round that failed), had their copy cut short
                  \* or were edited under it, or were put back with an older time

mirrorVars == <<source, mirror, archive, counter, lastHash, round, edits, locks, restarts,
                missed>>

Tree == [File -> 0..MaxEditTimes]
Empty == [f \in File |-> 0]
Waiting == [pc |-> "wait", hash |-> Empty, left |-> {}, seen |-> {}, open |-> {}, edited |-> FALSE]
Number == 1..Slots

\* _get_next_backup_id: one more than the highest number there is.
NextNumber(a) == IF DOMAIN a = {} THEN 1 ELSE Max(DOMAIN a) + 1

MirrorInit ==
    /\ source \in [File -> {0, 1}] /\ mirror = Empty
    /\ archive = [n \in {} |-> Empty] /\ counter = 1
    /\ lastHash = {} /\ round = Waiting
    /\ edits = 1 /\ locks = 0 /\ restarts = 0 /\ missed = {}

-----------------------------------------------------------------------------
(* One round: check_backup and sync_files. *)

Syncing(h) == [pc |-> "copy", hash |-> h, left |-> File, seen |-> {}, open |-> {}, edited |-> FALSE]

\* hash_directory.  The first round only copies; an unchanged folder ends the round.
Hash ==
    /\ round.pc = "wait"
    /\ round' = IF lastHash = {} THEN Syncing(source)
                ELSE IF source \in lastHash THEN Waiting
                ELSE [Syncing(source) EXCEPT !.pc = "archive"]
    /\ UNCHANGED <<source, mirror, archive, counter, lastHash, edits, locks, restarts, missed>>

Slot == IF counter > Slots THEN 1 ELSE counter
With(a, n, tree) == [m \in DOMAIN a \cup {n} |-> IF m = n THEN tree ELSE a[m]]

\* The old archive of the number goes, the mirror takes its place; a failure is logged, and
\* the round goes on.
Archive ==
    /\ round.pc = "archive" /\ round' = [round EXCEPT !.pc = "copy"]
    /\ \/ /\ archive' = With(archive, Slot, mirror) /\ counter' = Slot + 1
          /\ UNCHANGED locks
       \/ /\ locks < MaxLocks /\ locks' = locks + 1 /\ counter' = Slot
          /\ archive' = [n \in DOMAIN archive \ {Slot} |-> archive[n]]
    /\ UNCHANGED <<source, mirror, lastHash, edits, restarts, missed>>

\* The walk comes to a file; it is not the one that is being copied.
Visits(f) == round.pc = "copy" /\ round.open = {} /\ f \in round.left
Outdated(f) == source[f] # 0 /\ (mirror[f] = 0 \/ source[f] > mirror[f])
Passed(f) == [round EXCEPT !.left = @ \ {f}, !.open = {}, !.edited = FALSE,
                           !.seen = IF source[f] = 0 THEN @ ELSE @ \cup {f}]

\* A file that is not there, or that the mirror has with its time or a newer one, is passed
\* by; one that is locked is skipped.
PassFile(f) ==
    /\ Visits(f) /\ round' = Passed(f)
    /\ \/ ~Outdated(f) /\ UNCHANGED <<locks, missed>>
       \/ Outdated(f) /\ locks < MaxLocks /\ locks' = locks + 1 /\ missed' = missed \cup {f}
    /\ UNCHANGED <<source, mirror, archive, counter, lastHash, edits, restarts>>

\* shutil.copy2 opens the file in the mirror, which empties it, and writes.
OpenFile(f) ==
    /\ Visits(f) /\ Outdated(f)
    /\ round' = [round EXCEPT !.open = {f}, !.seen = @ \cup {f}]
    /\ mirror' = [mirror EXCEPT ![f] = edits] /\ missed' = missed \cup {f}
    /\ UNCHANGED <<source, archive, counter, lastHash, edits, locks, restarts>>

\* Everything is written, and the file gets the time that the source has by now.
CloseFile(f) ==
    /\ f \in round.open /\ source[f] # 0 /\ round' = Passed(f)
    /\ mirror' = [mirror EXCEPT ![f] = source[f]]
    /\ missed' = IF round.edited THEN missed ELSE missed \ {f}
    /\ UNCHANGED <<source, archive, counter, lastHash, edits, locks, restarts>>

\* What a copy that is cut short leaves: the time of its last writing.
CutShort == mirror' \in {mirror} \cup {[mirror EXCEPT ![f] = edits] : f \in round.open}

\* Half of it could not be read, or the source is gone by the time of its times: passed by.
BreakFile(f) ==
    /\ f \in round.open /\ round' = Passed(f) /\ CutShort
    /\ IF source[f] = 0 THEN UNCHANGED locks ELSE locks < MaxLocks /\ locks' = locks + 1
    /\ UNCHANGED <<source, archive, counter, lastHash, edits, restarts, missed>>

\* Mutant: the hash that is remembered is taken when the copying has ended.
SyncEndsHashed ==
    /\ round.pc = "copy" /\ round.left = {} /\ round' = Waiting
    /\ mirror' = [f \in File |-> IF f \in round.seen THEN mirror[f] ELSE 0]
    /\ lastHash' = {source}
    /\ UNCHANGED <<source, archive, counter, edits, locks, restarts, missed>>
\* The files the walk did not meet are removed, and the hash of before the copying is kept.
SyncEnds ==
    /\ round.pc = "copy" /\ round.left = {} /\ round' = Waiting
    /\ mirror' = [f \in File |-> IF f \in round.seen THEN mirror[f] ELSE 0]
    /\ lastHash' = {round.hash}
    /\ UNCHANGED <<source, archive, counter, edits, locks, restarts, missed>>

\* The copying ends in an error, such as a full disk, a copy under way with it: the hash stays
\* what it was, but the first round, which does not look at the outcome, keeps the new one.
SyncFails ==
    /\ round.pc = "copy" /\ locks < MaxLocks /\ locks' = locks + 1 /\ round' = Waiting
    /\ CutShort
    /\ lastHash' = IF lastHash = {} THEN {round.hash} ELSE lastHash
    /\ missed' = IF lastHash = {} THEN missed \cup round.left ELSE missed
    /\ UNCHANGED <<source, archive, counter, edits, restarts>>

-----------------------------------------------------------------------------
\* The owner writes or removes a file, or puts an older one back in its place.
EditFile(f, time) ==
    /\ edits < MaxEditTimes /\ edits' = edits + 1 /\ time # source[f]
    /\ source' = [source EXCEPT ![f] = time]
    /\ round' = IF f \in round.open THEN [round EXCEPT !.edited = TRUE] ELSE round
    /\ missed' = IF time \in 1..edits THEN missed \cup {f}
                 ELSE IF f \in round.open THEN missed ELSE missed \ {f}
    /\ UNCHANGED <<mirror, archive, counter, lastHash, locks, restarts>>

\* The program is ended, at any point, by os._exit within a copy too, and started again.
Restart ==
    /\ restarts < MaxRestarts /\ restarts' = restarts + 1
    /\ CutShort
    /\ round' = Waiting /\ lastHash' = {} /\ counter' = NextNumber(archive)
    /\ UNCHANGED <<source, archive, edits, locks, missed>>

MirrorNext ==
    \/ Hash \/ Archive \/ SyncEnds \/ SyncFails \/ Restart
    \/ \E f \in File :
         \/ PassFile(f) \/ OpenFile(f) \/ CloseFile(f) \/ BreakFile(f)
         \/ \E time \in {0, 1, edits + 1} : EditFile(f, time)

MirrorSpec == MirrorInit /\ [][MirrorNext]_mirrorVars

-----------------------------------------------------------------------------
TypeOK ==
    /\ source \in Tree /\ mirror \in Tree
    /\ DOMAIN archive \subseteq Number /\ counter \in 1..(Slots + 1)
    /\ lastHash \subseteq Tree /\ Cardinality(lastHash) <= 1
    /\ round.pc \in {"wait", "archive", "copy"} /\ Cardinality(round.open) <= 1
    /\ missed \subseteq File

\* When the monitor holds the hash of the folder as it is, so that it would copy nothing
\* more, every file of the folder is in the mirror, whole and as it is in the folder, whatever
\* was edited while it copied - but a file that, since its last edit, was locked, was left by a
\* first round that failed, had its copy cut short or was edited under it, or was put back
\* with an older time.  Each is excepted alone, and until it is edited again: then it is newer
\* than anything in the mirror.  The mirror may hold more: a file that came and went during
\* the copy.
MirrorCatchesUp ==
    (round.pc = "wait" /\ source \in lastHash)
        => \A f \in File \ missed : source[f] # 0 => mirror[f] = source[f]
=============================================================================
