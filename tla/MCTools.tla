-------------------------------- MODULE MCTools -------------------------------
(***************************************************************************)
(* An instance for TLC of the tools around the core: the account relay's   *)
(* log (LogRelay) and its leases (AccessLease), the hooks of the consoles  *)
(* (HookSettings), the mirror (MirrorBackup), the clipboard monitor        *)
(* (ClipboardPlus) and the viewer's stream (LiveStream).  They share no    *)
(* state, so one run takes their disjoint union: the initial state picks   *)
(* the part that moves, and the others rest in their own initial states.   *)
(***************************************************************************)
EXTENDS Naturals

CONSTANTS
    Keep, MaxBytes, MaxUnits, MaxChanges, MaxFaults, MaxStarts,                  \* LogRelay
    Call, MaxLeaseCommands, MaxForeign,                                          \* AccessLease
    Console, MaxGroups, MaxHooks, MaxTouches, MaxTurns,                          \* HookSettings
    File, Slots, MaxEditTimes, MaxLocks, MaxRestarts,                            \* MirrorBackup
    Photo, Note, MaxHashes, MaxCopies, MaxSafe, MaxTrouble, MaxSaves, MaxRuns,   \* ClipboardPlus
    Url, Budget, MaxTexts, MaxLength, MaxMessages, MaxDials, MaxCommands         \* LiveStream

\* A number of units, so that a marker is none of them.
ASSUME ToolConstants == MaxUnits \in Nat

VARIABLES
    part,
    src, units, ends, staged, hist, unsaved, lease, disk, runner, changes, faults, starts, blind,
    acl, granted, ended, command, given, foreign, calm,
    expects, groups, whole, job, touches, turns, theirs, crossed,
    source, mirror, archive, counter, lastHash, round, edits, locks, restarts, missed,
    clip, usable, files, options, unread, life, stop, mon, eye, main, safes, hand, used,
    running, url, chosen, wire, reply, alive, timer, backoff, dials, commands, message, parts,
    total, truncated, server, got

logVars == <<src, units, ends, staged, hist, unsaved, lease, disk, runner, changes, faults, starts,
             blind>>
leaseVars == <<acl, granted, ended, command, given, foreign, calm>>
hookVars == <<expects, groups, whole, job, touches, turns, theirs, crossed>>
mirrorVars == <<source, mirror, archive, counter, lastHash, round, edits, locks, restarts, missed>>
clipVars == <<clip, usable, files, options, unread, life, stop, mon, eye, main, safes, hand, used>>
streamVars == <<running, url, chosen, wire, reply, alive, timer, backoff, dials, commands,
                message, parts, total, truncated, server, got>>

R == INSTANCE LogRelay
A == INSTANCE AccessLease WITH lease <- granted, MaxCommands <- MaxLeaseCommands
H == INSTANCE HookSettings
M == INSTANCE MirrorBackup
C == INSTANCE ClipboardPlus WITH hist <- safes
L == INSTANCE LiveStream

\* The resting parts' only choices of an initial state.
Resting ==
    /\ part # "lease" => acl = {}
    /\ part # "hooks" => expects = "none" /\ groups = <<>>
    /\ part # "mirror" => source = [f \in File |-> 0]
    /\ part # "stream" => url = L!None

AllInit ==
    /\ part \in {"log", "lease", "hooks", "mirror", "clip", "stream"}
    /\ R!Init /\ A!LeaseInit /\ H!HookInit /\ M!MirrorInit /\ C!Init /\ L!StreamInit
    /\ Resting

AllNext ==
    /\ UNCHANGED part
    /\ \/ part = "log" /\ R!Next
          /\ UNCHANGED <<leaseVars, hookVars, mirrorVars, clipVars, streamVars>>
       \/ part = "lease" /\ A!LeaseNext
          /\ UNCHANGED <<logVars, hookVars, mirrorVars, clipVars, streamVars>>
       \/ part = "hooks" /\ H!HookNext
          /\ UNCHANGED <<logVars, leaseVars, mirrorVars, clipVars, streamVars>>
       \/ part = "mirror" /\ M!MirrorNext
          /\ UNCHANGED <<logVars, leaseVars, hookVars, clipVars, streamVars>>
       \/ part = "clip" /\ C!Next
          /\ UNCHANGED <<logVars, leaseVars, hookVars, mirrorVars, streamVars>>
       \/ part = "stream" /\ L!StreamNext
          /\ UNCHANGED <<logVars, leaseVars, hookVars, mirrorVars, clipVars>>

AllSpec ==
    AllInit /\ [][AllNext]_<<part, logVars, leaseVars, hookVars, mirrorVars, clipVars, streamVars>>

\* LogRelay: what stands side by side in the staged stream was written side by side.
NoSilentGap == part = "log" => R!NoSilentGap
\* AccessLease: a granted right has a lease that is not revoked.
AccessIsLeased == part = "lease" => A!AccessIsLeased
\* HookSettings: the hooks of others stay as their owners left them.
TheirsStay == part = "hooks" => H!TheirsStay
\* MirrorBackup: a mirror that is held for done has every file of the folder.
MirrorCatchesUp == part = "mirror" => M!MirrorCatchesUp
\* ClipboardPlus: what it puts on the clipboard itself is not saved as a new picture.
OwnIsNotSaved == part = "clip" => C!OwnIsNotSaved
\* LiveStream: one stream, and never none for good.
OneStream == part = "stream" => L!OneStream
=============================================================================
