----------------------------- MODULE ClipboardPlus ----------------------------
(***************************************************************************)
(* Clipboard+, the resident beside the message queue that watches the      *)
(* Windows clipboard (saipatch/clipboard+.pyw).                            *)
(*                                                                         *)
(* Its monitor thread polls the clipboard's sequence number; a new picture *)
(* is saved to a folder, and put back on the clipboard in formats every    *)
(* program pastes.  What cannot be saved is held in memory, one picture at *)
(* most, for when the folder is back.  Safe Copy, asked for by a hotkey,   *)
(* by the control channel or by a process of its own, replaces a text by   *)
(* one without its tracking and its secrets, and holds the original for a  *)
(* while.  The main thread waits for a stop, and applies settings saved by *)
(* the dialog.                                                             *)
(*                                                                         *)
(* The threads share the number the monitor saw last and a flag that makes *)
(* it look away, without a lock: a number is read in one step and stored   *)
(* in a later one.  The end of a process and the end of its mutex are one  *)
(* step.                                                                   *)
(* Status, hotkeys and wording are left out; sanitizing is what it makes   *)
(* of a text, dirty or safe.                                               *)
(***************************************************************************)
EXTENDS Naturals, Sequences, SequencesExt

CONSTANTS
    Photo,        \* pictures
    Note,         \* texts that Safe Copy would change
    MaxHashes,    \* MAX_DEDUP_HASHES, and the newest files a start looks at
    MaxCopies,    \* bound: what people and programs put on the clipboard
    MaxSafe,      \* bound: calls of Safe Copy and Restore
    MaxTrouble,   \* bound: folders lost or found, clipboards that cannot be opened
    MaxSaves,     \* bound: settings saved
    MaxRuns       \* bound: residents started

VARIABLES
    clip,         \* the clipboard: [seq, item]
    usable,       \* the folders that can be written
    files,        \* the files saved: [where, data], in order
    options,      \* the settings file: [path, fallback]
    unread,       \* its stamp is not the one the main thread saw
    life,         \* the resident: down, up, or stopping
    stop,         \* its stop event is signalled
    mon,          \* LightweightClipboardMonitor
    eye,          \* the monitor's thread: [pc, cur, data]
    main,         \* a retry of the main thread: [pc, cur, data]
    hist,         \* GLOBAL_HISTORY: the original text, if any
    hand,         \* the callers of Safe Copy: [pc, item, seq]
    used          \* what has been used of the bounds

vars == <<clip, usable, files, options, unread, life, stop, mon, eye, main, hist, hand, used>>

Folder == {"chosen", "other", "spare"}
Spare == "spare"              \* the fallback folder
Nothing == <<"none", "">>
\* A picture somebody put there, one of its own, or one of its own whose number is not
\* remembered: it was never noted, or an older one was stored over it.
Picture(item) == item[1] \in {"image", "own", "stray"}
Item == {Nothing} \cup ({"image", "own", "stray"} \X Photo) \cup ({"dirty", "safe"} \X Note)
Quiet == [pc |-> "idle", cur |-> 0, data |-> Nothing]
Caller == {"hotkey", "control", "once"}
Free == [pc |-> "idle", item |-> Nothing, seq |-> 0]

Spend(what) == used' = [used EXCEPT ![what] = @ + 1]
Left(what) == used[what] < CASE what = "copies" -> MaxCopies [] what = "safe" -> MaxSafe
                             [] what = "trouble" -> MaxTrouble [] what = "saves" -> MaxSaves
                             [] what = "runs" -> MaxRuns
\* A call that may fail: it succeeds, or the trouble is counted.
Fails(failing) == IF failing THEN Left("trouble") /\ Spend("trouble") ELSE UNCHANGED used

world == <<usable, options, unread, life, stop>>

-----------------------------------------------------------------------------
(* The monitor's memory. *)

\* BoundedHashSet.add
Add(hashes, d) ==
    LET all == Append(SelectSeq(hashes, LAMBDA h : h # d), d)
    IN IF Len(all) > MaxHashes THEN Tail(all) ELSE all

\* _prepare_save_path: the folder of the settings, or the fallback if it is enabled.
Prepared(m) ==
    IF m.path \in usable THEN [m EXCEPT !.eff = m.path, !.ok = TRUE]
    ELSE IF m.fallback /\ Spare \in usable THEN [m EXCEPT !.eff = Spare, !.ok = TRUE]
    ELSE [m EXCEPT !.eff = "", !.ok = FALSE]

\* save_image_file writes to the folder last found, or else to the one of the settings.
Target(m) == IF m.eff # "" THEN m.eff ELSE m.path

\* load_existing_hashes: what the newest files of the folder hold.
Known(where) ==
    LET here == SelectSeq(files, LAMBDA f : f.where = where)
        from == IF Len(here) > MaxHashes THEN Len(here) - MaxHashes + 1 ELSE 1
        hold[i \in 0..Len(here)] ==
            IF i < from THEN <<>> ELSE Add(hold[i - 1], here[i].data)
    IN hold[Len(here)]

NewMonitor(o) ==
    LET m == Prepared([path |-> o.path, fallback |-> o.fallback, eff |-> "", ok |-> FALSE,
                       hashes |-> <<>>, pending |-> <<>>, last |-> clip.seq,
                       ignore |-> FALSE, timer |-> FALSE])
    IN IF m.eff = "" THEN m ELSE [m EXCEPT !.hashes = Known(m.eff)]

Init ==
    /\ clip = [seq |-> 0, item |-> Nothing]
    /\ usable = Folder /\ files = <<>>
    /\ options = [path |-> "chosen", fallback |-> FALSE] /\ unread = FALSE
    /\ life = "down" /\ stop = FALSE
    /\ mon = [path |-> "chosen", fallback |-> FALSE, eff |-> "", ok |-> FALSE, hashes |-> <<>>,
              pending |-> <<>>, last |-> 0, ignore |-> FALSE, timer |-> FALSE]
    /\ eye = Quiet /\ main = Quiet /\ hist = <<>>
    /\ hand = [c \in Caller |-> Free]
    /\ used = [w \in {"copies", "safe", "trouble", "saves", "runs"} |-> 0]

-----------------------------------------------------------------------------
(* The monitor's thread: process_clipboard. *)

Alive == life \in {"up", "stopping"}

\* It looks away, or goes on; a picture that is held is tried again first.
Poll ==
    /\ life = "up" /\ eye.pc = "idle" /\ ~mon.ignore
    /\ \E due \in BOOLEAN :
         LET m == IF mon.pending # <<>> /\ ~mon.ok /\ due THEN Prepared(mon) ELSE mon
         IN /\ mon' = m
            /\ eye' = IF m.pending # <<>> /\ m.ok
                      THEN [Quiet EXCEPT !.pc = "retry", !.data = m.pending[1]]
                      ELSE [Quiet EXCEPT !.pc = "look"]
    /\ UNCHANGED <<clip, files, world, main, hist, hand, used>>

\* The second half of _retry_pending_save, by the monitor's thread or the main one.
Retried(data, m) ==
    IF Target(m) \in usable
    THEN /\ files' = Append(files, [where |-> Target(m), data |-> data])
         /\ mon' = [m EXCEPT !.ok = TRUE, !.pending = <<>>, !.hashes = Add(@, data)]
    ELSE mon' = [m EXCEPT !.ok = FALSE] /\ UNCHANGED files

Retry ==
    /\ Alive /\ eye.pc = "retry" /\ Retried(eye.data, mon)
    /\ eye' = [Quiet EXCEPT !.pc = "look"]
    /\ UNCHANGED <<clip, world, main, hist, hand, used>>

Look ==
    /\ Alive /\ eye.pc = "look"
    /\ eye' = IF clip.seq = mon.last THEN Quiet
              ELSE [Quiet EXCEPT !.pc = "grab", !.cur = clip.seq]
    /\ UNCHANGED <<clip, files, world, mon, main, hist, hand, used>>

\* What is on the clipboard by now: no picture, one already saved, or a new one.
Grab ==
    /\ Alive /\ eye.pc = "grab"
    /\ IF Picture(clip.item) /\ ~Contains(mon.hashes, clip.item)
       THEN eye' = [eye EXCEPT !.pc = "save", !.data = clip.item] /\ UNCHANGED mon
       ELSE eye' = Quiet /\ mon' = [mon EXCEPT !.last = eye.cur]
    /\ UNCHANGED <<clip, files, world, main, hist, hand, used>>

Save ==
    /\ Alive /\ eye.pc = "save"
    /\ IF Target(mon) \in usable
       THEN /\ files' = Append(files, [where |-> Target(mon), data |-> eye.data])
            /\ mon' = [mon EXCEPT !.ok = TRUE, !.hashes = Add(@, eye.data)]
            /\ eye' = [eye EXCEPT !.pc = "put"]
       ELSE /\ mon' = [mon EXCEPT !.ok = FALSE, !.last = eye.cur, !.pending = <<eye.data>>]
            /\ eye' = Quiet /\ UNCHANGED files
    /\ UNCHANGED <<clip, world, main, hist, hand, used>>

\* set_image_to_clipboard: the clipboard cannot be opened, or cannot be emptied and the
\* flag is set for half a second, or it is written; then it may fail to close, and its
\* number is not noted.
Put ==
    /\ Alive /\ eye.pc = "put"
    /\ \/ Fails(TRUE) /\ eye' = Quiet /\ UNCHANGED <<clip, mon>>
       \/ /\ Fails(TRUE) /\ eye' = Quiet
          /\ mon' = [mon EXCEPT !.ignore = TRUE, !.timer = TRUE] /\ UNCHANGED clip
       \/ /\ Fails(TRUE) /\ eye' = Quiet
          /\ clip' = [seq |-> clip.seq + 1, item |-> <<"stray", eye.data[2]>>]
          /\ mon' = [mon EXCEPT !.ignore = TRUE, !.timer = TRUE]
       \/ /\ Fails(FALSE)
          /\ clip' = [seq |-> clip.seq + 1, item |-> <<"own", eye.data[2]>>]
          /\ mon' = [mon EXCEPT !.ignore = TRUE] /\ eye' = [eye EXCEPT !.pc = "stamp"]
    /\ UNCHANGED <<files, world, main, hist, hand>>

\* Mutant: the number remembered is the one read before the clipboard was written.
StampEarly ==
    /\ Alive /\ eye.pc = "stamp" /\ eye' = [eye EXCEPT !.pc = "note"]
    /\ UNCHANGED <<clip, files, world, mon, main, hist, hand, used>>
\* The number is read after the writing.
Stamp ==
    /\ Alive /\ eye.pc = "stamp" /\ eye' = [eye EXCEPT !.pc = "note", !.cur = clip.seq]
    /\ UNCHANGED <<clip, files, world, mon, main, hist, hand, used>>

\* And stored.
Remember ==
    /\ Alive /\ eye.pc = "note"
    /\ mon' = [mon EXCEPT !.last = eye.cur, !.timer = TRUE] /\ eye' = Quiet
    /\ UNCHANGED <<clip, files, world, main, hist, hand, used>>

\* reset_flag, half a second later
ResetFlag ==
    /\ Alive /\ mon.timer /\ mon' = [mon EXCEPT !.timer = FALSE, !.ignore = FALSE]
    /\ UNCHANGED <<clip, files, world, eye, main, hist, hand, used>>

-----------------------------------------------------------------------------
(* Safe Copy and Restore. *)

Serves(c) == IF c = "once" THEN TRUE ELSE Alive

\* get_clipboard_text: a text, and not one beside files, which Clipboard+'s own writing has.
ReadText(c) ==
    /\ Serves(c) /\ hand[c].pc = "idle" /\ Left("safe") /\ Spend("safe")
    /\ clip.item[1] = "dirty"
    /\ hand' = [hand EXCEPT ![c] = [Free EXCEPT !.pc = "store", !.item = clip.item]]
    /\ UNCHANGED <<clip, files, world, mon, eye, main, hist>>

\* The original is held by the resident; a process of its own takes it along.
Store(c) ==
    /\ hand[c].pc = "store"
    /\ IF c = "once" THEN UNCHANGED <<hist, mon>>
       ELSE hist' = <<hand[c].item>> /\ mon' = [mon EXCEPT !.ignore = TRUE]
    /\ hand' = [hand EXCEPT ![c].pc = "write", ![c].item = <<"safe", hand[c].item[2]>>]
    /\ UNCHANGED <<clip, files, world, eye, main, used>>

\* restore_last_safe_copy: the text is given up, whether or not it is too old.
Retrieve ==
    /\ Alive /\ hand["control"].pc = "idle" /\ Left("safe") /\ Spend("safe")
    /\ hist # <<>> /\ hist' = <<>>
    /\ \/ UNCHANGED <<mon, hand>>
       \/ /\ mon' = [mon EXCEPT !.ignore = TRUE]
          /\ hand' = [hand EXCEPT !["control"] = [Free EXCEPT !.pc = "write", !.item = hist[1]]]
    /\ UNCHANGED <<clip, files, world, eye, main>>

\* set_clipboard_text
WriteText(c) ==
    /\ hand[c].pc = "write"
    /\ \/ Fails(TRUE) /\ UNCHANGED clip
       \/ Fails(FALSE) /\ clip' = [seq |-> clip.seq + 1, item |-> hand[c].item]
    /\ hand' = [hand EXCEPT ![c] = IF c = "once" THEN Free ELSE [@ EXCEPT !.pc = "stamp"]]
    /\ UNCHANGED <<files, world, mon, eye, main, hist>>

\* The number is read by the caller's thread,
StampText(c) ==
    /\ hand[c].pc = "stamp"
    /\ hand' = [hand EXCEPT ![c].pc = "note", ![c].seq = clip.seq]
    /\ UNCHANGED <<clip, files, world, mon, eye, main, hist, used>>

\* Ghost: the picture its own monitor has noted is on the clipboard, under another number.
Overtaken(seq) == clip.item[1] = "own" /\ eye.pc \notin {"stamp", "note"} /\ seq # clip.seq

\* and stored, whatever was put on the clipboard and noted in between.
RememberText(c) ==
    /\ hand[c].pc = "note" /\ hand' = [hand EXCEPT ![c] = Free]
    /\ mon' = [mon EXCEPT !.last = hand[c].seq]
    /\ clip' = IF Overtaken(hand[c].seq) THEN [clip EXCEPT !.item = <<"stray", clip.item[2]>>]
               ELSE clip
    /\ UNCHANGED <<files, world, eye, main, hist, used>>

-----------------------------------------------------------------------------
(* The resident: run_resident. *)

\* The mutex and the stop event are this process's; the monitor begins with what is on
\* the clipboard behind it.  A second start finds the mutex and leaves.
Start ==
    /\ life = "down" /\ Left("runs") /\ Spend("runs")
    /\ life' = "up" /\ stop' = FALSE /\ unread' = FALSE
    /\ mon' = NewMonitor(options)
    /\ UNCHANGED <<clip, usable, files, options, eye, main, hist, hand>>

\* reload_settings: the folder is prepared again only when the settings name another.
Reload ==
    /\ life = "up" /\ main.pc = "idle" /\ unread /\ unread' = FALSE
    /\ LET m == [mon EXCEPT !.fallback = options.fallback]
           n == IF options.path = m.path THEN m ELSE Prepared([m EXCEPT !.path = options.path])
       IN /\ mon' = n
          /\ main' = IF options.path # m.path /\ n.ok /\ n.pending # <<>>
                     THEN [Quiet EXCEPT !.pc = "retry", !.data = n.pending[1]] ELSE main
    /\ UNCHANGED <<clip, usable, files, options, life, stop, eye, hist, hand, used>>

MainRetry ==
    /\ Alive /\ main.pc = "retry" /\ main' = Quiet /\ Retried(main.data, mon)
    /\ UNCHANGED <<clip, world, eye, hist, hand, used>>

\* cmd_stop, while the event is there to be signalled
SignalStop ==
    /\ life = "up" /\ ~stop /\ stop' = TRUE
    /\ UNCHANGED <<clip, usable, files, options, unread, life, mon, eye, main, hist, hand, used>>

\* The main thread wakes: the hotkey's thread is waited for, the monitor is told.
Notice ==
    /\ life = "up" /\ stop /\ main.pc = "idle" /\ life' = "stopping"
    /\ UNCHANGED <<clip, usable, files, options, unread, stop, mon, eye, main, hist, hand, used>>

\* The process ends, after its cleaning up or without it, and its threads and memory with it.
End ==
    /\ Alive /\ (life = "up" => Left("trouble"))
    /\ IF life = "up" THEN Spend("trouble") ELSE UNCHANGED used
    /\ life' = "down" /\ stop' = FALSE
    /\ eye' = Quiet /\ main' = Quiet /\ hist' = <<>>
    /\ hand' = [c \in Caller |-> IF c = "once" THEN hand[c] ELSE Free]
    /\ mon' = [mon EXCEPT !.pending = <<>>, !.hashes = <<>>, !.ignore = FALSE, !.timer = FALSE,
                          !.eff = "", !.ok = FALSE]
    /\ UNCHANGED <<clip, usable, files, options, unread>>

-----------------------------------------------------------------------------
(* People, programs and disks. *)

Copy(item) ==
    /\ Left("copies") /\ Spend("copies") /\ clip' = [seq |-> clip.seq + 1, item |-> item]
    /\ UNCHANGED <<files, world, mon, eye, main, hist, hand>>

FolderTurns(d) ==
    /\ Left("trouble") /\ Spend("trouble")
    /\ usable' = IF d \in usable THEN usable \ {d} ELSE usable \cup {d}
    /\ UNCHANGED <<clip, files, options, unread, life, stop, mon, eye, main, hist, hand>>

\* do_save and do_reset of the settings' dialog: the file, and then word to the resident.
SaveOptions(path, fallback) ==
    /\ Left("saves") /\ Spend("saves")
    /\ options' = [path |-> path, fallback |-> fallback] /\ unread' = TRUE
    /\ UNCHANGED <<clip, usable, files, life, stop, mon, eye, main, hist, hand>>

Next ==
    \/ Poll \/ Retry \/ Look \/ Grab \/ Save \/ Put \/ Stamp \/ Remember \/ ResetFlag
    \/ \E c \in Caller :
         ReadText(c) \/ Store(c) \/ WriteText(c) \/ StampText(c) \/ RememberText(c)
    \/ Retrieve
    \/ Start \/ Reload \/ MainRetry \/ SignalStop \/ Notice \/ End
    \/ \E item \in ({"image"} \X Photo) \cup ({"dirty"} \X Note) : Copy(item)
    \/ \E d \in Folder : FolderTurns(d)
    \/ \E path \in {"chosen", "other"}, fallback \in BOOLEAN : SaveOptions(path, fallback)

Spec == Init /\ [][Next]_vars

-----------------------------------------------------------------------------
TypeOK ==
    /\ clip.item \in Item /\ usable \subseteq Folder
    /\ \A i \in DOMAIN files : files[i].where \in Folder
    /\ life \in {"down", "up", "stopping"} /\ stop \in BOOLEAN /\ unread \in BOOLEAN
    /\ mon.pending \in BoundedSeq(Item, 1) /\ Len(mon.hashes) <= MaxHashes
    /\ eye.pc \in {"idle", "retry", "look", "grab", "save", "put", "stamp", "note"}
    /\ main.pc \in {"idle", "retry"} /\ Len(hist) <= 1
    /\ \A c \in Caller : hand[c].pc \in {"idle", "store", "write", "stamp", "note"}

\* A picture that Clipboard+ put on the clipboard itself and whose number it has noted is
\* never taken for a new one: it would be saved a second time as another file, and put back
\* again.  Its hash is another, and the flag lasts half a second; only the number that is
\* read after the writing and stored keeps the monitor from it.  Two things undo that, and
\* make the picture a stray one: a clipboard that does not close, and a number that Safe Copy
\* read before and stores after.
OwnIsNotSaved == \A i \in DOMAIN files : files[i].data[1] # "own"
=============================================================================
