---------------------------- MODULE DuplicateSweep ----------------------------
(***************************************************************************)
(* The removal of duplicate files (Scripts/DEL_DUP.PYW) through verified   *)
(* handles (Scripts/verified_file.py).                                     *)
(*                                                                         *)
(* A sweep hashes the files it finds, keeps the first of each content and  *)
(* lists the others with the digest that made them duplicates.  It asks,   *)
(* for as long as the owner likes, and then proves each candidate again:   *)
(* the kept file and the candidate are held open without write or delete   *)
(* sharing, both are hashed through those handles, and the candidate's     *)
(* handle is marked for deletion.  Nothing goes to the recycle bin.        *)
(*                                                                         *)
(* Two sweeps may run over the same tree, in different orders, and other   *)
(* programs write, remove, copy, link and rename whatever is not held.     *)
(* Equal digests are equal contents; a file is read in one step when it    *)
(* is hashed for the list.  Sizes and partial hashes only save reading: a  *)
(* file they dismiss is one the sweep does not list.                       *)
(***************************************************************************)
EXTENDS Naturals, FiniteSets

CONSTANTS
    Path,        \* names in the tree
    Content,     \* what a file may hold
    Order,       \* for each sweep that may run, the order in which it meets the names
    None,
    MaxEdits     \* bound: steps of other programs, and sweeps that end early

VARIABLES
    file,        \* which file a name stands for: two names of one file are hard links
    data,        \* what each file holds
    sweep,       \* [pc, todo, kept, dups, cand, keeper, object]
    edits

vars == <<file, data, sweep, edits>>

Sweep == DOMAIN Order

\* Enough identities for every name to be a file of its own.
FileId == 1..Cardinality(Path)
Files(f) == {f[p] : p \in Path} \ {None}
Contents == {data[i] : i \in Files(file)}
Blank == CHOOSE c \in Content : TRUE

Idle == [pc |-> "off", todo |-> {}, kept |-> [c \in Content |-> None], dups |-> {},
         cand |-> None, keeper |-> None, object |-> None]

\* Every name is there, some of them perhaps of one file; which content the first file
\* has makes no difference.
Init ==
    /\ file \in [Path -> FileId]
    /\ \A i \in Files(file) : \A j \in 1..i : j \in Files(file)
    /\ data \in {d \in [FileId -> Content] : d[1] = Blank}
    /\ \A i \in FileId \ Files(file) : data[i] = Blank
    /\ sweep = [s \in Sweep |-> Idle]
    /\ edits = 0

Is(s, pc) == sweep[s].pc = pc
Set(s, r) == sweep' = [sweep EXCEPT ![s] = r]

\* held_file: an open handle lets others read, and neither write nor delete.
Held(i) == \E s \in Sweep : i \in {sweep[s].keeper, sweep[s].object}
ToDelete(i) == \E s \in Sweep : sweep[s].object = i

-----------------------------------------------------------------------------
\* The list.

\* os.walk: the positions in its order of the names that are there.
Start(s) ==
    /\ Is(s, "off")
    /\ Set(s, [Idle EXCEPT !.pc = "list",
                           !.todo = {k \in DOMAIN Order[s] : file[Order[s][k]] # None}])
    /\ UNCHANGED <<file, data, edits>>

\* hash_file, and what main makes of the digest: the first path of a content is kept, and
\* a later one is a duplicate of it.  A file may have gone, or be unlike the others in size
\* or in its first bytes.
Hash(s) ==
    /\ Is(s, "list")
    /\ \E k \in sweep[s].todo :
         LET path == Order[s][k]
             digest == data[file[path]]
             first == sweep[s].kept[digest]
             rest == [sweep[s] EXCEPT !.todo = @ \ {k}]
         IN /\ \A j \in sweep[s].todo : k <= j
            /\ \/ Set(s, rest)
               \/ /\ file[path] # None
                  /\ Set(s, IF first = None THEN [rest EXCEPT !.kept[digest] = path]
                            ELSE [rest EXCEPT !.dups = @ \cup {[path |-> path, digest |-> digest, kept |-> first]}])
    /\ UNCHANGED <<file, data, edits>>

Ask(s) ==
    /\ Is(s, "list") /\ sweep[s].todo = {}
    /\ Set(s, IF sweep[s].dups = {} THEN Idle
              ELSE [Idle EXCEPT !.pc = "ask", !.dups = sweep[s].dups])
    /\ UNCHANGED <<file, data, edits>>

Answer(s, yes) ==
    /\ Is(s, "ask")
    /\ Set(s, IF yes THEN [sweep[s] EXCEPT !.pc = "next"] ELSE Idle)
    /\ UNCHANGED <<file, data, edits>>

-----------------------------------------------------------------------------
\* delete_verified_duplicate.

\* The next candidate, if it is still there; whatever fails below skips it.
NextOrDone(s, r) == IF r.dups = {} THEN Idle
                    ELSE [Idle EXCEPT !.pc = "next", !.dups = r.dups]
Skip(s) == Set(s, NextOrDone(s, sweep[s])) /\ UNCHANGED <<file, data, edits>>

Pick(s) ==
    /\ Is(s, "next")
    /\ \E d \in sweep[s].dups :
         LET rest == [sweep[s] EXCEPT !.dups = @ \ {d}]
         IN Set(s, IF file[d.path] = None THEN NextOrDone(s, rest)
                   ELSE [rest EXCEPT !.pc = "keeper", !.cand = d])
    /\ UNCHANGED <<file, data, edits>>

\* A handle that reads is refused by one that may delete.
HoldKeeper(s) ==
    LET i == file[sweep[s].cand.kept]
    IN /\ Is(s, "keeper")
       /\ IF i = None \/ ToDelete(i) THEN Skip(s)
          ELSE /\ Set(s, [sweep[s] EXCEPT !.pc = "object", !.keeper = i])
               /\ UNCHANGED <<file, data, edits>>

\* Mutant: handles are taken as if every handle shared everything.
HoldObjectShared(s) ==
    LET i == file[sweep[s].cand.path]
    IN /\ Is(s, "object")
       /\ IF i \in {None, sweep[s].keeper} THEN Skip(s)
          ELSE /\ Set(s, [sweep[s] EXCEPT !.pc = "prove keeper", !.object = i])
               /\ UNCHANGED <<file, data, edits>>
\* A handle that may delete is refused by every other, the sweep's own on the kept file
\* among them, which a hard link would meet.
HoldObject(s) ==
    LET i == file[sweep[s].cand.path]
    IN /\ Is(s, "object")
       /\ IF i = None \/ Held(i) THEN Skip(s)
          ELSE /\ Set(s, [sweep[s] EXCEPT !.pc = "prove keeper", !.object = i])
               /\ UNCHANGED <<file, data, edits>>

\* digest_handle, of the kept file and of the candidate.
ProveKeeper(s) ==
    /\ Is(s, "prove keeper")
    /\ IF data[sweep[s].keeper] # sweep[s].cand.digest THEN Skip(s)
       ELSE Set(s, [sweep[s] EXCEPT !.pc = "prove object"]) /\ UNCHANGED <<file, data, edits>>

\* Mutant: the digest of the list is good enough.
ProveObjectListed(s) ==
    /\ Is(s, "prove object")
    /\ Set(s, [sweep[s] EXCEPT !.pc = "delete"]) /\ UNCHANGED <<file, data, edits>>
ProveObject(s) ==
    /\ Is(s, "prove object")
    /\ IF data[sweep[s].object] # sweep[s].cand.digest THEN Skip(s)
       ELSE Set(s, [sweep[s] EXCEPT !.pc = "delete"]) /\ UNCHANGED <<file, data, edits>>

\* A name is gone; a file without a name is forgotten.
Point(f) ==
    /\ file' = f
    /\ data' = [i \in FileId |-> IF i \in Files(f) THEN data[i] ELSE Blank]

\* The name that the handle was opened by goes when the handles are closed.
Dispose(s) ==
    /\ Is(s, "delete")
    /\ Point([file EXCEPT ![sweep[s].cand.path] = None])
    /\ Set(s, NextOrDone(s, sweep[s]))
    /\ UNCHANGED edits

-----------------------------------------------------------------------------
\* Other programs, and sweeps that end early.

Free(p) == file[p] = None \/ ~Held(file[p])
Edit == edits < MaxEdits /\ edits' = edits + 1

Write(p, c) ==
    /\ Edit /\ file[p] # None /\ Free(p)
    /\ data' = [data EXCEPT ![file[p]] = c]
    /\ UNCHANGED <<file, sweep>>

Remove(p) ==
    /\ Edit /\ file[p] # None /\ Free(p)
    /\ Point([file EXCEPT ![p] = None])
    /\ UNCHANGED sweep

\* A new file under a name that is free or given up.
Create(p, c) ==
    /\ Edit /\ Free(p)
    /\ \E i \in FileId \ Files(file) :
         /\ \A j \in 1..(i - 1) : j \in Files(file)
         /\ file' = [file EXCEPT ![p] = i]
         /\ data' = [j \in FileId |-> IF j = i THEN c
                                    ELSE IF j \in Files(file') THEN data[j] ELSE Blank]
    /\ UNCHANGED sweep

\* A hard link needs no access to the file.
Link(p, q) ==
    /\ Edit /\ file[p] = None /\ file[q] # None
    /\ file' = [file EXCEPT ![p] = file[q]]
    /\ UNCHANGED <<data, sweep>>

\* A rename needs the right to delete the file.
Rename(p, q) ==
    /\ Edit /\ file[p] # None /\ Free(p) /\ p # q /\ Free(q)
    /\ Point([file EXCEPT ![p] = None, ![q] = file[p]])
    /\ UNCHANGED sweep

Die(s) ==
    /\ Edit /\ ~Is(s, "off") /\ Set(s, Idle)
    /\ UNCHANGED <<file, data>>

Next ==
    \/ \E s \in Sweep :
        \/ Start(s) \/ Hash(s) \/ Ask(s) \/ Pick(s) \/ HoldKeeper(s) \/ HoldObject(s)
        \/ ProveKeeper(s) \/ ProveObject(s) \/ Dispose(s) \/ Die(s)
        \/ \E yes \in BOOLEAN : Answer(s, yes)
    \/ \E p, q \in Path : Link(p, q) \/ Rename(p, q)
    \/ \E p \in Path : Remove(p) \/ \E c \in Content : Write(p, c) \/ Create(p, c)

Spec == Init /\ [][Next]_vars

-----------------------------------------------------------------------------
TypeOK ==
    /\ file \in [Path -> FileId \cup {None}]
    /\ data \in [FileId -> Content]
    /\ \A s \in Sweep : /\ sweep[s].todo \subseteq DOMAIN Order[s]
                        /\ {sweep[s].keeper, sweep[s].object} \subseteq FileId \cup {None}
    /\ edits \in 0..MaxEdits

\* Nothing that a sweep does takes the last copy of a content from the tree, whatever was
\* edited, replaced, linked or renamed while the owner was asked, and whatever another
\* sweep over the same files, with another file in mind to be kept, does meanwhile.
SweepKeeps == edits' = edits => Contents \subseteq Contents'
LastCopyStays == [][SweepKeeps]_vars
=============================================================================
