----------------------------- MODULE SweepProofs -----------------------------
(***************************************************************************)
(* Theorems about the programs that sweep a machine, for any value of the  *)
(* constants of MCSweeps' parts.                                           *)
(*                                                                         *)
(* DuplicateSweep: a file is deleted only while its sweep holds a handle   *)
(* on another one with the same content.  The invariant says that what is  *)
(* held keeps its names and its content, that an object is held by nobody  *)
(* else, and what each step of delete_verified_duplicate has established.  *)
(*                                                                         *)
(* JunkSweep: before anything of a candidate is removed its INTENT is in   *)
(* the journal, or behind a torn line.  The invariant says so of the       *)
(* candidate a sweep works on, which is one of its own.                    *)
(*                                                                         *)
(* SpinWatch: a streak is saved with the sweep that extended it.  The      *)
(* invariant says of a streak that is decided but not yet saved that it is *)
(* what will have been seen once it is.                                    *)
(***************************************************************************)
EXTENDS MCSweeps, SequenceTheorems, TLAPS

Ids == D!FileId
Sweeps == DOMAIN Orders
Dup == [path : Path, digest : Content, kept : Path]

Keeping == {"object", "prove keeper", "prove object", "delete"}
Holding == {"prove keeper", "prove object", "delete"}
Deciding == Keeping \cup {"keeper"}
Listing == {"off", "list", "ask", "next"}

Sweeper(s) == [pc : Deciding \cup Listing, todo : SUBSET DOMAIN Orders[s],
               kept : [Content -> Path \cup {NoFile}], dups : SUBSET Dup,
               cand : Dup \cup {NoFile}, keeper : Ids \cup {NoFile}, object : Ids \cup {NoFile}]

\* What a sweep r relies on: its handles are on files of the tree f, and what it has proved
\* of their contents d.
Handles(r, f, d) ==
    /\ r.pc \in Deciding => r.cand \in Dup
    /\ r.pc \in Keeping => r.keeper \in Ids /\ \E p \in Path : f[p] = r.keeper
    /\ r.pc \notin Keeping => r.keeper = NoFile
    /\ r.pc \in Holding => r.object \in Ids /\ f[r.cand.path] = r.object /\ r.object # r.keeper
    /\ r.pc \notin Holding => r.object = NoFile
    /\ r.pc \in {"prove object", "delete"} => d[r.keeper] = r.cand.digest
    /\ r.pc = "delete" => d[r.object] = r.cand.digest

\* What r may delete, q does not hold.
Apart(r, q) == r.object # NoFile => r.object # q.keeper /\ r.object # q.object

SweepInv ==
    /\ names \in [Path -> Ids \cup {NoFile}] /\ data \in [Ids -> Content]
    /\ DOMAIN sweep = Sweeps
    /\ \A s \in Sweeps : sweep[s] \in Sweeper(s) /\ Handles(sweep[s], names, data)
    /\ \A s, t \in Sweeps : s # t => Apart(sweep[s], sweep[t])

LEMMA NoFileIsNone == NoFile \notin Ids /\ NoFile \notin Path
  BY DuplicateConstants DEF Ids

\* A sweep that holds nothing.
LEMMA IdleHolds ==
    ASSUME NEW s \in Sweeps, NEW f, NEW d
    PROVE  /\ D!Idle \in Sweeper(s) /\ D!Idle.pc = "off" /\ D!Idle.dups = {}
           /\ D!Idle.keeper = NoFile /\ D!Idle.object = NoFile /\ Handles(D!Idle, f, d)
  <1>1. /\ D!Idle.pc = "off" /\ D!Idle.dups = {} /\ D!Idle.keeper = NoFile /\ D!Idle.object = NoFile
        /\ D!Idle \in Sweeper(s)
    BY DEF D!Idle, Sweeper, Listing
  <1>. QED  BY <1>1 DEF Handles, Deciding, Keeping, Holding

LEMMA ListedHolds ==
    ASSUME NEW s \in Sweeps, NEW f, NEW d, NEW c \in Listing, NEW x \in SUBSET Dup
    PROVE  LET r == [D!Idle EXCEPT !.pc = c, !.dups = x]
           IN  r \in Sweeper(s) /\ r.keeper = NoFile /\ r.object = NoFile /\ Handles(r, f, d)
  <1>. DEFINE i == D!Idle  r == [i EXCEPT !.pc = c, !.dups = x]
  <1>1. i \in Sweeper(s) /\ i.keeper = NoFile /\ i.object = NoFile  BY IdleHolds
  <1>. HIDE DEF i
  <1>2. r \in Sweeper(s) /\ r.keeper = NoFile /\ r.object = NoFile /\ r.pc = c
    BY <1>1 DEF Sweeper
  <1>. HIDE DEF r
  <1>3. Handles(r, f, d)  BY <1>2 DEF Handles, Deciding, Keeping, Holding, Listing
  <1>. QED  BY <1>2, <1>3 DEF r, i

\* A sweep that goes on from r holds nothing.
LEMMA NextHolds ==
    ASSUME NEW s \in Sweeps, NEW f, NEW d, NEW r, r.dups \in SUBSET Dup
    PROVE  LET n == D!NextOrDone(s, r)
           IN  n \in Sweeper(s) /\ n.keeper = NoFile /\ n.object = NoFile /\ Handles(n, f, d)
  BY IdleHolds, ListedHolds DEF D!NextOrDone, Listing

\* One sweep moves on to r, and the files stay.
LEMMA SetKeeps ==
    ASSUME SweepInv, NEW s \in Sweeps, NEW r \in Sweeper(s), Handles(r, names, data),
           D!Set(s, r), UNCHANGED <<names, data>>,
           \A t \in Sweeps : t # s => Apart(r, sweep[t]) /\ Apart(sweep[t], r)
    PROVE  SweepInv'
  <1>1. DOMAIN sweep' = Sweeps /\ sweep'[s] = r /\ \A t \in Sweeps : t # s => sweep'[t] = sweep[t]
    BY DEF SweepInv, D!Set
  <1>2. names' \in [Path -> Ids \cup {NoFile}] /\ data' \in [Ids -> Content]  BY DEF SweepInv
  <1>3. \A t \in Sweeps : sweep'[t] \in Sweeper(t) /\ Handles(sweep'[t], names', data')
    BY <1>1 DEF SweepInv
  <1>4. \A t, u \in Sweeps : t # u => Apart(sweep'[t], sweep'[u])  BY <1>1 DEF SweepInv
  <1>. QED  BY <1>1, <1>2, <1>3, <1>4 DEF SweepInv

\* A sweep that lets go of its handles, or takes none.
LEMMA RestKeeps ==
    ASSUME SweepInv, NEW s \in Sweeps, NEW r \in Sweeper(s), Handles(r, names, data),
           r.keeper \in {NoFile, sweep[s].keeper}, r.object \in {NoFile, sweep[s].object},
           D!Set(s, r), UNCHANGED <<names, data>>
    PROVE  SweepInv'
  <1>1. \A t \in Sweeps : t # s => Apart(r, sweep[t])  BY DEF SweepInv, Apart
  <1>2. \A t \in Sweeps : t # s => Apart(sweep[t], r)
    BY DEF SweepInv, Apart
  <1>. QED  BY <1>1, <1>2, SetKeeps

\* What other programs do leaves alone the names and the content of what is held.
LEMMA OthersKeep ==
    ASSUME SweepInv, UNCHANGED sweep,
           names' \in [Path -> Ids \cup {NoFile}], data' \in [Ids -> Content],
           \A p \in Path : D!Held(names[p]) /\ names[p] # NoFile =>
                             names'[p] = names[p] /\ data'[names[p]] = data[names[p]]
    PROVE  SweepInv'
  <1>1. ASSUME NEW s \in Sweeps PROVE Handles(sweep[s], names', data')
    <2>. DEFINE r == sweep[s]
    <2>1. r \in Sweeper(s) /\ Handles(r, names, data)  BY DEF SweepInv
    <2>2. ASSUME NEW p \in Path, names[p] \in {r.keeper, r.object}, names[p] # NoFile
          PROVE  names'[p] = names[p] /\ data'[names[p]] = data[names[p]]
      BY <2>2 DEF D!Held, D!Sweep, Sweeps
    <2>. HIDE DEF r
    <2>3. r.pc \in Keeping => /\ r.keeper \in Ids /\ \E p \in Path : names'[p] = r.keeper
                              /\ data'[r.keeper] = data[r.keeper]
      BY <2>1, <2>2, NoFileIsNone DEF Handles
    <2>4. r.pc \in Holding => /\ r.object \in Ids /\ names'[r.cand.path] = r.object
                              /\ data'[r.object] = data[r.object]
      BY <2>1, <2>2, NoFileIsNone DEF Handles, Holding, Deciding, Keeping, Dup
    <2>5. Handles(r, names', data')
      BY <2>1, <2>3, <2>4 DEF Handles, Holding, Keeping
    <2>. QED  BY <2>5 DEF r
  <1>. QED  BY <1>1 DEF SweepInv

-----------------------------------------------------------------------------
\* The list and the answer: nothing is held.
LEMMA HashHolds ==
    ASSUME SweepInv, NEW s \in Sweeps, D!Hash(s)
    PROVE  SweepInv'
  <1>. DEFINE r == sweep[s]
  <1>1. r \in Sweeper(s) /\ r.pc = "list" /\ r.keeper = NoFile /\ r.object = NoFile
    BY DEF SweepInv, Handles, Keeping, Holding, D!Hash, D!Is
  <1>. HIDE DEF r
  <1>2. PICK k \in r.todo :
          LET path == Orders[s][k]
              digest == data[names[path]]
              first == r.kept[digest]
              rest == [r EXCEPT !.todo = @ \ {k}]
          IN  \/ D!Set(s, rest)
              \/ /\ names[path] # NoFile
                 /\ D!Set(s, IF first = NoFile THEN [rest EXCEPT !.kept[digest] = path]
                             ELSE [rest EXCEPT !.dups = @ \cup {[path |-> path, digest |-> digest, kept |-> first]}])
    BY DEF D!Hash, r
  <1>. DEFINE path == Orders[s][k]
              digest == data[names[path]]
              first == r.kept[digest]
              rest == [r EXCEPT !.todo = @ \ {k}]
              dup == [path |-> path, digest |-> digest, kept |-> first]
              kept == [rest EXCEPT !.kept[digest] = path]
              more == [rest EXCEPT !.dups = @ \cup {dup}]
  <1>3. path \in Path  BY <1>1, DuplicateConstants DEF Sweeper, Sweeps
  <1>4. rest \in Sweeper(s) /\ rest.pc = "list" /\ rest.keeper = NoFile /\ rest.object = NoFile
        /\ rest.kept = r.kept
    BY <1>1 DEF Sweeper
  <1>5. ASSUME NEW x \in Sweeper(s), x.pc = "list", x.keeper = NoFile, x.object = NoFile, D!Set(s, x)
        PROVE  SweepInv'
    <2>1. Handles(x, names, data)  BY <1>5 DEF Handles, Deciding, Keeping, Holding
    <2>2. UNCHANGED <<names, data>>  BY DEF D!Hash
    <2>. QED  BY <1>5, <2>1, <2>2, RestKeeps
  <1>6. CASE D!Set(s, rest)  BY <1>4, <1>5, <1>6
  <1>. HIDE DEF path, rest
  <1>7. ASSUME names[path] # NoFile PROVE digest \in Content
    BY <1>3, <1>7 DEF SweepInv
  <1>. HIDE DEF digest
  <1>8. ASSUME names[path] # NoFile
        PROVE  kept \in Sweeper(s) /\ kept.pc = "list" /\ kept.keeper = NoFile /\ kept.object = NoFile
    BY <1>3, <1>4, <1>7, <1>8 DEF Sweeper
  <1>9. ASSUME names[path] # NoFile, first # NoFile
        PROVE  more \in Sweeper(s) /\ more.pc = "list" /\ more.keeper = NoFile /\ more.object = NoFile
    <2>1. dup \in Dup  BY <1>1, <1>3, <1>7, <1>9 DEF Sweeper, Dup
    <2>. HIDE DEF dup
    <2>. QED  BY <1>4, <2>1 DEF Sweeper
  <1>10. CASE names[path] # NoFile /\ first = NoFile /\ D!Set(s, kept)
    BY <1>5, <1>8, <1>10
  <1>11. CASE names[path] # NoFile /\ first # NoFile /\ D!Set(s, more)
    BY <1>5, <1>9, <1>11
  <1>. QED  BY <1>2, <1>6, <1>10, <1>11 DEF path, rest, digest

LEMMA ListHolds ==
    ASSUME SweepInv, NEW s \in Sweeps,
           D!Start(s) \/ D!Ask(s) \/ (\E yes \in BOOLEAN : D!Answer(s, yes)) \/ D!Die(s)
    PROVE  SweepInv'
  <1>. DEFINE r == sweep[s]
  <1>1. r \in Sweeper(s) /\ Handles(r, names, data)  BY DEF SweepInv
  <1>2. UNCHANGED <<names, data>>  BY DEF D!Start, D!Ask, D!Answer, D!Die
  <1>3. ASSUME D!Set(s, D!Idle) PROVE SweepInv'
    BY <1>2, <1>3, IdleHolds, RestKeeps
  <1>4. CASE D!Start(s)
    <2>. DEFINE i == D!Idle
                todo == {k \in DOMAIN Orders[s] : names[Orders[s][k]] # NoFile}
                x == [i EXCEPT !.pc = "list", !.todo = todo]
    <2>1. D!Set(s, x)  BY <1>4 DEF D!Start
    <2>2. i \in Sweeper(s) /\ i.keeper = NoFile /\ i.object = NoFile  BY IdleHolds
    <2>3. todo \in SUBSET DOMAIN Orders[s]  OBVIOUS
    <2>. HIDE DEF i, todo
    <2>4. x \in Sweeper(s) /\ x.keeper = NoFile /\ x.object = NoFile /\ x.pc = "list"
      BY <2>2, <2>3 DEF Sweeper, Listing
    <2>. HIDE DEF x
    <2>5. Handles(x, names, data)  BY <2>4 DEF Handles, Deciding, Keeping, Holding
    <2>. QED  BY <1>2, <2>1, <2>4, <2>5, RestKeeps
  <1>5. CASE D!Ask(s)
    <2>1. r.dups \in SUBSET Dup  BY <1>1 DEF Sweeper
    <2>. DEFINE x == [D!Idle EXCEPT !.pc = "ask", !.dups = r.dups]
    <2>2. x \in Sweeper(s) /\ x.keeper = NoFile /\ x.object = NoFile /\ Handles(x, names, data)
      BY <2>1, ListedHolds DEF Listing
    <2>3. D!Set(s, D!Idle) \/ D!Set(s, x)  BY <1>5 DEF D!Ask
    <2>. HIDE DEF x
    <2>. QED  BY <1>2, <1>3, <2>2, <2>3, RestKeeps
  <1>6. CASE \E yes \in BOOLEAN : D!Answer(s, yes)
    <2>. DEFINE x == [r EXCEPT !.pc = "next"]
    <2>1. D!Set(s, D!Idle) \/ D!Set(s, x)  BY <1>6 DEF D!Answer
    <2>2. r.pc = "ask"  BY <1>6 DEF D!Answer, D!Is
    <2>. HIDE DEF r
    <2>3. x \in Sweeper(s) /\ x.keeper = NoFile /\ x.object = NoFile /\ x.pc = "next"
      BY <1>1, <2>2 DEF Sweeper, Handles, Keeping, Holding, Listing
    <2>. HIDE DEF x
    <2>4. Handles(x, names, data)  BY <2>3 DEF Handles, Deciding, Keeping, Holding
    <2>. QED  BY <1>2, <1>3, <2>1, <2>3, <2>4, RestKeeps
  <1>7. CASE D!Die(s)  BY <1>3, <1>7 DEF D!Die
  <1>. QED  BY <1>4, <1>5, <1>6, <1>7

-----------------------------------------------------------------------------
\* delete_verified_duplicate.
LEMMA SkipHolds ==
    ASSUME SweepInv, NEW s \in Sweeps, D!Skip(s)
    PROVE  SweepInv'
  <1>1. sweep[s].dups \in SUBSET Dup  BY DEF SweepInv, Sweeper
  <1>. DEFINE n == D!NextOrDone(s, sweep[s])
  <1>2. n \in Sweeper(s) /\ n.keeper = NoFile /\ n.object = NoFile /\ Handles(n, names, data)
    BY <1>1, NextHolds
  <1>3. D!Set(s, n) /\ UNCHANGED <<names, data>>  BY DEF D!Skip
  <1>. HIDE DEF n
  <1>. QED  BY <1>2, <1>3, RestKeeps

LEMMA PickHolds ==
    ASSUME SweepInv, NEW s \in Sweeps, D!Pick(s)
    PROVE  SweepInv'
  <1>. DEFINE r == sweep[s]
  <1>1. r \in Sweeper(s) /\ r.pc = "next" /\ r.keeper = NoFile /\ r.object = NoFile
    BY DEF SweepInv, Handles, Keeping, Holding, D!Pick, D!Is
  <1>2. UNCHANGED <<names, data>>  BY DEF D!Pick
  <1>3. PICK d \in r.dups :
          LET rest == [r EXCEPT !.dups = @ \ {d}]
          IN  D!Set(s, IF names[d.path] = NoFile THEN D!NextOrDone(s, rest)
                       ELSE [rest EXCEPT !.pc = "keeper", !.cand = d])
    BY DEF D!Pick
  <1>. DEFINE rest == [r EXCEPT !.dups = @ \ {d}]
              n == D!NextOrDone(s, rest)
              x == [rest EXCEPT !.pc = "keeper", !.cand = d]
  <1>4. D!Set(s, n) \/ D!Set(s, x)  BY <1>3
  <1>. HIDE DEF r
  <1>5. d \in Dup  BY <1>1 DEF Sweeper
  <1>6. rest \in Sweeper(s) /\ rest.keeper = NoFile /\ rest.object = NoFile  BY <1>1 DEF Sweeper
  <1>. HIDE DEF rest
  <1>7. rest.dups \in SUBSET Dup  BY <1>6 DEF Sweeper
  <1>8. n \in Sweeper(s) /\ n.keeper = NoFile /\ n.object = NoFile /\ Handles(n, names, data)
    BY <1>7, NextHolds
  <1>9. x \in Sweeper(s) /\ x.keeper = NoFile /\ x.object = NoFile /\ x.pc = "keeper" /\ x.cand = d
    BY <1>5, <1>6 DEF Sweeper, Deciding
  <1>. HIDE DEF n, x
  <1>10. Handles(x, names, data)  BY <1>5, <1>9 DEF Handles, Keeping, Holding
  <1>. QED  BY <1>2, <1>4, <1>8, <1>9, <1>10, RestKeeps

LEMMA HoldKeeperHolds ==
    ASSUME SweepInv, NEW s \in Sweeps, D!HoldKeeper(s)
    PROVE  SweepInv'
  <1>. DEFINE r == sweep[s]  i == names[r.cand.kept]  x == [r EXCEPT !.pc = "object", !.keeper = i]
  <1>1. /\ r \in Sweeper(s) /\ r.pc = "keeper" /\ r.cand \in Dup
        /\ r.keeper = NoFile /\ r.object = NoFile
    BY DEF SweepInv, Handles, Keeping, Holding, Deciding, D!HoldKeeper, D!Is
  <1>2. CASE D!Skip(s)  BY <1>2, SkipHolds
  <1>3. CASE i # NoFile /\ ~D!ToDelete(i) /\ D!Set(s, x) /\ UNCHANGED <<names, data>>
    <2>1. \A t \in Sweeps : sweep[t].object # i  BY <1>3 DEF D!ToDelete, D!Sweep, Sweeps
    <2>. HIDE DEF r
    <2>2. r.cand.kept \in Path  BY <1>1 DEF Dup
    <2>3. i \in Ids /\ \E p \in Path : names[p] = i  BY <1>3, <2>2 DEF SweepInv
    <2>. HIDE DEF i
    <2>4. x \in Sweeper(s) /\ x.pc = "object" /\ x.keeper = i /\ x.object = NoFile /\ x.cand = r.cand
      BY <1>1, <2>3 DEF Sweeper, Deciding, Keeping
    <2>. HIDE DEF x
    <2>5. Handles(x, names, data)  BY <1>1, <2>3, <2>4 DEF Handles, Keeping, Holding
    <2>6. ASSUME NEW t \in Sweeps, t # s PROVE Apart(x, sweep[t]) /\ Apart(sweep[t], x)
      BY <2>1, <2>4, <2>6 DEF Apart
    <2>. QED  BY <1>3, <2>4, <2>5, <2>6, SetKeeps
  <1>. QED  BY <1>2, <1>3 DEF D!HoldKeeper

LEMMA HoldObjectHolds ==
    ASSUME SweepInv, NEW s \in Sweeps, D!HoldObject(s)
    PROVE  SweepInv'
  <1>. DEFINE r == sweep[s]  i == names[r.cand.path]
              x == [r EXCEPT !.pc = "prove keeper", !.object = i]
  <1>1. /\ r \in Sweeper(s) /\ r.pc = "object" /\ r.cand \in Dup
        /\ r.keeper \in Ids /\ \E p \in Path : names[p] = r.keeper
    BY DEF SweepInv, Handles, Keeping, Holding, Deciding, D!HoldObject, D!Is
  <1>2. CASE D!Skip(s)  BY <1>2, SkipHolds
  <1>3. CASE i # NoFile /\ ~D!Held(i) /\ D!Set(s, x) /\ UNCHANGED <<names, data>>
    <2>1. \A t \in Sweeps : sweep[t].object # i /\ sweep[t].keeper # i
      BY <1>3 DEF D!Held, D!Sweep, Sweeps
    <2>7. r.keeper # i  BY <2>1
    <2>8. ASSUME NEW t \in Sweeps, t # s PROVE Apart(sweep[t], r)  BY <2>8 DEF SweepInv
    <2>. HIDE DEF r
    <2>2. r.cand.path \in Path  BY <1>1 DEF Dup
    <2>3. i \in Ids  BY <1>3, <2>2 DEF SweepInv
    <2>9. names[r.cand.path] = i  OBVIOUS
    <2>. HIDE DEF i
    <2>4. x \in Sweeper(s) /\ x.pc = "prove keeper" /\ x.keeper = r.keeper /\ x.object = i /\ x.cand = r.cand
      BY <1>1, <2>3 DEF Sweeper, Deciding, Keeping
    <2>. HIDE DEF x
    <2>5. Handles(x, names, data)
      BY <1>1, <2>3, <2>4, <2>7, <2>9 DEF Handles, Keeping, Holding
    <2>6. ASSUME NEW t \in Sweeps, t # s PROVE Apart(x, sweep[t]) /\ Apart(sweep[t], x)
      BY <2>1, <2>4, <2>6, <2>8 DEF Apart
    <2>. QED  BY <1>3, <2>4, <2>5, <2>6, SetKeeps
  <1>. QED  BY <1>2, <1>3 DEF D!HoldObject

LEMMA ProofsHold ==
    ASSUME SweepInv, NEW s \in Sweeps, D!ProveKeeper(s) \/ D!ProveObject(s)
    PROVE  SweepInv'
  <1>. DEFINE r == sweep[s]
  <1>1. r \in Sweeper(s) /\ Handles(r, names, data)  BY DEF SweepInv
  <1>2. CASE D!Skip(s)  BY <1>2, SkipHolds
  <1>3. ASSUME NEW c \in {"prove object", "delete"}, D!Set(s, [r EXCEPT !.pc = c]),
               UNCHANGED <<names, data>>, r.pc \in Holding,
               data[r.keeper] = r.cand.digest, c = "delete" => data[r.object] = r.cand.digest
        PROVE  SweepInv'
    <2>. DEFINE x == [r EXCEPT !.pc = c]
    <2>. HIDE DEF r
    <2>1. /\ x \in Sweeper(s) /\ x.pc = c /\ x.keeper = r.keeper /\ x.object = r.object
          /\ x.cand = r.cand
      BY <1>1 DEF Sweeper, Deciding, Keeping
    <2>. HIDE DEF x
    <2>2. Handles(x, names, data)
      BY <1>1, <1>3, <2>1 DEF Handles, Keeping, Holding, Deciding
    <2>. QED  BY <1>3, <2>1, <2>2, RestKeeps DEF r, x
  <1>4. CASE D!ProveKeeper(s) /\ ~D!Skip(s)
    <2>1. r.pc = "prove keeper" /\ data[r.keeper] = r.cand.digest
          /\ D!Set(s, [r EXCEPT !.pc = "prove object"]) /\ UNCHANGED <<names, data>>
      BY <1>4 DEF D!ProveKeeper, D!Is
    <2>. HIDE DEF r
    <2>. QED  BY <1>3, <2>1 DEF Holding
  <1>5. CASE D!ProveObject(s) /\ ~D!Skip(s)
    <2>1. r.pc = "prove object" /\ data[r.object] = r.cand.digest
          /\ D!Set(s, [r EXCEPT !.pc = "delete"]) /\ UNCHANGED <<names, data>>
      BY <1>5 DEF D!ProveObject, D!Is
    <2>2. data[r.keeper] = r.cand.digest  BY <1>1, <2>1 DEF Handles
    <2>. HIDE DEF r
    <2>. QED  BY <1>3, <2>1, <2>2 DEF Holding
  <1>. QED  BY <1>2, <1>4, <1>5

\* The candidate goes, and its content stays in the kept file; what other sweeps hold has
\* names of its own.
LEMMA DisposeHolds ==
    ASSUME SweepInv, NEW s \in Sweeps, D!Dispose(s)
    PROVE  SweepInv' /\ D!SweepKeeps
  <1>. DEFINE r == sweep[s]  path == r.cand.path  n == D!NextOrDone(s, r)
  <1>1. /\ r \in Sweeper(s) /\ r.cand \in Dup /\ r.keeper \in Ids /\ \E p \in Path : names[p] = r.keeper
        /\ names[path] = r.object /\ r.object \in Ids /\ r.object # r.keeper
        /\ data[r.keeper] = r.cand.digest /\ data[r.object] = r.cand.digest
    BY DEF SweepInv, Handles, Keeping, Holding, Deciding, D!Dispose, D!Is
  <1>2. path \in Path /\ r.dups \in SUBSET Dup  BY <1>1 DEF Dup, Sweeper
  <1>3. n \in Sweeper(s) /\ n.keeper = NoFile /\ n.object = NoFile /\ Handles(n, names', data')
    BY <1>2, NextHolds
  <1>4. names' = [names EXCEPT ![path] = NoFile]  BY DEF D!Dispose, D!Point
  <1>5. data' = [i \in Ids |-> IF i \in D!Files(names') THEN data[i] ELSE D!Blank]
    BY <1>4 DEF D!Dispose, D!Point, Ids, D!Files
  <1>6. D!Set(s, n)  BY DEF D!Dispose
  <1>7. names \in [Path -> Ids \cup {NoFile}] /\ data \in [Ids -> Content]  BY DEF SweepInv
  <1>8. ASSUME NEW t \in Sweeps, t # s PROVE Apart(r, sweep[t]) /\ Apart(sweep[t], r)
    BY <1>8 DEF SweepInv
  <1>. HIDE DEF r, path, n
  <1>9. D!Blank \in Content  BY DuplicateConstants DEF D!Blank
  <1>10. names' \in [Path -> Ids \cup {NoFile}] /\ names'[path] = NoFile
         /\ \A p \in Path : p # path => names'[p] = names[p]
    BY <1>2, <1>4, <1>7
  <1>11. data' \in [Ids -> Content]  BY <1>5, <1>7, <1>9
  <1>12. ASSUME NEW p \in Path, names[p] # NoFile, names[p] # r.object
         PROVE  names'[p] = names[p] /\ data'[names[p]] = data[names[p]]
    <2>1. p # path  BY <1>1, <1>12 DEF path, r
    <2>2. names'[p] = names[p] /\ names[p] \in Ids  BY <1>7, <1>10, <1>12, <2>1
    <2>3. names[p] \in D!Files(names')  BY <1>12, <2>2 DEF D!Files
    <2>. QED  BY <1>5, <2>2, <2>3
  <1>13. ASSUME NEW t \in Sweeps, t # s PROVE Handles(sweep[t], names', data')
    <2>. DEFINE q == sweep[t]
    <2>1. q \in Sweeper(t) /\ Handles(q, names, data)  BY DEF SweepInv
    <2>2. q.keeper # r.object /\ q.object # r.object
      BY <1>1, <1>8, <1>13, NoFileIsNone DEF Apart
    <2>. HIDE DEF q
    <2>3. q.pc \in Keeping => /\ q.keeper \in Ids /\ \E p \in Path : names'[p] = q.keeper
                              /\ data'[q.keeper] = data[q.keeper]
      BY <1>12, <2>1, <2>2, NoFileIsNone DEF Handles
    <2>4. q.pc \in Holding => /\ q.object \in Ids /\ names'[q.cand.path] = q.object
                              /\ data'[q.object] = data[q.object]
      BY <1>12, <2>1, <2>2, NoFileIsNone DEF Handles, Holding, Deciding, Keeping, Dup
    <2>5. Handles(q, names', data')  BY <2>1, <2>3, <2>4 DEF Handles, Holding, Keeping
    <2>. QED  BY <2>5 DEF q
  <1>14. DOMAIN sweep' = Sweeps /\ sweep'[s] = n /\ \A t \in Sweeps : t # s => sweep'[t] = sweep[t]
    BY <1>6 DEF SweepInv, D!Set
  <1>15. \A t \in Sweeps : sweep'[t] \in Sweeper(t) /\ Handles(sweep'[t], names', data')
    BY <1>3, <1>13, <1>14 DEF SweepInv
  <1>16. \A t, u \in Sweeps : t # u => Apart(sweep'[t], sweep'[u])
    BY <1>3, <1>14 DEF SweepInv, Apart
  <1>17. SweepInv'  BY <1>10, <1>11, <1>14, <1>15, <1>16 DEF SweepInv
  <1>18. \A i \in D!Files(names) : data[i] \in {data'[j] : j \in D!Files(names')}
    <2>1. SUFFICES ASSUME NEW p \in Path, names[p] # NoFile
                   PROVE  data[names[p]] \in {data'[j] : j \in D!Files(names')}
      BY DEF D!Files
    <2>2. CASE names[p] # r.object
      BY <1>12, <2>1, <2>2 DEF D!Files
    <2>3. CASE names[p] = r.object
      <3>1. PICK k \in Path : names[k] = r.keeper  BY <1>1 DEF r
      <3>2. names'[k] = r.keeper /\ data'[r.keeper] = data[r.keeper] /\ r.keeper # NoFile
        BY <1>1, <1>12, <3>1, NoFileIsNone DEF r
      <3>3. r.keeper \in D!Files(names')  BY <3>2 DEF D!Files
      <3>4. data[names[p]] = data[r.keeper]  BY <1>1, <2>3 DEF r
      <3>. QED  BY <3>2, <3>3, <3>4
    <2>. QED  BY <2>2, <2>3
  <1>19. D!Contents \subseteq D!Contents'  BY <1>18 DEF D!Contents, D!Files
  <1>. QED  BY <1>17, <1>19 DEF D!SweepKeeps

\* Other programs: what they write, remove or replace is held by nobody.
LEMMA EditHolds ==
    ASSUME SweepInv,
           \/ \E p, q \in Path : D!Link(p, q) \/ D!Rename(p, q)
           \/ \E p \in Path : D!Remove(p) \/ \E c \in Content : D!Write(p, c) \/ D!Create(p, c)
    PROVE  SweepInv'
  <1>. DEFINE Free(p) == names[p] = NoFile \/ ~D!Held(names[p])
  <1>1. names \in [Path -> Ids \cup {NoFile}] /\ data \in [Ids -> Content]  BY DEF SweepInv
  <1>2. D!Blank \in Content  BY DuplicateConstants DEF D!Blank
  <1>3. UNCHANGED sweep
    BY DEF D!Link, D!Rename, D!Remove, D!Write, D!Create
  <1>4. ASSUME NEW f \in [Path -> Ids \cup {NoFile}], D!Point(f),
               \A p \in Path : ~Free(p) => f[p] = names[p]
        PROVE  SweepInv'
    <2>1. names' = f /\ data' = [i \in Ids |-> IF i \in D!Files(f) THEN data[i] ELSE D!Blank]
      BY <1>4 DEF D!Point, Ids
    <2>2. data' \in [Ids -> Content]  BY <1>1, <1>2, <2>1
    <2>3. ASSUME NEW p \in Path, D!Held(names[p]), names[p] # NoFile
          PROVE  names'[p] = names[p] /\ data'[names[p]] = data[names[p]]
      <3>1. f[p] = names[p]  BY <1>4, <2>3
      <3>2. names[p] \in D!Files(f) /\ names[p] \in Ids  BY <1>1, <2>3, <3>1 DEF D!Files
      <3>. QED  BY <2>1, <3>1, <3>2
    <2>. QED  BY <1>3, <1>4, <2>1, <2>2, <2>3, OthersKeep
  <1>5. ASSUME NEW p \in Path, NEW c \in Content, D!Write(p, c) PROVE SweepInv'
    <2>1. names' = names /\ data' = [data EXCEPT ![names[p]] = c] /\ ~D!Held(names[p])
      BY <1>5 DEF D!Write, D!Free
    <2>2. data' \in [Ids -> Content]  BY <1>1, <2>1
    <2>3. ASSUME NEW k \in Path, D!Held(names[k])
          PROVE  names'[k] = names[k] /\ data'[names[k]] = data[names[k]]
      <3>1. names[k] # names[p]  BY <2>1, <2>3
      <3>. QED  BY <1>1, <2>1, <3>1
    <2>. QED  BY <1>1, <1>3, <2>1, <2>2, <2>3, OthersKeep
  <1>6. ASSUME NEW p \in Path, D!Remove(p) PROVE SweepInv'
    <2>. DEFINE f == [names EXCEPT ![p] = NoFile]
    <2>1. D!Point(f) /\ Free(p)  BY <1>6 DEF D!Remove, D!Free
    <2>2. f \in [Path -> Ids \cup {NoFile}] /\ \A k \in Path : ~Free(k) => f[k] = names[k]
      BY <1>1, <2>1
    <2>. HIDE DEF f
    <2>. QED  BY <1>4, <2>1, <2>2
  <1>7. ASSUME NEW p \in Path, NEW q \in Path, D!Rename(p, q) PROVE SweepInv'
    <2>. DEFINE f == [names EXCEPT ![p] = NoFile, ![q] = names[p]]
    <2>1. D!Point(f) /\ Free(p) /\ Free(q) /\ p # q  BY <1>7 DEF D!Rename, D!Free
    <2>2. f \in [Path -> Ids \cup {NoFile}] /\ \A k \in Path : ~Free(k) => f[k] = names[k]
      BY <1>1, <2>1
    <2>. HIDE DEF f
    <2>. QED  BY <1>4, <2>1, <2>2
  <1>8. ASSUME NEW p \in Path, NEW q \in Path, D!Link(p, q) PROVE SweepInv'
    <2>1. names' = [names EXCEPT ![p] = names[q]] /\ names[p] = NoFile /\ data' = data
      BY <1>8 DEF D!Link
    <2>2. names' \in [Path -> Ids \cup {NoFile}]  BY <1>1, <2>1
    <2>3. \A k \in Path : names[k] # NoFile => names'[k] = names[k]  BY <1>1, <2>1
    <2>. QED  BY <1>1, <1>3, <2>1, <2>2, <2>3, OthersKeep
  <1>9. ASSUME NEW p \in Path, NEW c \in Content, D!Create(p, c) PROVE SweepInv'
    <2>1. PICK i \in Ids \ D!Files(names) :
            /\ names' = [names EXCEPT ![p] = i]
            /\ data' = [j \in Ids |-> IF j = i THEN c ELSE IF j \in D!Files(names') THEN data[j] ELSE D!Blank]
      BY <1>9 DEF D!Create, Ids, D!Files
    <2>2. Free(p)  BY <1>9 DEF D!Create, D!Free
    <2>3. names' \in [Path -> Ids \cup {NoFile}]  BY <1>1, <2>1
    <2>4. data' \in [Ids -> Content]  BY <1>1, <1>2, <2>1
    <2>5. ASSUME NEW k \in Path, D!Held(names[k]), names[k] # NoFile
          PROVE  names'[k] = names[k] /\ data'[names[k]] = data[names[k]]
      <3>1. k # p  BY <2>2, <2>5
      <3>2. names'[k] = names[k]  BY <1>1, <2>1, <3>1
      <3>3. names[k] \in Ids /\ names[k] # i  BY <1>1, <2>1, <2>5 DEF D!Files
      <3>4. names[k] \in D!Files(names')  BY <2>5, <3>2 DEF D!Files
      <3>. QED  BY <2>1, <3>2, <3>3, <3>4
    <2>. QED  BY <1>3, <2>3, <2>4, <2>5, OthersKeep
  <1>. QED  BY <1>5, <1>6, <1>7, <1>8, <1>9

LEMMA DuplicatesHold ==
    ASSUME SweepInv, D!Next
    PROVE  SweepInv'
  <1>1. ASSUME NEW s \in D!Sweep,
               \/ D!Start(s) \/ D!Hash(s) \/ D!Ask(s) \/ D!Pick(s) \/ D!HoldKeeper(s) \/ D!HoldObject(s)
               \/ D!ProveKeeper(s) \/ D!ProveObject(s) \/ D!Dispose(s) \/ D!Die(s)
               \/ \E yes \in BOOLEAN : D!Answer(s, yes)
        PROVE  SweepInv'
    <2>1. s \in Sweeps  BY DEF D!Sweep, Sweeps
    <2>. QED  BY <1>1, <2>1, ListHolds, HashHolds, PickHolds, HoldKeeperHolds, HoldObjectHolds,
                 ProofsHold, DisposeHolds
  <1>. QED  BY <1>1, EditHolds DEF D!Next

\* Only Dispose takes files away: every other step of a sweep leaves them, and a step of
\* other programs is counted.
LEMMA SweepsKeep ==
    ASSUME SweepInv, dupEdits \in Nat, D!Next
    PROVE  D!SweepKeeps /\ dupEdits' \in Nat
  <1>1. ASSUME NEW s \in D!Sweep, D!Dispose(s)
        PROVE  D!SweepKeeps /\ dupEdits' = dupEdits
    <2>1. s \in Sweeps  BY DEF D!Sweep, Sweeps
    <2>. QED  BY <1>1, <2>1, DisposeHolds DEF D!Dispose
  <1>2. ASSUME NEW s \in D!Sweep,
               \/ D!Start(s) \/ D!Hash(s) \/ D!Ask(s) \/ D!Pick(s) \/ D!HoldKeeper(s) \/ D!HoldObject(s)
               \/ D!ProveKeeper(s) \/ D!ProveObject(s)
               \/ \E yes \in BOOLEAN : D!Answer(s, yes)
        PROVE  UNCHANGED <<names, data, dupEdits>>
    BY <1>2 DEF D!Start, D!Hash, D!Ask, D!Pick, D!HoldKeeper, D!HoldObject, D!ProveKeeper,
                D!ProveObject, D!Answer, D!Skip
  <1>3. ASSUME UNCHANGED <<names, data, dupEdits>> PROVE D!SweepKeeps
    BY <1>3 DEF D!SweepKeeps, D!Contents, D!Files
  <1>4. ASSUME dupEdits' = dupEdits + 1 PROVE D!SweepKeeps
    BY <1>4 DEF D!SweepKeeps
  <1>5. ASSUME \/ \E s \in D!Sweep : D!Die(s)
               \/ \E p, q \in Path : D!Link(p, q) \/ D!Rename(p, q)
               \/ \E p \in Path : D!Remove(p) \/ \E c \in Content : D!Write(p, c) \/ D!Create(p, c)
        PROVE  dupEdits' = dupEdits + 1
    BY <1>5 DEF D!Die, D!Link, D!Rename, D!Remove, D!Write, D!Create, D!Edit
  <1>. QED  BY <1>1, <1>2, <1>3, <1>4, <1>5 DEF D!Next

LEMMA DuplicatesInit ==
    ASSUME D!Init
    PROVE  SweepInv /\ dupEdits \in Nat
  <1>1. names \in [Path -> Ids \cup {NoFile}] /\ data \in [Ids -> Content]
    BY DEF D!Init, Ids
  <1>2. DOMAIN sweep = Sweeps /\ \A s \in Sweeps : sweep[s] = D!Idle
    BY DEF D!Init, D!Sweep, Sweeps
  <1>3. \A s \in Sweeps : sweep[s] \in Sweeper(s) /\ Handles(sweep[s], names, data)
    BY <1>2, IdleHolds
  <1>4. \A s, t \in Sweeps : Apart(sweep[s], sweep[t])  BY <1>2, IdleHolds DEF Apart
  <1>5. dupEdits \in Nat  BY DEF D!Init
  <1>. QED  BY <1>1, <1>2, <1>3, <1>4, <1>5 DEF SweepInv

\* For any tree, any number of sweeps over it in any orders and whatever other programs
\* write, remove, replace, link and rename meanwhile, nothing a sweep does takes the last
\* copy of a content (delete_verified_duplicate).
THEOREM LastCopyIsKept == AllSpec => LastCopyStays
  <1>. DEFINE Inv == SweepInv /\ dupEdits \in Nat
  <1>1. AllInit => Inv  BY DuplicatesInit DEF AllInit
  <1>2. Inv /\ [AllNext]_<<part, junkVars, dupVars, spinVars>> => Inv' /\ [D!SweepKeeps]_dupVars
    <2>1. ASSUME Inv, D!Next PROVE Inv' /\ D!SweepKeeps
      BY <2>1, DuplicatesHold, SweepsKeep
    <2>2. ASSUME Inv, UNCHANGED dupVars PROVE Inv'
      BY <2>2 DEF dupVars, SweepInv
    <2>. QED  BY <2>1, <2>2 DEF AllNext
  <1>. HIDE DEF Inv
  <1>. QED  BY <1>1, <1>2, PTL DEF AllSpec, LastCopyStays

-----------------------------------------------------------------------------
(* The sweep of all disks. *)

Row(r) == r \in [pc : {r.pc}, left : {r.left}, items : {r.items}, item : {r.item}, seen : {r.seen},
                 before : {r.before}, list : {r.list}, tries : {r.tries}, event : {r.event},
                 flags : {r.flags}, result : {r.result}]

Between == {"idle", "next", "finish", "over", "dead"}
Ready == {"check", "remove"}
Emptying == {"remove", "outcome"}
Handling == Ready \cup {"intent", "outcome"}

\* Run r of a sweep p goes through its own scopes and works on its own candidates.
Works(p, r) ==
    /\ Row(r)
    /\ r.left \in Seq(Mine(p)) /\ (r.pc \notin Between => r.left # << >>)
    /\ r.items \in Seq(Own(p))
    /\ r.pc \in Handling => r.items # << >> /\ r.item \in Own(p)
    /\ r.list # {} => r.pc = "dead" \/ (r.pc \in Emptying /\ r.list \subseteq Inner[r.item])

\* What the journal j tells: the candidate at hand, and what was removed.
Tells(r, j) == r.pc \in Ready => j.torn \/ <<"INTENT", r.item>> \in j.lines
Told(p, j, g) == j.torn \/ \A i \in Own(p) : Tree(i) \cap g # {} => <<"INTENT", i>> \in j.lines

Journal(j) == j \in [lines : {j.lines}, torn : {j.torn}]
Longer(j, k) == Journal(k) /\ j.lines \subseteq k.lines /\ (j.torn => k.torn)

JunkInv ==
    /\ DOMAIN run = Runs /\ DOMAIN journal = Runs /\ DOMAIN gone = Runs
    /\ \A p \in Runs : Journal(journal[p])
    /\ \A p \in Streaming : /\ Works(p, run[p]) /\ Tells(run[p], journal[p])
                            /\ Told(p, journal[p], gone[p])

\* A journal only grows.
Grown == DOMAIN journal' = Runs /\ \A p \in Runs : Longer(journal[p], journal'[p])

LEMMA LineGrows ==
    ASSUME JunkInv, NEW p \in Runs, NEW ev, NEW i, journal' = Line(p, ev, i)
    PROVE  Grown /\ (journal'[p].torn \/ <<ev, i>> \in journal'[p].lines)
  <1>. DEFINE j == journal[p]  lines == IF j.torn THEN j.lines ELSE j.lines \cup {<<ev, i>>}
              k == [j EXCEPT !.lines = lines]
  <1>1. Journal(j)  BY DEF JunkInv
  <1>2. journal' = [journal EXCEPT ![p] = k]  BY DEF Line
  <1>3. DOMAIN journal' = Runs /\ journal'[p] = k /\ \A q \in Runs : q # p => journal'[q] = journal[q]
    BY <1>2 DEF JunkInv
  <1>. HIDE DEF j
  <1>4. j.lines \subseteq lines /\ (j.torn \/ <<ev, i>> \in lines)  OBVIOUS
  <1>. HIDE DEF lines
  <1>5. Journal(k) /\ k.lines = lines /\ k.torn = j.torn  BY <1>1 DEF Journal
  <1>. HIDE DEF k
  <1>6. Longer(j, k)  BY <1>4, <1>5 DEF Longer
  <1>7. \A q \in Runs : Longer(journal[q], journal[q])  BY DEF JunkInv, Longer
  <1>. QED  BY <1>3, <1>4, <1>5, <1>6, <1>7 DEF Grown, j

LEMMA TearGrows ==
    ASSUME JunkInv, NEW p \in Runs, journal' \in {journal, Tear(p)}
    PROVE  Grown
  <1>. DEFINE j == journal[p]  k == [j EXCEPT !.torn = TRUE]
  <1>1. Journal(j) /\ \A q \in Runs : Longer(journal[q], journal[q])  BY DEF JunkInv, Longer
  <1>2. CASE journal' = journal  BY <1>1, <1>2 DEF Grown, JunkInv
  <1>3. CASE journal' = Tear(p)
    <2>1. journal' = [journal EXCEPT ![p] = k]  BY <1>3 DEF Tear
    <2>2. DOMAIN journal' = Runs /\ journal'[p] = k /\ \A q \in Runs : q # p => journal'[q] = journal[q]
      BY <2>1 DEF JunkInv
    <2>. HIDE DEF j
    <2>3. Journal(k) /\ k.lines = j.lines /\ k.torn = TRUE  BY <1>1 DEF Journal
    <2>. HIDE DEF k
    <2>4. Longer(j, k)  BY <2>3 DEF Longer
    <2>. QED  BY <1>1, <2>2, <2>4 DEF Grown, j
  <1>. QED  BY <1>2, <1>3

LEMMA RecordsGrow ==
    ASSUME JunkInv, NEW p \in Runs
    PROVE  /\ Noted \/ Unnoted(p) \/ Envelope(p) => Grown
           /\ \A ev, i : Written(p, ev, i) => Grown /\ (journal'[p].torn \/ <<ev, i>> \in journal'[p].lines)
           /\ \A ev, i : Unwritten(p, ev, i) => Grown
  <1>1. Noted => Grown  BY TearGrows DEF Noted
  <1>2. Unnoted(p) => Grown  BY TearGrows DEF Unnoted
  <1>3. ASSUME NEW ev, NEW i, Unwritten(p, ev, i) PROVE Grown
    <2>1. journal' \in {journal, Tear(p)} \/ journal' = Line(p, ev, i)  BY <1>3 DEF Unwritten
    <2>. QED  BY <2>1, LineGrows, TearGrows
  <1>4. ASSUME NEW ev, NEW i, Written(p, ev, i)
        PROVE  Grown /\ (journal'[p].torn \/ <<ev, i>> \in journal'[p].lines)
    BY <1>4, LineGrows DEF Written
  <1>. QED  BY <1>1, <1>2, <1>3, <1>4 DEF Envelope

\* A run goes on as r, and removes nothing.
LEMMA StepKeeps ==
    ASSUME JunkInv, Grown, NEW p \in Runs, NEW r, Set(p, r), UNCHANGED gone,
           p \in Streaming => Works(p, r) /\ Tells(r, journal'[p])
    PROVE  JunkInv'
  <1>1. DOMAIN run' = Runs /\ run'[p] = r /\ \A q \in Runs : q # p => run'[q] = run[q]
    BY DEF JunkInv, Set
  <1>2. \A q \in Runs : Journal(journal'[q])  BY DEF Grown, Longer
  <1>3. ASSUME NEW q \in Streaming
        PROVE  /\ Works(q, run'[q]) /\ Tells(run'[q], journal'[q]) /\ Told(q, journal'[q], gone'[q])
    <2>1. q \in Runs  BY SweepConstants
    <2>2. Longer(journal[q], journal'[q])  BY <2>1 DEF Grown
    <2>3. Told(q, journal'[q], gone'[q])  BY <2>2 DEF JunkInv, Told, Longer
    <2>4. CASE q = p  BY <1>1, <2>3, <2>4
    <2>5. CASE q # p
      <3>1. run'[q] = run[q] /\ Works(q, run[q]) /\ Tells(run[q], journal[q])
        BY <1>1, <2>1, <2>5 DEF JunkInv
      <3>2. Tells(run[q], journal'[q])  BY <2>2, <3>1 DEF Tells, Longer
      <3>. QED  BY <2>3, <3>1, <3>2
    <2>. QED  BY <2>4, <2>5
  <1>. QED  BY <1>1, <1>2, <1>3 DEF JunkInv, Grown

\* n is r at step c, with these scopes and candidates left.
Like(n, r, c, left, items) ==
    Row(n) /\ n.pc = c /\ n.left = left /\ n.items = items /\ n.item = r.item /\ n.list = r.list
Taken(n, r, i) ==
    Row(n) /\ n.pc = "intent" /\ n.left = r.left /\ n.items = r.items /\ n.item = i /\ n.list = r.list
Lists(n, r, list) ==
    Row(n) /\ n.pc = r.pc /\ n.left = r.left /\ n.items = r.items /\ n.item = r.item /\ n.list = list

LEMMA RowSet ==
    ASSUME NEW r, Row(r), NEW x, NEW y
    PROVE  /\ Like([r EXCEPT !.pc = x], r, x, r.left, r.items)
           /\ Like([r EXCEPT !.pc = x, !.flags = y], r, x, r.left, r.items)
           /\ Like([r EXCEPT !.pc = x, !.left = y], r, x, y, r.items)
           /\ Like([r EXCEPT !.pc = x, !.items = y], r, x, r.left, y)
           /\ Like([r EXCEPT !.pc = x, !.event = y], r, x, r.left, r.items)
           /\ Like([r EXCEPT !.pc = x, !.result = y], r, x, r.left, r.items)
           /\ Lists([r EXCEPT !.before = x, !.list = y], r, y)
           /\ Lists([r EXCEPT !.list = x], r, x)
           /\ Like([r EXCEPT !.items = x], r, r.pc, r.left, x)
           /\ Like([r EXCEPT !.flags = x], r, r.pc, r.left, r.items)
           /\ Like([r EXCEPT !.tries = x], r, r.pc, r.left, r.items)
  <1>1. /\ Lists([r EXCEPT !.before = x, !.list = y], r, y)
        /\ Lists([r EXCEPT !.list = x], r, x)
    BY DEF Row, Lists
  <1>. QED  BY <1>1 DEF Row, Like

\* The run goes on with the scope and the candidate it has.
LEMMA GoesOn ==
    ASSUME NEW p, NEW r, Works(p, r), NEW n, Like(n, r, n.pc, r.left, r.items),
           n.pc \notin Between => r.left # << >>, n.pc \in Handling => r.pc \in Handling,
           \/ r.pc \notin Emptying \cup {"dead"} \/ n.pc = "dead" \/ n.pc = r.pc
           \/ r.pc \in Emptying /\ n.pc \in Emptying
    PROVE  Works(p, n)
  <1>1. n.list # {} => n.pc = "dead" \/ (n.pc \in Emptying /\ n.list \subseteq Inner[n.item])
    BY DEF Works, Like, Emptying
  <1>2. /\ Row(n) /\ n.left \in Seq(Mine(p)) /\ n.items \in Seq(Own(p))
        /\ n.pc \in Handling => n.items # << >> /\ n.item \in Own(p)
    BY DEF Works, Like
  <1>. QED  BY <1>1, <1>2 DEF Works, Like

Fine(p) == \E r : Set(p, r) /\ Works(p, r) /\ Tells(r, journal'[p])

LEMMA GoFine ==
    ASSUME JunkInv, NEW p \in Streaming, NEW s, Go(p, s) \/ \E fs : GoWith(p, s, fs),
           s \notin Ready, s \notin Between => run[p].left # << >>, s \in Handling => run[p].pc \in Handling,
           run[p].pc \notin Emptying \cup {"dead"} \/ s = "dead"
    PROVE  Fine(p)
  <1>. DEFINE r == run[p]  n == [r EXCEPT !.pc = s]
  <1>1. Works(p, r) /\ Row(r)  BY DEF JunkInv, Works
  <1>2. CASE Go(p, s)
    <2>1. Set(p, n)  BY <1>2 DEF Go
    <2>. HIDE DEF r
    <2>2. Like(n, r, s, r.left, r.items)  BY <1>1, RowSet
    <2>. HIDE DEF n
    <2>3. Works(p, n) /\ Tells(n, journal'[p])  BY <1>1, <2>2, GoesOn DEF Tells, Like, r
    <2>. QED  BY <2>1, <2>3 DEF Fine
  <1>3. ASSUME NEW fs, GoWith(p, s, fs) PROVE Fine(p)
    <2>. DEFINE m == [r EXCEPT !.pc = s, !.flags = r.flags \cup fs]
    <2>1. Set(p, m)  BY <1>3 DEF GoWith
    <2>. HIDE DEF r
    <2>2. Like(m, r, s, r.left, r.items)  BY <1>1, RowSet
    <2>. HIDE DEF m
    <2>3. Works(p, m) /\ Tells(m, journal'[p])  BY <1>1, <2>2, GoesOn DEF Tells, Like, r
    <2>. QED  BY <2>1, <2>3 DEF Fine
  <1>. QED  BY <1>2, <1>3

LEMMA RefusedFine ==
    ASSUME JunkInv, NEW p \in Streaming, Refused(p), run[p].left # << >>,
           run[p].pc \notin Emptying \cup {"dead"}
    PROVE  Fine(p)
  <1>. DEFINE r == run[p]  l == Tail(r.left)  n == [r EXCEPT !.pc = "next", !.left = l]
  <1>1. Works(p, r) /\ Row(r)  BY DEF JunkInv, Works
  <1>2. Set(p, n)  BY DEF Refused
  <1>3. r.left # << >> /\ r.pc \notin Emptying \cup {"dead"}  OBVIOUS
  <1>. HIDE DEF r
  <1>7. r.list = {}  BY <1>1, <1>3 DEF Works
  <1>4. l \in Seq(Mine(p))  BY <1>1, <1>3 DEF Works
  <1>. HIDE DEF l
  <1>5. Like(n, r, "next", l, r.items)  BY <1>1, RowSet
  <1>. HIDE DEF n
  <1>6. Works(p, n) /\ Tells(n, journal'[p])
    BY <1>1, <1>4, <1>5, <1>7 DEF Works, Tells, Between, Handling, Ready, Like
  <1>. QED  BY <1>2, <1>6 DEF Fine

\* A step of run p that removes nothing: its journal may grow, and a sweep stays in order.
Quiet(p) == Grown /\ UNCHANGED gone /\ (\E r : Set(p, r)) /\ (p \in Streaming => Fine(p))

LEMMA QuietKeeps ==
    ASSUME JunkInv, NEW p \in Runs, Quiet(p)
    PROVE  JunkInv'
  <1>1. CASE p \in Streaming
    <2>1. PICK r : Set(p, r) /\ Works(p, r) /\ Tells(r, journal'[p])  BY <1>1 DEF Quiet, Fine
    <2>. QED  BY <2>1, StepKeeps DEF Quiet
  <1>2. CASE p \notin Streaming
    <2>1. PICK r : Set(p, r)  BY DEF Quiet
    <2>. QED  BY <1>2, <2>1, StepKeeps DEF Quiet
  <1>. QED  BY <1>1, <1>2

LEMMA GoSets ==
    ASSUME NEW p, NEW s, NEW fs, Go(p, s) \/ GoWith(p, s, fs) \/ Refused(p) \/ Unreadable(p)
                                  \/ Ends(p, s) \/ After(p, s, fs)
    PROVE  \E r : Set(p, r)
  BY DEF Go, GoWith, Refused, Unreadable, Ends, After

LEMMA UnchangedGrows ==
    ASSUME JunkInv, UNCHANGED journal
    PROVE  Grown
  BY DEF JunkInv, Grown, Longer

\* From scope to scope, and the reservation.
LEMMA ScopeQuiet ==
    ASSUME JunkInv, NEW p \in Runs,
           Start(p) \/ NextScope(p) \/ TakeGate(p) \/ Probe(p) \/ Token(p) \/ Publish(p)
    PROVE  Quiet(p)
  <1>1. UNCHANGED gone
    BY DEF Start, NextScope, TakeGate, Probe, Token, Publish
  <1>2. Grown
    <2>1. CASE Start(p)  BY <2>1, RecordsGrow, UnchangedGrows DEF Start, NoCanary, GateBlocks, Declined
    <2>2. CASE NextScope(p)  BY <2>2, RecordsGrow DEF NextScope
    <2>3. CASE TakeGate(p) \/ Probe(p) \/ Token(p) \/ Publish(p)
      BY <2>3, UnchangedGrows DEF TakeGate, Probe, Token, Publish
    <2>. QED  BY <2>1, <2>2, <2>3
  <1>. DEFINE c == run[p].pc
  <1>3. \/ Go(p, "next") \/ Go(p, "over") \/ Go(p, "finish") \/ GoWith(p, "finish", {"skipped"})
        \/ Go(p, "gate") /\ run[p].left # << >>
        \/ (Refused(p) \/ Go(p, "probe") \/ Go(p, "token") \/ Go(p, "publish") \/ Go(p, "open"))
           /\ c \in {"gate", "probe", "token", "publish"}
    <2>1. CASE Start(p)  BY <2>1 DEF Start
    <2>2. CASE NextScope(p)  BY <2>2 DEF NextScope
    <2>3. CASE TakeGate(p)  BY <2>3 DEF TakeGate, At
    <2>4. CASE Probe(p)  BY <2>4 DEF Probe, At
    <2>5. CASE Token(p)  BY <2>5 DEF Token, At
    <2>6. CASE Publish(p)  BY <2>6 DEF Publish, At
    <2>. QED  BY <2>1, <2>2, <2>3, <2>4, <2>5, <2>6
  <1>4. \E r : Set(p, r)  BY <1>3, GoSets
  <1>5. ASSUME p \in Streaming PROVE Fine(p)
    <2>1. c \in {"gate", "probe", "token", "publish"} => run[p].left # << >>
      BY <1>5 DEF JunkInv, Works, Between
    <2>5. run[p].pc \notin Emptying \cup {"dead"}
      BY DEF Start, NextScope, TakeGate, Probe, Token, Publish, At, Emptying
    <2>. HIDE DEF c
    <2>2. CASE Go(p, "next") \/ Go(p, "over") \/ Go(p, "finish") \/ GoWith(p, "finish", {"skipped"})
      <3>1. \A x \in {"next", "over", "finish"} : x \notin Ready /\ x \in Between /\ x \notin Handling
        BY DEF Ready, Handling, Between
      <3>. QED  BY <1>5, <2>2, <2>5, <3>1, GoFine
    <2>3. CASE (Go(p, "gate") \/ Go(p, "probe") \/ Go(p, "token") \/ Go(p, "publish") \/ Go(p, "open"))
               /\ run[p].left # << >>
      BY <1>5, <2>3, <2>5, GoFine DEF Ready, Handling
    <2>4. CASE Refused(p) /\ run[p].left # << >>  BY <1>5, <2>4, <2>5, RefusedFine
    <2>. QED  BY <1>3, <2>1, <2>2, <2>3, <2>4
  <1>. QED  BY <1>1, <1>2, <1>4, <1>5 DEF Quiet

\* The end of a scope, of a run and of a process.
LEMMA EndQuiet ==
    ASSUME JunkInv, NEW p \in Runs,
           Cancelled(p) \/ Lost(p) \/ Close(p) \/ Unlock(p) \/ Unlink(p) \/ Finish(p) \/ Crash(p)
    PROVE  Quiet(p)
  <1>1. UNCHANGED gone
    BY DEF Cancelled, Lost, Close, Unlock, Unlink, Finish, Crash
  <1>2. Grown
    <2>1. CASE Cancelled(p) \/ Lost(p) \/ Close(p) \/ Finish(p)
      BY <2>1, RecordsGrow DEF Cancelled, Lost, Close, Finish
    <2>2. CASE Unlock(p) \/ Unlink(p)  BY <2>2, UnchangedGrows DEF Unlock, Unlink
    <2>3. CASE Crash(p)  BY <2>3, TearGrows DEF Crash
    <2>. QED  BY <2>1, <2>2, <2>3
  <1>. DEFINE r == run[p]  c == r.pc  n == [r EXCEPT !.pc = "over", !.result = Result(p)]
  <1>3. \/ Go(p, "dead")
        \/ Go(p, "finish") /\ c = "unlink"
        \/ (Refused(p) \/ Go(p, "close") \/ Go(p, "unlock") \/ Go(p, "unlink") \/ \E fs : GoWith(p, "close", fs))
           /\ c \in {"cancelled", "lost", "close", "unlock", "unlink"}
        \/ Set(p, n) /\ c = "finish"
    <2>1. CASE Cancelled(p)  BY <2>1 DEF Cancelled, At
    <2>2. CASE Lost(p)  BY <2>2 DEF Lost, At
    <2>3. CASE Close(p)  BY <2>3 DEF Close, At
    <2>4. CASE Unlock(p)  BY <2>4 DEF Unlock, At
    <2>5. CASE Unlink(p)  BY <2>5 DEF Unlink, At
    <2>6. CASE Finish(p)  BY <2>6 DEF Finish, At
    <2>7. CASE Crash(p)  BY <2>7 DEF Crash
    <2>. QED  BY <2>1, <2>2, <2>3, <2>4, <2>5, <2>6, <2>7
  <1>4. \E x : Set(p, x)  BY <1>3, GoSets
  <1>5. ASSUME p \in Streaming PROVE Fine(p)
    <2>1. c \in {"cancelled", "lost", "close", "unlock", "unlink"} => run[p].left # << >>
      BY <1>5 DEF JunkInv, Works, Between
    <2>6. Works(p, r)  BY <1>5 DEF JunkInv
    <2>2. CASE Go(p, "dead")
      BY <1>5, <2>2, GoFine DEF Ready, Handling, Between
    <2>. SUFFICES ASSUME c \in {"cancelled", "lost", "close", "unlock", "unlink", "finish"} PROVE Fine(p)
      BY <1>3, <2>2
    <2>8. c \notin Emptying \cup {"dead"}  BY DEF Emptying
    <2>9. CASE Go(p, "finish")
      BY <1>5, <2>8, <2>9, GoFine DEF Ready, Handling, Between
    <2>3. CASE (Go(p, "close") \/ Go(p, "unlock") \/ Go(p, "unlink")) /\ run[p].left # << >>
      BY <1>5, <2>3, <2>8, GoFine DEF Ready, Handling
    <2>7. CASE (\E fs : GoWith(p, "close", fs)) /\ run[p].left # << >>
      <3>1. "close" \notin Ready /\ "close" \notin Handling  BY DEF Ready, Handling
      <3>. QED  BY <1>5, <2>7, <2>8, <3>1, GoFine
    <2>4. CASE Refused(p) /\ run[p].left # << >>  BY <1>5, <2>4, <2>8, RefusedFine
    <2>5. CASE Set(p, n)
      <3>. HIDE DEF r
      <3>1. Like(n, r, "over", r.left, r.items)  BY <2>6, RowSet DEF Works
      <3>. HIDE DEF n
      <3>2. Works(p, n) /\ Tells(n, journal'[p])
        BY <2>6, <2>8, <3>1, GoesOn DEF Like, Tells, Ready, Handling, Between
      <3>. QED  BY <2>5, <3>2 DEF Fine
    <2>. QED  BY <1>3, <2>1, <2>2, <2>3, <2>4, <2>5, <2>7, <2>9
  <1>. QED  BY <1>1, <1>2, <1>4, <1>5 DEF Quiet

LEMMA StopQuiet ==
    ASSUME JunkInv, NEW p \in Runs, Stop(p)
    PROVE  Quiet(p)
  <1>. DEFINE r == run[p]  fs == r.flags \cup {"stop"}  n == [r EXCEPT !.flags = fs]
  <1>1. UNCHANGED gone /\ Grown /\ Set(p, n) /\ p \in Streaming
    BY UnchangedGrows DEF Stop
  <1>2. Works(p, r) /\ Tells(r, journal[p]) /\ journal' = journal
    BY <1>1 DEF JunkInv, Stop
  <1>. HIDE DEF r, fs
  <1>3. Like(n, r, r.pc, r.left, r.items)  BY <1>2, RowSet DEF Works
  <1>. HIDE DEF n
  <1>4. n.pc \notin Between => r.left # << >>  BY <1>2, <1>3 DEF Works, Like
  <1>5. Works(p, n) /\ Tells(n, journal'[p])
    BY <1>2, <1>3, <1>4, GoesOn DEF Like, Tells
  <1>. QED  BY <1>1, <1>5 DEF Quiet, Fine

\* The walk, the announcement, the last look and the outcome.
LEMMA DoneFine ==
    ASSUME JunkInv, NEW p \in Streaming, NEW s, NEW fs, Set(p, Done(p, s, fs)), s \notin Handling,
           run[p].left # << >>, run[p].items # << >>
    PROVE  Fine(p)
  <1>. DEFINE n == Done(p, s, fs)
  <1>1. /\ Row(n) /\ n.pc = s /\ n.left = run[p].left /\ n.items = Tail(run[p].items) /\ n.list = {}
    BY DEF Row, Done
  <1>2. Works(p, run[p])  BY DEF JunkInv
  <1>3. Tail(run[p].items) \in Seq(Own(p))  BY <1>2 DEF Works
  <1>4. Set(p, n)  OBVIOUS
  <1>. HIDE DEF n
  <1>5. Works(p, n) /\ Tells(n, journal'[p])
    BY <1>1, <1>2, <1>3 DEF Works, Tells, Handling
  <1>. QED  BY <1>4, <1>5 DEF Fine

LEMMA ItemSet ==
    ASSUME NEW r, Row(r), NEW y, NEW z
    PROVE  Taken([r EXCEPT !.pc = "intent", !.item = y, !.seen = z], r, y)
  <1>. DEFINE k == [r EXCEPT !.pc = "intent", !.item = y]  n == [k EXCEPT !.seen = z]
  <1>1. Taken(k, r, y)  BY DEF Row, Taken
  <1>2. [r EXCEPT !.pc = "intent", !.item = y, !.seen = z] = n  OBVIOUS
  <1>. HIDE DEF k
  <1>3. Taken(n, r, y)  BY <1>1 DEF Row, Taken
  <1>. QED  BY <1>2, <1>3

LEMMA OwnItems ==
    ASSUME NEW p \in Runs, NEW s \in Mine(p)
    PROVE  Items[s] \in Seq(Own(p))
  <1>1. s \in Scopes  BY DEF Scopes, Mine
  <1>2. Items[s] \in Seq(In(s))  BY <1>1, SweepConstants
  <1>3. In(s) \subseteq Own(p)  BY DEF Own
  <1>. QED  BY <1>2, <1>3

LEMMA OpenQuiet ==
    ASSUME JunkInv, NEW p \in Runs, Open(p)
    PROVE  Quiet(p)
  <1>1. UNCHANGED gone /\ Grown  BY RecordsGrow DEF Open
  <1>2. \E r : Set(p, r)  BY DEF Open, Go
  <1>3. ASSUME p \in Streaming PROVE Fine(p)
    <2>. DEFINE r == run[p]  new == Items[Scope(p)]  n == [r EXCEPT !.pc = "walk", !.items = new]
    <2>1. Set(p, n) /\ Works(p, r) /\ r.pc = "open"  BY <1>3 DEF Open, At, JunkInv
    <2>2. r.left \in Seq(Mine(p)) /\ r.left # << >> /\ r.list = {}  BY <2>1 DEF Works, Between, Emptying
    <2>3. Head(r.left) \in Mine(p)  BY <2>2
    <2>4. new \in Seq(Own(p))  BY <2>3, OwnItems DEF Scope
    <2>. HIDE DEF r, new
    <2>5. Like(n, r, "walk", r.left, new)  BY <2>1, RowSet DEF Works
    <2>. HIDE DEF n
    <2>6. Works(p, n) /\ Tells(n, journal'[p])
      BY <2>2, <2>4, <2>5 DEF Works, Tells, Like, Handling, Ready
    <2>. QED  BY <2>1, <2>6 DEF Fine
  <1>. QED  BY <1>1, <1>2, <1>3 DEF Quiet

LEMMA WalkQuiet ==
    ASSUME JunkInv, NEW p \in Runs, Walk(p)
    PROVE  Quiet(p)
  <1>. DEFINE r == run[p]  i == Head(r.items)  rest == Tail(r.items)
              n == [r EXCEPT !.items = rest]
              m == [r EXCEPT !.pc = "intent", !.item = i, !.seen = Snapshot(<<i>>)]
  <1>1. UNCHANGED gone  BY DEF Walk
  <1>2. Grown  BY RecordsGrow DEF Walk, Candidate, Unreadable
  <1>3. \E x : Set(p, x)
    <2>1. ASSUME NEW k, Candidate(p, k) PROVE \E x : Set(p, x)
      BY <2>1 DEF Candidate, Unreadable, Go
    <2>. QED  BY <2>1 DEF Walk, Go
  <1>4. ASSUME p \in Streaming PROVE Fine(p)
    <2>1. r.pc = "walk" /\ Works(p, r)  BY <1>4 DEF Walk, At, JunkInv
    <2>2. r.left # << >> /\ r.list = {} /\ r.pc \notin Emptying \cup {"dead"}
      BY <2>1 DEF Works, Between, Emptying
    <2>3. \/ Go(p, "cancelled") \/ Go(p, "close") \/ Go(p, "lost")
          \/ r.items # << >> /\ (Set(p, n) \/ Set(p, Done(p, "walk", {})) \/ Set(p, m))
      BY <1>4 DEF Walk, Candidate, Unreadable
    <2>4. CASE Go(p, "cancelled") \/ Go(p, "close") \/ Go(p, "lost")
      BY <1>4, <2>2, <2>4, GoFine DEF Ready, Handling
    <2>5. CASE r.items # << >> /\ Set(p, Done(p, "walk", {}))
      BY <1>4, <2>2, <2>5, DoneFine DEF Ready, Handling
    <2>. SUFFICES ASSUME r.items # << >>, Set(p, n) \/ Set(p, m) PROVE Fine(p)
      BY <2>3, <2>4, <2>5
    <2>6. i \in Own(p) /\ rest \in Seq(Own(p))  BY <2>1 DEF Works
    <2>. HIDE DEF r, i, rest
    <2>7. CASE Set(p, n)
      <3>1. Like(n, r, r.pc, r.left, rest)  BY <2>1, RowSet DEF Works
      <3>. HIDE DEF n
      <3>2. Works(p, n) /\ Tells(n, journal'[p])
        BY <2>1, <2>6, <3>1 DEF Works, Tells, Like, Ready, Handling
      <3>. QED  BY <2>7, <3>2 DEF Fine
    <2>8. CASE Set(p, m)
      <3>1. Taken(m, r, i)  BY <2>1, ItemSet DEF Works
      <3>. HIDE DEF m
      <3>2. Works(p, m) /\ Tells(m, journal'[p])
        BY <2>1, <2>2, <2>6, <3>1 DEF Works, Tells, Ready, Taken
      <3>. QED  BY <2>8, <3>2 DEF Fine
    <2>. QED  BY <2>7, <2>8
  <1>. QED  BY <1>1, <1>2, <1>3, <1>4 DEF Quiet

\* The run keeps its step and its candidate, or goes on to report an outcome.
LEMMA KeepsFine ==
    ASSUME JunkInv, Grown, NEW p \in Streaming, NEW n, Set(p, n),
           Like(n, run[p], run[p].pc, run[p].left, run[p].items)
    PROVE  Fine(p)
  <1>. DEFINE r == run[p]
  <1>1. Works(p, r) /\ Tells(r, journal[p])  BY DEF JunkInv
  <1>2. p \in Runs  BY SweepConstants
  <1>3. Longer(journal[p], journal'[p])  BY <1>2 DEF Grown
  <1>4. Like(n, r, r.pc, r.left, r.items)  OBVIOUS
  <1>. HIDE DEF r
  <1>5. n.pc \notin Between => r.left # << >>  BY <1>1, <1>4 DEF Works, Like
  <1>6. Works(p, n)  BY <1>1, <1>4, <1>5, GoesOn DEF Like
  <1>7. Tells(n, journal'[p])  BY <1>1, <1>3, <1>4 DEF Tells, Longer, Like
  <1>. QED  BY <1>6, <1>7 DEF Fine

LEMMA ListsFine ==
    ASSUME JunkInv, Grown, NEW p \in Streaming, NEW n, NEW list, Set(p, n),
           Lists(n, run[p], list), run[p].pc = "remove", list \subseteq Inner[run[p].item]
    PROVE  Fine(p)
  <1>. DEFINE r == run[p]
  <1>1. Works(p, r) /\ Tells(r, journal[p])  BY DEF JunkInv
  <1>2. p \in Runs  BY SweepConstants
  <1>3. Longer(journal[p], journal'[p])  BY <1>2 DEF Grown
  <1>4. Lists(n, r, list) /\ r.pc = "remove" /\ list \subseteq Inner[r.item]  OBVIOUS
  <1>. HIDE DEF r
  <1>5. Works(p, n)  BY <1>1, <1>4 DEF Works, Lists, Emptying, Handling, Ready
  <1>6. Tells(n, journal'[p])  BY <1>1, <1>3, <1>4 DEF Tells, Longer, Lists
  <1>. QED  BY <1>5, <1>6 DEF Fine

LEMMA EndsFine ==
    ASSUME JunkInv, NEW p \in Streaming, NEW ev, Ends(p, ev), run[p].pc \in Ready
    PROVE  Fine(p)
  <1>. DEFINE r == run[p]  n == [r EXCEPT !.pc = "outcome", !.event = ev]
  <1>1. Works(p, r) /\ r.pc \in Ready  BY DEF JunkInv
  <1>2. Set(p, n)  BY DEF Ends
  <1>. HIDE DEF r
  <1>3. Like(n, r, "outcome", r.left, r.items)  BY <1>1, RowSet DEF Works
  <1>. HIDE DEF n
  <1>4. Works(p, n)
    BY <1>1, <1>3 DEF Works, Like, Ready, Handling, Emptying, Between
  <1>5. Tells(n, journal'[p])  BY <1>3 DEF Tells, Like, Ready
  <1>. QED  BY <1>2, <1>4, <1>5 DEF Fine

\* The run goes on to look at, or to remove, the candidate its journal tells of.
LEMMA ReadyFine ==
    ASSUME JunkInv, NEW p \in Streaming, NEW c \in Ready, Go(p, c),
           run[p].pc \in {"intent", "check"},
           journal'[p].torn \/ <<"INTENT", run[p].item>> \in journal'[p].lines
    PROVE  Fine(p)
  <1>. DEFINE r == run[p]  n == [r EXCEPT !.pc = c]  k == journal'[p]
  <1>1. Works(p, r) /\ r.pc \in {"intent", "check"}  BY DEF JunkInv
  <1>2. Set(p, n) /\ (k.torn \/ <<"INTENT", r.item>> \in k.lines)  BY DEF Go
  <1>. HIDE DEF r, k
  <1>3. Like(n, r, c, r.left, r.items)  BY <1>1, RowSet DEF Works
  <1>. HIDE DEF n
  <1>4. r.left # << >> /\ r.list = {} /\ r.items # << >> /\ r.item \in Own(p)
    BY <1>1 DEF Works, Between, Handling, Ready, Emptying
  <1>5. Works(p, n)  BY <1>1, <1>3, <1>4 DEF Works, Like
  <1>6. Tells(n, k)  BY <1>2, <1>3 DEF Tells, Like
  <1>. QED  BY <1>2, <1>5, <1>6 DEF Fine, k

LEMMA IntentQuiet ==
    ASSUME JunkInv, NEW p \in Runs, Intent(p)
    PROVE  Quiet(p)
  <1>1. UNCHANGED gone /\ At(p, "intent")  BY DEF Intent
  <1>2. Grown  BY RecordsGrow DEF Intent
  <1>3. \E x : Set(p, x)  BY DEF Intent, Go
  <1>4. ASSUME p \in Streaming PROVE Fine(p)
    <2>1. run[p].pc = "intent" /\ Works(p, run[p])  BY <1>1, <1>4 DEF At, JunkInv
    <2>2. run[p].left # << >> /\ run[p].pc \notin Emptying \cup {"dead"}
      BY <2>1 DEF Works, Between, Emptying
    <2>3. CASE Go(p, "cancelled") \/ Go(p, "lost")
      <3>1. \A x \in {"cancelled", "lost"} : x \notin Ready /\ x \notin Handling
        BY DEF Ready, Handling
      <3>. QED  BY <1>4, <2>2, <2>3, <3>1, GoFine
    <2>4. CASE Written(p, "INTENT", run[p].item) /\ Go(p, "check")
      <3>1. journal'[p].torn \/ <<"INTENT", run[p].item>> \in journal'[p].lines
        BY <2>4, RecordsGrow
      <3>2. "check" \in Ready  BY DEF Ready
      <3>. QED  BY <1>4, <2>1, <2>4, <3>1, <3>2, ReadyFine
    <2>. QED  BY <2>3, <2>4 DEF Intent
  <1>. QED  BY <1>1, <1>2, <1>3, <1>4 DEF Quiet

LEMMA CheckQuiet ==
    ASSUME JunkInv, NEW p \in Runs, Check(p)
    PROVE  Quiet(p)
  <1>1. UNCHANGED <<gone, journal>> /\ At(p, "check")  BY DEF Check
  <1>2. Grown  BY <1>1, UnchangedGrows
  <1>3. (\E ev : Ends(p, ev)) \/ Go(p, "remove")  BY DEF Check
  <1>4. \E x : Set(p, x)  BY <1>3 DEF Ends, Go
  <1>5. ASSUME p \in Streaming PROVE Fine(p)
    <2>1. run[p].pc = "check" /\ Tells(run[p], journal[p])  BY <1>1, <1>5 DEF At, JunkInv
    <2>2. run[p].pc \in Ready /\ "remove" \in Ready  BY <2>1 DEF Ready
    <2>3. journal'[p].torn \/ <<"INTENT", run[p].item>> \in journal'[p].lines
      BY <1>1, <2>1, <2>2 DEF Tells
    <2>. QED  BY <1>3, <1>5, <2>1, <2>2, <2>3, EndsFine, ReadyFine
  <1>. QED  BY <1>1, <1>2, <1>4, <1>5 DEF Quiet

LEMMA IdentifyQuiet ==
    ASSUME JunkInv, NEW p \in Runs, Identify(p)
    PROVE  Quiet(p)
  <1>. DEFINE i == run[p].item  list == {x \in Inner[i] : world[x] # 0}
              n == [run[p] EXCEPT !.before = world[i], !.list = list]
  <1>1. UNCHANGED gone /\ At(p, "remove")  BY DEF Identify
  <1>2. Grown  BY RecordsGrow DEF Identify, Unreadable
  <1>3. \E x : Set(p, x)  BY DEF Identify, Unreadable, Go
  <1>4. ASSUME p \in Streaming PROVE Fine(p)
    <2>1. run[p].pc = "remove" /\ Works(p, run[p])  BY <1>1, <1>4 DEF At, JunkInv
    <2>2. Set(p, n) \/ Set(p, Done(p, "walk", {}))  BY <1>4 DEF Identify, Unreadable
    <2>3. CASE Set(p, n)
      <3>1. Lists(n, run[p], list)  BY <2>1, RowSet DEF Works
      <3>2. list \subseteq Inner[run[p].item]  OBVIOUS
      <3>. HIDE DEF list, n
      <3>. QED  BY <1>2, <1>4, <2>1, <2>3, <3>1, <3>2, ListsFine
    <2>4. CASE Set(p, Done(p, "walk", {}))
      <3>1. run[p].left # << >> /\ run[p].items # << >> /\ "walk" \notin Handling
        BY <2>1 DEF Works, Between, Handling, Ready
      <3>. QED  BY <1>4, <2>4, <3>1, DoneFine
    <2>. QED  BY <2>2, <2>3, <2>4
  <1>. QED  BY <1>1, <1>2, <1>3, <1>4 DEF Quiet

LEMMA OutcomeQuiet ==
    ASSUME JunkInv, NEW p \in Runs, Outcome(p)
    PROVE  Quiet(p)
  <1>1. UNCHANGED gone /\ At(p, "outcome")  BY DEF Outcome
  <1>2. Grown  BY RecordsGrow DEF Outcome
  <1>3. \E s \in {"walk", "lost"} : \E fs : Set(p, Done(p, s, fs))  BY DEF Outcome, After
  <1>4. ASSUME p \in Streaming PROVE Fine(p)
    <2>1. run[p].pc = "outcome" /\ Works(p, run[p])  BY <1>1, <1>4 DEF At, JunkInv
    <2>2. run[p].left # << >> /\ run[p].items # << >>
      BY <2>1 DEF Works, Between, Handling
    <2>3. \A s \in {"walk", "lost"} : s \notin Handling  BY DEF Handling, Ready
    <2>. QED  BY <1>3, <1>4, <2>2, <2>3, DoneFine
  <1>. QED  BY <1>1, <1>2, <1>3, <1>4 DEF Quiet

\* The removal: what a sweep takes away lies in the candidate it announced, and in no other.
LEMMA RemovedIsTold ==
    ASSUME JunkInv, NEW p \in Streaming, run[p].pc = "remove", NEW n \in Tree(run[p].item)
    PROVE  Told(p, journal[p], gone[p] \cup {n})
  <1>. DEFINE j == journal[p]  g == gone[p]  c == run[p].item
  <1>1. /\ c \in Own(p) /\ Told(p, j, g)
        /\ j.torn \/ <<"INTENT", c>> \in j.lines
    BY DEF JunkInv, Works, Tells, Ready, Handling
  <1>2. ASSUME ~j.torn, NEW i \in Own(p), Tree(i) \cap (g \cup {n}) # {}
        PROVE  <<"INTENT", i>> \in j.lines
    <2>1. CASE i = c  BY <1>1, <1>2, <2>1
    <2>2. CASE i # c
      <3>1. Tree(i) \cap Tree(c) = {}  BY <1>1, <2>2, SweepConstants
      <3>2. Tree(i) \cap g # {}  BY <1>2, <3>1
      <3>. QED  BY <1>1, <1>2, <3>2 DEF Told
    <2>. QED  BY <2>1, <2>2
  <1>. QED  BY <1>2 DEF Told

LEMMA RemovalKeeps ==
    ASSUME JunkInv, NEW p \in Runs, run[p].pc = "remove", UNCHANGED journal, NEW r, Set(p, r),
           UNCHANGED gone \/ \E n : Removes(p, n) /\ (p \in Streaming => n \in Tree(run[p].item)),
           p \in Streaming => Fine(p)
    PROVE  JunkInv'
  <1>1. CASE UNCHANGED gone
    <2>1. Grown  BY UnchangedGrows
    <2>2. Quiet(p)  BY <1>1, <2>1 DEF Quiet
    <2>. QED  BY <2>2, QuietKeeps
  <1>2. ASSUME NEW n, Removes(p, n), p \in Streaming => n \in Tree(run[p].item) PROVE JunkInv'
    <2>1. DOMAIN gone' = Runs /\ gone'[p] = gone[p] \cup {n} /\ \A q \in Runs : q # p => gone'[q] = gone[q]
      BY <1>2 DEF Removes, JunkInv
    <2>2. DOMAIN run' = Runs /\ \A q \in Runs : q # p => run'[q] = run[q]
      BY DEF JunkInv, Set
    <2>3. ASSUME NEW q \in Streaming
          PROVE  Works(q, run'[q]) /\ Tells(run'[q], journal'[q]) /\ Told(q, journal'[q], gone'[q])
      <3>1. q \in Runs  BY SweepConstants
      <3>2. CASE q = p
        <4>1. PICK m : Set(p, m) /\ Works(p, m) /\ Tells(m, journal'[p])  BY <3>2 DEF Fine
        <4>2. run'[p] = m  BY <4>1 DEF Set, JunkInv
        <4>3. Told(p, journal'[p], gone'[p])  BY <1>2, <2>1, <3>2, RemovedIsTold
        <4>. QED  BY <3>2, <4>1, <4>2, <4>3
      <3>3. CASE q # p  BY <2>1, <2>2, <3>1, <3>3 DEF JunkInv
      <3>. QED  BY <3>2, <3>3
    <2>. QED  BY <2>1, <2>2, <2>3 DEF JunkInv
  <1>. QED  BY <1>1, <1>2

LEMMA RemoveKeeps ==
    ASSUME JunkInv, NEW p \in Runs, RemoveFile(p) \/ RemoveTree(p)
    PROVE  JunkInv'
  <1>. DEFINE r == run[p]  i == r.item  t == [r EXCEPT !.tries = r.tries + 1]
              L(x) == r.list \ {x}  n(x) == [r EXCEPT !.list = L(x)]
  <1>1. r.pc = "remove" /\ UNCHANGED journal  BY DEF RemoveFile, RemoveTree, At
  <1>2. Grown  BY <1>1, UnchangedGrows
  <1>3. \/ (UNCHANGED gone \/ Removes(p, i)) /\ (\/ \E ev : Ends(p, ev)
                                                \/ Set(p, t))
        \/ \E x \in r.list : Removes(p, x) /\ Set(p, n(x))
    <2>1. CASE RemoveFile(p)  BY <2>1 DEF RemoveFile, Kept
    <2>2. CASE RemoveTree(p)  BY <2>2 DEF RemoveTree, Kept
    <2>. QED  BY <2>1, <2>2
  <1>4. i \in Tree(i)  BY DEF Tree
  <1>5. p \in Streaming => Works(p, r)  BY DEF JunkInv
  <1>6. CASE (UNCHANGED gone \/ Removes(p, i)) /\ \E ev : Ends(p, ev)
    <2>1. p \in Streaming => Fine(p)  BY <1>1, <1>6, EndsFine DEF Ready
    <2>2. \E x : Set(p, x)  BY <1>6 DEF Ends
    <2>. QED  BY <1>1, <1>4, <1>6, <2>1, <2>2, RemovalKeeps
  <1>7. CASE (UNCHANGED gone \/ Removes(p, i)) /\ Set(p, t)
    <2>1. ASSUME p \in Streaming PROVE Fine(p)
      <3>1. Like(t, r, r.pc, r.left, r.items)  BY <1>5, <2>1, RowSet DEF Works
      <3>. QED  BY <1>2, <1>7, <2>1, <3>1, KeepsFine
    <2>. QED  BY <1>1, <1>4, <1>7, <2>1, RemovalKeeps
  <1>8. ASSUME NEW x \in r.list, Removes(p, x), Set(p, n(x)) PROVE JunkInv'
    <2>1. ASSUME p \in Streaming PROVE Fine(p) /\ x \in Tree(i)
      <3>1. r.list \subseteq Inner[i]  BY <1>1, <1>5, <1>8, <2>1 DEF Works
      <3>2. Lists(n(x), r, L(x))  BY <1>5, <2>1, RowSet DEF Works
      <3>3. L(x) \subseteq Inner[i]  BY <3>1
      <3>4. Fine(p)  BY <1>1, <1>2, <1>8, <2>1, <3>2, <3>3, ListsFine
      <3>. QED  BY <1>8, <3>1, <3>4 DEF Tree
    <2>. QED  BY <1>1, <1>8, <2>1, RemovalKeeps
  <1>. QED  BY <1>3, <1>6, <1>7, <1>8

LEMMA JunkKeeps ==
    ASSUME JunkInv, [Next]_vars
    PROVE  JunkInv'
  <1>1. CASE UNCHANGED vars  BY <1>1 DEF vars, JunkInv
  <1>2. ASSUME NEW p \in Runs, RunStep(p) \/ Stop(p) \/ Crash(p) PROVE JunkInv'
    <2>1. CASE RemoveFile(p) \/ RemoveTree(p)  BY <2>1, RemoveKeeps
    <2>2. CASE ~(RemoveFile(p) \/ RemoveTree(p))
      <3>1. Quiet(p)
        BY <1>2, <2>2, ScopeQuiet, OpenQuiet, WalkQuiet, IntentQuiet, CheckQuiet, IdentifyQuiet,
           OutcomeQuiet, EndQuiet, StopQuiet DEF RunStep
      <3>. QED  BY <3>1, QuietKeeps
    <2>. QED  BY <2>1, <2>2
  <1>3. ASSUME (\E n \in Nodes : Put(n)) \/ (\E i \in Cands : TakeAway(i)) PROVE JunkInv'
    <2>1. UNCHANGED <<run, journal, gone>>  BY <1>3 DEF Put, TakeAway
    <2>. QED  BY <2>1 DEF JunkInv
  <1>. QED  BY <1>1, <1>2, <1>3 DEF Next, Rest

LEMMA JunkInit == Init => JunkInv
  <1>. SUFFICES ASSUME Init PROVE JunkInv  OBVIOUS
  <1>1. /\ DOMAIN run = Runs /\ \A p \in Runs : run[p] = Fresh(p)
        /\ DOMAIN journal = Runs /\ \A p \in Runs : journal[p] = [lines |-> {}, torn |-> FALSE]
        /\ DOMAIN gone = Runs /\ \A p \in Runs : gone[p] = {}
    BY DEF Init
  <1>2. \A p \in Runs : Journal(journal[p])  BY <1>1 DEF Journal
  <1>3. ASSUME NEW p \in Streaming
        PROVE  Works(p, run[p]) /\ Tells(run[p], journal[p]) /\ Told(p, journal[p], gone[p])
    <2>1. p \in Runs  BY SweepConstants
    <2>2. /\ Row(Fresh(p)) /\ Fresh(p).pc = "idle" /\ Fresh(p).left = Targets[p]
          /\ Fresh(p).items = << >> /\ Fresh(p).list = {}
      BY DEF Row, Fresh
    <2>3. Targets[p] \in Seq(Mine(p))  BY <2>1, SweepConstants
    <2>6. << >> \in Seq(Own(p)) /\ "idle" \notin Handling /\ "idle" \notin Ready
      BY DEF Handling, Ready
    <2>7. Works(p, Fresh(p))  BY <2>2, <2>3, <2>6 DEF Works, Between
    <2>8. Tells(Fresh(p), journal[p])  BY <2>2, <2>6 DEF Tells
    <2>4. Works(p, run[p]) /\ Tells(run[p], journal[p])
      BY <1>1, <2>1, <2>7, <2>8
    <2>5. Told(p, journal[p], gone[p])  BY <1>1, <2>1 DEF Told
    <2>. QED  BY <2>4, <2>5
  <1>. QED  BY <1>1, <1>2, <1>3 DEF JunkInv

\* For any disks, candidates and runs, whatever fails to be written and whatever other
\* programs change meanwhile: what a sweep of all disks has removed of a candidate is
\* announced in its journal, or an earlier record of it was torn (DEL_JUNK.PYW writes
\* INTENT and syncs it before it removes anything).
THEOREM RemovedStaysAnnounced == Spec => []RemovedIsAnnounced
  <1>1. ASSUME JunkInv PROVE RemovedIsAnnounced
    <2>1. ASSUME NEW p \in Streaming, NEW i, <<"INTENT", i>> \in journal[p].lines
          PROVE  i \in Parsed(p, "INTENT")
      <3>. DEFINE l == <<"INTENT", i>>
      <3>1. l[1] = "INTENT" /\ l[2] = i  OBVIOUS
      <3>. HIDE DEF l
      <3>2. l \in journal[p].lines  BY <2>1 DEF l
      <3>3. l \in {x \in journal[p].lines : x[1] = "INTENT"}  BY <3>1, <3>2
      <3>. QED  BY <3>1, <3>3 DEF Parsed
    <2>2. ASSUME NEW p \in Streaming PROVE Announced(p)
      BY <1>1, <2>1 DEF JunkInv, Announced, Told
    <2>. QED  BY <2>2 DEF RemovedIsAnnounced
  <1>. QED  BY <1>1, JunkInit, JunkKeeps, PTL DEF Spec

-----------------------------------------------------------------------------
(* The watcher of processes. *)

Streaked(q, r) == W!Unbroken(q, r)
SeenWith(i, v, sn) == Append(IF i \in DOMAIN sn THEN sn[i] ELSE <<>>, v.at)

\* What was decided is what will have been seen.
Pending(v, sn) ==
    v.step = "decided" => \A i \in DOMAIN v.next : i \in v.hot /\ Streaked(SeenWith(i, v, sn), v.next[i])

\* The clock and the samples have times; a streak on disk, and one that is decided but not
\* saved yet, is what was seen, the sweep under way included.
SpinInv ==
    /\ now \in Nat /\ (w.step \in {"sampled", "decided"} => w.at \in Nat)
    /\ \A i \in DOMAIN seen : seen[i] \in Seq(Nat)
    /\ \A i \in DOMAIN streaks : i \in DOMAIN seen /\ Streaked(seen[i], streaks[i])
    /\ Pending(w, seen)

LEMMA StreakBegins ==
    ASSUME NEW q \in Seq(Nat), NEW at \in Nat, NEW r, r.first = at, r.last = at, r.hits = 1
    PROVE  Streaked(Append(q, at), r)
  <1>. DEFINE s == Append(q, at)
  <1>1. s \in Seq(Nat) /\ Len(s) = Len(q) + 1 /\ s[Len(q) + 1] = at /\ Len(q) \in Nat
    OBVIOUS
  <1>. HIDE DEF s
  <1>2. r.hits \in 1 .. Len(s) /\ Len(s) - r.hits + 1 = Len(s)  BY <1>1
  <1>3. Streaked(s, r)  BY <1>1, <1>2 DEF Streaked, W!Unbroken
  <1>. QED  BY <1>3 DEF s

LEMMA StreakGoesOn ==
    ASSUME NEW q \in Seq(Nat), NEW at \in Nat, NEW old, Streaked(q, old), at - old.last <= StaleGap,
           NEW r, r.first = old.first, r.last = at, r.hits = old.hits + 1
    PROVE  Streaked(Append(q, at), r)
  <1>. DEFINE s == Append(q, at)  n == Len(q)  from == n - old.hits + 1
  <1>1. /\ s \in Seq(Nat) /\ Len(s) = n + 1 /\ s[n + 1] = at /\ n \in Nat
        /\ \A k \in 1 .. n : s[k] = q[k]
    OBVIOUS
  <1>2. /\ old.hits \in 1 .. n /\ q[from] = old.first /\ q[n] = old.last
        /\ \A k \in from .. n - 1 : q[k + 1] - q[k] <= StaleGap
    BY DEF Streaked, W!Unbroken
  <1>7. r.hits = old.hits + 1  OBVIOUS
  <1>. HIDE DEF s, n
  <1>3. r.hits \in 1 .. Len(s) /\ Len(s) - r.hits + 1 = from /\ from \in 1 .. n
    <2>. DEFINE h == old.hits
    <2>1. h \in 1 .. n /\ n \in Nat  BY <1>1, <1>2
    <2>. HIDE DEF h
    <2>2. h + 1 \in 1 .. n + 1 /\ n + 1 - (h + 1) + 1 = n - h + 1 /\ n - h + 1 \in 1 .. n
      BY <2>1
    <2>. QED  BY <1>1, <1>7, <2>2 DEF h
  <1>4. s[from] = r.first /\ s[Len(s)] = r.last  BY <1>1, <1>2, <1>3
  <1>5. ASSUME NEW k \in from .. Len(s) - 1 PROVE s[k + 1] - s[k] <= StaleGap
    <2>1. CASE k = n  BY <1>1, <1>2, <2>1
    <2>2. CASE k # n
      <3>1. k \in from .. n - 1 /\ k \in 1 .. n /\ k + 1 \in 1 .. n
        BY <1>1, <1>2, <1>3, <1>5, <2>2
      <3>. QED  BY <1>1, <1>2, <3>1
    <2>. QED  BY <2>1, <2>2
  <1>6. Streaked(s, r)  BY <1>3, <1>4, <1>5 DEF Streaked, W!Unbroken
  <1>. QED  BY <1>6 DEF s

\* The engine extends what is on disk by the sample of its sweep, or begins anew.
LEMMA StreaksDecided ==
    ASSUME SpinInv, w.step = "sampled", NEW i \in DOMAIN W!NextStreaks
    PROVE  Streaked(SeenWith(i, w, seen), W!NextStreaks[i])
  <1>. DEFINE q == IF i \in DOMAIN seen THEN seen[i] ELSE <<>>
              old == streaks[i]  r == W!Streak(i, w.at)
  <1>1. W!NextStreaks[i] = r /\ SeenWith(i, w, seen) = Append(q, w.at)
    BY DEF W!NextStreaks, SeenWith
  <1>2. w.at \in Nat /\ q \in Seq(Nat)  BY DEF SpinInv
  <1>3. CASE i \in DOMAIN streaks /\ w.at - old.last <= StaleGap /\ W!Prior(i, w.at) = old
    <2>1. q = seen[i] /\ Streaked(seen[i], old)  BY <1>3 DEF SpinInv
    <2>2. r.first = old.first /\ r.last = w.at /\ r.hits = old.hits + 1
      BY <1>3 DEF W!Streak
    <2>. HIDE DEF q, old, r
    <2>3. Streaked(q, old)  BY <2>1
    <2>. QED  BY <1>1, <1>2, <1>3, <2>2, <2>3, StreakGoesOn
  <1>4. CASE W!Prior(i, w.at) = [first |-> w.at, last |-> w.at, hits |-> 0]
    <2>1. r.first = w.at /\ r.last = w.at /\ r.hits = 1  BY <1>4 DEF W!Streak
    <2>. HIDE DEF q, r
    <2>. QED  BY <1>1, <1>2, <2>1, StreakBegins
  <1>5. \/ i \in DOMAIN streaks /\ w.at - old.last <= StaleGap /\ W!Prior(i, w.at) = old
        \/ W!Prior(i, w.at) = [first |-> w.at, last |-> w.at, hits |-> 0]
    BY DEF W!Prior, W!History
  <1>. QED  BY <1>3, <1>4, <1>5

LEMMA DecideHolds ==
    ASSUME SpinInv, W!Decide
    PROVE  SpinInv'
  <1>. DEFINE next == W!NextStreaks
  <1>1. w.step = "sampled" /\ w' = W!Answer(next) /\ UNCHANGED <<now, streaks, seen>>
    BY DEF W!Decide, W!Stay, W!files, W!ghosts
  <1>2. /\ w'.step = "decided" /\ w'.at = w.at /\ w'.next = next
        /\ w'.hot = {j \in DOMAIN w.samples : W!Tracked(w.samples[j])}
    BY <1>1 DEF W!Answer
  <1>3. DOMAIN next = w'.hot  BY <1>2 DEF W!NextStreaks
  <1>4. ASSUME NEW i \in DOMAIN next PROVE i \in w'.hot /\ Streaked(SeenWith(i, w', seen'), next[i])
    <2>1. Streaked(SeenWith(i, w, seen), next[i])  BY <1>1, <1>4, StreaksDecided
    <2>2. SeenWith(i, w', seen') = SeenWith(i, w, seen)  BY <1>1, <1>2 DEF SeenWith
    <2>. QED  BY <1>3, <1>4, <2>1, <2>2
  <1>. HIDE DEF next
  <1>5. Pending(w', seen')  BY <1>2, <1>4 DEF Pending
  <1>. QED  BY <1>1, <1>2, <1>5 DEF SpinInv

\* What is written is what was decided, and what was seen is then seen.
LEMMA SaveHolds ==
    ASSUME SpinInv, W!Save
    PROVE  SpinInv'
  <1>1. w.step = "decided" /\ UNCHANGED now  BY DEF W!Save, W!Stay
  <1>2. w'.step = "acting"  BY DEF W!Save, W!Acting
  <1>5. Pending(w', seen')  BY <1>2 DEF Pending
  <1>3. CASE UNCHANGED <<streaks, seen>>  BY <1>1, <1>2, <1>3, <1>5 DEF SpinInv
  <1>4. CASE streaks' = w.next /\ seen' = [i \in w.hot |-> W!Seen(i)]
    <2>1. DOMAIN seen' = w.hot /\ \A i \in w.hot : seen'[i] = SeenWith(i, w, seen)
      BY <1>4 DEF W!Seen, SeenWith
    <2>2. ASSUME NEW i \in w.hot PROVE SeenWith(i, w, seen) \in Seq(Nat)
      BY <1>1 DEF SpinInv, SeenWith
    <2>3. ASSUME NEW i \in DOMAIN w.next PROVE i \in w.hot /\ Streaked(SeenWith(i, w, seen), w.next[i])
      BY <1>1 DEF SpinInv, Pending
    <2>. QED  BY <1>1, <1>2, <1>4, <1>5, <2>1, <2>2, <2>3 DEF SpinInv
  <1>. QED  BY <1>3, <1>4 DEF W!Save

LEMMA QuietHolds ==
    ASSUME SpinInv, UNCHANGED <<streaks, seen>>, now' \in Nat,
           \/ w' = w
           \/ w'.step = "sampled" /\ w'.at = now
           \/ w'.step \notin {"sampled", "decided"}
    PROVE  SpinInv'
  <1>1. CASE w' = w  BY <1>1 DEF SpinInv
  <1>2. CASE w' # w
    <2>1. w'.step # "decided" /\ (w'.step = "sampled" => w'.at = now)  BY <1>2
    <2>2. Pending(w', seen')  BY <2>1 DEF Pending
    <2>. QED  BY <2>1, <2>2 DEF SpinInv
  <1>. QED  BY <1>1, <1>2

LEMMA WatchHolds ==
    ASSUME SpinInv, [W!Next]_spinVars
    PROVE  SpinInv'
  <1>1. CASE W!Machine
    <2>1. CASE W!Tick \/ W!Damage
      <3>1. UNCHANGED <<streaks, seen, w>> /\ now' \in Nat
        BY <2>1 DEF SpinInv, W!Tick, W!Damage, W!files, W!ghosts
      <3>. QED  BY <3>1, QuietHolds DEF SpinInv
    <2>2. ASSUME NEW p \in Pid, W!Start(p) \/ W!Exit(p) PROVE SpinInv'
      <3>1. UNCHANGED <<streaks, seen, w, now>>
        BY <2>2 DEF W!Start, W!Exit, W!files, W!ghosts
      <3>. QED  BY <3>1, QuietHolds DEF SpinInv
    <2>. QED  BY <1>1, <2>1, <2>2 DEF W!Machine
  <1>2. CASE W!Holders
    <2>1. UNCHANGED <<streaks, seen, w, now>>
      BY <1>2 DEF W!Holders, W!Call, W!Return, W!Cleanup, W!files, W!ghosts
    <2>. QED  BY <2>1, QuietHolds DEF SpinInv
  <1>3. ASSUME NEW arm \in BOOLEAN, W!Sample(arm) PROVE SpinInv'
    <2>1. w'.step = "sampled" /\ w'.at = now /\ UNCHANGED <<streaks, seen, now>>
      BY <1>3 DEF W!Sample, W!Stay, W!files, W!ghosts
    <2>. QED  BY <2>1, QuietHolds DEF SpinInv
  <1>4. CASE W!Gate2 \/ W!Stop \/ W!Tell \/ W!Enter \/ W!Die \/ \E i \in W!Id : W!Gate1(i)
    <2>1. UNCHANGED <<streaks, seen, now>>
      BY <1>4 DEF W!Gate2, W!Stop, W!Tell, W!Enter, W!Die, W!Gate1, W!Stay, W!files, W!ghosts
    <2>2. w'.step \notin {"sampled", "decided"}
      <3>1. CASE W!Gate2  BY <3>1 DEF W!Gate2, W!Said, W!AtGate
      <3>2. CASE W!Stop  BY <3>2 DEF W!Stop, W!Said
      <3>3. CASE W!Tell  BY <3>3 DEF W!Tell
      <3>4. CASE W!Enter \/ W!Die  BY <3>4 DEF W!Enter, W!Die, W!Idle
      <3>5. CASE \E i \in W!Id : W!Gate1(i)  BY <3>5 DEF W!Gate1, W!Said, W!AtGate
      <3>. QED  BY <1>4, <3>1, <3>2, <3>3, <3>4, <3>5
    <2>. QED  BY <2>1, <2>2, QuietHolds DEF SpinInv
  <1>5. CASE UNCHANGED spinVars
    <2>1. UNCHANGED <<streaks, seen, w, now>>  BY <1>5 DEF spinVars
    <2>. QED  BY <2>1, QuietHolds DEF SpinInv
  <1>. QED  BY <1>1, <1>2, <1>3, <1>4, <1>5, DecideHolds, SaveHolds DEF W!Next, W!Sweep

LEMMA WatchInit == W!Init => SpinInv
  <1>. SUFFICES ASSUME W!Init PROVE SpinInv  OBVIOUS
  <1>1. now = 0 /\ w.step = "idle" /\ streaks = <<>> /\ seen = <<>>  BY DEF W!Init, W!Idle
  <1>2. DOMAIN streaks = {} /\ DOMAIN seen = {}  BY <1>1
  <1>. QED  BY <1>1, <1>2 DEF SpinInv, Pending

\* For any thresholds, processes and callers, whatever fails, is damaged or is interrupted,
\* and whoever takes over a number: a streak on disk is that many samples on end of that
\* very process, all hot and none further from the next than the gap (decide and the
\* saving of its answer).
THEOREM StreaksAreTrue == AllSpec => []StreakIsTrue
  <1>1. AllInit => SpinInv  BY WatchInit DEF AllInit
  <1>2. SpinInv /\ [AllNext]_<<part, junkVars, dupVars, spinVars>> => SpinInv'
    BY WatchHolds DEF AllNext
  <1>3. SpinInv => StreakIsTrue  BY DEF SpinInv, StreakIsTrue, W!StreakIsTrue, Streaked
  <1>. QED  BY <1>1, <1>2, <1>3, PTL DEF AllSpec

=============================================================================
