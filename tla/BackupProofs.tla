----------------------------- MODULE BackupProofs -----------------------------
(***************************************************************************)
(* Theorems about BackupStore, for any publishers, any number of           *)
(* generations and any amount of decay: the file operations implement      *)
(* BackupArchive, and a recovery that ends has healed the directory.       *)
(*                                                                         *)
(* The invariant says what a staged generation holds at each step of the   *)
(* publisher that owns it, that a generation once renamed holds its        *)
(* payload or a ruin of it, and what a maintenance operation, which runs   *)
(* alone, has established so far.                                          *)
(*                                                                         *)
(* And about BackupPublisher, for any number of threads and of keys.  A    *)
(* key passes from the lock that derives it to the request, from the       *)
(* request to the thread that takes it, and is wiped by whoever has it     *)
(* last.  The invariant says that at any moment it has one owner: then     *)
(* nobody wipes a key under another, and none is left behind.              *)
(***************************************************************************)
EXTENDS MCBackup, WellFoundedInduction, TLAPS

Staging == {"copy", "describe", "verify", "commit"}

\* The generations in generations/ or in quarantine are those ever published; a payload
\* there is the one that was published, a ruin of it or lost.
Generations ==
    /\ \A g \in Gen : g >= next => dir[g] = "absent"
    /\ \A g \in Gen : published[g] # NoFile <=> dir[g] \in {"committed", "quarantined"}
    /\ \A g \in Gen : dir[g] \in {"committed", "quarantined"} => vault[g] \in {published[g], -g, NoFile}
    /\ current # NoGen => published[current] # NoFile

\* A publisher inside publish_backup has a generation of its own, staged by then or
\* published already.
Writing(p) ==
    LET g == own[p].gen IN
    /\ g \in Gen /\ g < next
    /\ pc[p] \in Staging => dir[g] = "staging"
    /\ pc[p] \notin Staging => published[g] # NoFile
    /\ pc[p] \in Staging \ {"copy"} => own[p].sha \in Versions
    /\ pc[p] \in {"verify", "commit"} => meta[g].sha = own[p].sha
    /\ pc[p] = "commit" => vault[g] \in {own[p].sha, -g, NoFile}

Publishing ==
    /\ \A p \in Publishers : IF pc[p] = "idle" THEN own[p] = Idle ELSE Writing(p)
    /\ \A p, q \in Publishers : p # q /\ own[p].gen = own[q].gen => own[p].gen = NoGen

\* What a recovery has chosen, and what it has made of it.
Copied == flat = [vault |-> vault[current], meta |-> meta[current]]
Recovering ==
    /\ job.gen \in Gen /\ Verifies(job.gen, job.keyed) /\ job.gen \notin job.todo
    /\ job.pc = "repoint" /\ ~job.corrupt => current = job.gen
    /\ job.pc # "repoint" => current = job.gen
    /\ job.pc \in {"flat vault", "flat meta"} => job.tmp = [vault |-> vault[current], meta |-> meta[current]]
    /\ job.pc = "flat meta" => flat.vault = job.tmp.vault
    /\ job.pc \in {"list", "siblings", "done"} => Copied

Maintaining ==
    /\ job.pc # "idle" => \A p \in Publishers : pc[p] = "idle"
    /\ job.pc # "idle" /\ job.kind = "recover" => Recovering
    /\ job.pc \in {"repoint", "list", "siblings"} => job.kind = "recover"

IInv == TypeOK /\ Generations /\ Publishing /\ Maintaining

-----------------------------------------------------------------------------
\* Versions, the ruins of payloads and the absence of a file are told apart.
LEMMA Numbers ==
    /\ Versions \subseteq Payload /\ NoFile \in Payload /\ NoFile \notin Versions
    /\ Garbled \notin Payload /\ NoGen \notin Gen /\ Gen \subseteq Nat
    /\ \A g \in Gen : -g \in Payload /\ -g \notin Versions /\ -g # Garbled /\ -g # NoFile
  BY StoreConstants DEF Versions, Payload, NoFile, Garbled, NoGen, Gen

\* A set of generations that is not empty has a newest one.
LEMMA NewestIs ==
    ASSUME NEW G \in SUBSET Gen, G # {}
    PROVE  Newest(G) \in G
  <1>. DEFINE R == OpToRel(<, Nat)
              T == {MaxGen - g : g \in G}
  <1>1. IsWellFoundedOn(R, Nat)  BY NatLessThanWellFounded
  <1>2. T \subseteq Nat /\ T # {}
    <2>1. \A g \in Gen : MaxGen - g \in Nat  BY StoreConstants DEF Gen
    <2>. QED  BY <2>1
  <1>3. PICK x \in T : \A y \in T : <<y, x>> \notin R
    <2>. HIDE DEF R, T
    <2>. QED  BY <1>1, <1>2, WFMin
  <1>4. \A y \in T : ~(y < x)
    <2>1. \A y \in Nat, z \in Nat : y < z => <<y, z>> \in R  BY DEF OpToRel
    <2>. QED
      <3>. HIDE DEF R, T
      <3>. QED  BY <1>2, <1>3, <2>1
  <1>5. PICK g \in G : x = MaxGen - g  BY <1>3
  <1>6. \A h \in G : h <= g
    <2>1. SUFFICES ASSUME NEW h \in G PROVE h <= g
      OBVIOUS
    <2>2. ~(MaxGen - h < MaxGen - g)  BY <1>4, <1>5
    <2>. QED  BY <2>2, StoreConstants DEF Gen
  <1>. QED  BY <1>6 DEF Newest

-----------------------------------------------------------------------------
\* What the abstract archive sees of a generation, and its steps in these terms.
Seen(g) == IF Verifies(g, FALSE) THEN vault[g] ELSE NoFile
Implemented == Archive!Next \/ UNCHANGED Archive!archive

LEMMA SeenSame ==
    ASSUME NEW g \in Gen, dir'[g] = dir[g], vault'[g] = vault[g], meta'[g] = meta[g]
    PROVE  Seen(g)' = Seen(g)
  BY DEF Seen, Verifies, Matches

LEMMA SeenNot ==
    ASSUME NEW g \in Gen
    PROVE  /\ dir[g] # "committed" => Seen(g) = NoFile
           /\ dir'[g] # "committed" => Seen(g)' = NoFile
  BY DEF Seen, Verifies

LEMMA Stutters ==
    ASSUME UNCHANGED <<published, current>>, \A g \in Gen : Seen(g)' = Seen(g)
    PROVE  Implemented
  BY DEF Implemented, Archive!archive, Seen

LEMMA Decays ==
    ASSUME UNCHANGED <<published, current>>, NEW g \in Gen, Seen(g)' = NoFile,
           \A h \in Gen \ {g} : Seen(h)' = Seen(h)
    PROVE  Implemented
  <1>1. CASE Seen(g) = NoFile
    BY <1>1, Stutters
  <1>2. CASE Seen(g) # NoFile
    <2>1. Archive!Decay(g)  BY <1>2 DEF Archive!Decay, Seen
    <2>. QED  BY <2>1 DEF Implemented, Archive!Next
  <1>. QED  BY <1>1, <1>2

LEMMA Attests ==
    ASSUME UNCHANGED <<published, current>>, NEW g \in Gen, published[g] # NoFile,
           Seen(g) \in {NoFile, published[g]}, Seen(g)' = published[g],
           \A h \in Gen \ {g} : Seen(h)' = Seen(h)
    PROVE  Implemented
  <1>1. CASE Seen(g) = published[g]
    BY <1>1, Stutters
  <1>2. CASE Seen(g) = NoFile
    <2>1. Archive!Attest(g)  BY <1>2 DEF Archive!Attest, Seen
    <2>. QED  BY <2>1 DEF Implemented, Archive!Next
  <1>. QED  BY <1>1, <1>2

LEMMA Publishes ==
    ASSUME UNCHANGED current, NEW g \in Gen, NEW v \in Versions, published[g] = NoFile,
           published' = [published EXCEPT ![g] = v], Seen(g)' \in {v, NoFile},
           \A h \in Gen \ {g} : Seen(h)' = Seen(h)
    PROVE  Implemented
  <1>1. Archive!Publish(g, v)  BY DEF Archive!Publish, Seen
  <1>. QED  BY <1>1 DEF Implemented, Archive!Next

LEMMA Selects ==
    ASSUME UNCHANGED published, NEW g \in Gen, published[g] # NoFile, current' = g,
           \A h \in Gen : Seen(h)' = Seen(h)
    PROVE  Implemented
  <1>1. Archive!Select(g)  BY DEF Archive!Select, Seen
  <1>. QED  BY <1>1 DEF Implemented, Archive!Next

-----------------------------------------------------------------------------
LEMMA Shapes ==
    /\ NoSidecar.sha = NoFile
    /\ NoPair \in Pair /\ Idle \in Own /\ Idle.gen = NoGen
    /\ NoJob \in Job /\ NoJob.pc = "idle" /\ NoJob.kind = "reconcile" /\ NoJob.todo = {}
  <1>1. NoSidecar.sha = NoFile /\ NoPair \in Pair
    BY Numbers DEF NoSidecar, NoPair, Pair, NoFile
  <1>2. Idle \in Own /\ Idle.gen = NoGen
    <2>. HIDE DEF NoPair
    <2>. QED  BY <1>1 DEF Idle, Own
  <1>3. NoJob \in Job /\ NoJob.pc = "idle" /\ NoJob.kind = "reconcile" /\ NoJob.todo = {}
    BY <1>1 DEF NoJob, Job, JobSteps
  <1>. QED  BY <1>1, <1>2, <1>3

LEMMA Goes ==
    ASSUME TypeOK, NEW p \in Publishers, NEW to \in Steps \cup {"idle"}, Goto(p, to)
    PROVE  /\ pc' \in [Publishers -> Steps \cup {"idle"}] /\ pc'[p] = to
           /\ \A q \in Publishers \ {p} : pc'[q] = pc[q]
  BY DEF TypeOK, Goto

LEMMA Owns ==
    ASSUME TypeOK, NEW p \in Publishers, NEW o \in Own, own' = [own EXCEPT ![p] = o]
    PROVE  /\ own' \in [Publishers -> Own] /\ own'[p] = o
           /\ \A q \in Publishers \ {p} : own'[q] = own[q]
  BY DEF TypeOK

LEMMA Leaves ==
    ASSUME TypeOK, NEW p \in Publishers, Leave(p)
    PROVE  /\ pc' \in [Publishers -> Steps \cup {"idle"}] /\ pc'[p] = "idle"
           /\ own' \in [Publishers -> Own] /\ own'[p] = Idle
           /\ \A q \in Publishers \ {p} : pc'[q] = pc[q] /\ own'[q] = own[q]
  BY Shapes, Owns DEF TypeOK, Leave

\* A publisher inside publish_backup excludes maintenance, and shares its generation with
\* no other.
LEMMA Apart ==
    ASSUME IInv, NEW p \in Publishers, pc[p] # "idle"
    PROVE  /\ job.pc = "idle" /\ Writing(p) /\ own[p] \in Own /\ own[p].gen \in Gen /\ own[p].gen < next
           /\ \A q \in Publishers \ {p} : own[q].gen # own[p].gen
  <1>1. Writing(p) /\ own[p] \in Own /\ job.pc = "idle"  BY DEF IInv, Publishing, Maintaining, TypeOK
  <1>2. own[p].gen \in Gen /\ own[p].gen < next  BY <1>1 DEF Writing
  <1>3. \A q \in Publishers \ {p} : own[q].gen # own[p].gen
    BY <1>2, Numbers DEF IInv, Publishing
  <1>. QED  BY <1>1, <1>2, <1>3

\* The others go on with what is theirs.
LEMMA OthersWrite ==
    ASSUME IInv, NEW p \in Publishers, next' \in Nat, next <= next',
           \A q \in Publishers \ {p} : pc'[q] = pc[q] /\ own'[q] = own[q],
           own'[p].gen \in {own[p].gen, NoGen, next},
           \A q \in Publishers \ {p} : pc[q] # "idle" =>
               LET g == own[q].gen IN
               dir'[g] = dir[g] /\ vault'[g] = vault[g] /\ meta'[g] = meta[g] /\ published'[g] = published[g],
           IF pc'[p] = "idle" THEN own'[p] = Idle ELSE Writing(p)'
    PROVE  Publishing'
  <1>. USE Numbers
  <1>0. next \in Nat  BY StoreConstants DEF IInv, TypeOK
  <1>1. ASSUME NEW q \in Publishers \ {p}
        PROVE  IF pc'[q] = "idle" THEN own'[q] = Idle ELSE Writing(q)'
    <2>1. CASE pc[q] = "idle"  BY <1>1, <2>1 DEF IInv, Publishing
    <2>2. CASE pc[q] # "idle"
      <3>1. Writing(q)  BY <1>1, <2>2 DEF IInv, Publishing
      <3>2. own[q].gen \in Nat  BY <3>1 DEF Writing
      <3>3. Writing(q)'  BY <1>0, <1>1, <2>2, <3>1, <3>2 DEF Writing
      <3>. QED  BY <1>1, <2>2, <3>3
    <2>. QED  BY <2>1, <2>2
  <1>2. ASSUME NEW q \in Publishers, NEW r \in Publishers, q # r, own'[q].gen = own'[r].gen
        PROVE  own'[q].gen = NoGen
    <2>1. \A t \in Publishers : own[t].gen = NoGen \/ (own[t].gen \in Nat /\ own[t].gen < next)
      BY Shapes DEF IInv, Publishing, Writing
    <2>2. \A t, u \in Publishers : t # u /\ own[t].gen = own[u].gen => own[t].gen = NoGen
      BY DEF IInv, Publishing
    <2>3. \A t \in Publishers \ {p} : own'[t].gen = own[t].gen  OBVIOUS
    <2>4. next # NoGen  BY <1>0 DEF IInv, TypeOK, NoGen
    <2>. QED  BY <1>0, <1>2, <2>1, <2>2, <2>3, <2>4
  <1>. QED  BY <1>1, <1>2 DEF Publishing

LEMMA NoMaintenance ==
    ASSUME job.pc = "idle", UNCHANGED job
    PROVE  Maintaining'
  BY DEF Maintaining

\* A step of a publisher that leaves the generations alone.
LEMMA PublisherFrame ==
    ASSUME IInv, NEW p \in Publishers, pc[p] # "idle",
           UNCHANGED <<source, dir, vault, meta, current, next, job, damage, published, signed>>,
           pc' \in [Publishers -> Steps \cup {"idle"}], own' \in [Publishers -> Own],
           \A q \in Publishers \ {p} : pc'[q] = pc[q] /\ own'[q] = own[q],
           own'[p].gen \in {own[p].gen, NoGen},
           previous' \in Gen \cup {NoGen}, flat' \in Pair, before' \in Pair,
           IF pc'[p] = "idle" THEN own'[p] = Idle ELSE Writing(p)'
    PROVE  IInv' /\ Implemented
  <1>1. TypeOK'  BY DEF IInv, TypeOK
  <1>2. Generations'  BY DEF IInv, Generations
  <1>3. next' \in Nat /\ next <= next'  BY StoreConstants DEF IInv, TypeOK
  <1>4. Publishing'  BY <1>3, OthersWrite
  <1>5. Maintaining'  BY Apart, NoMaintenance
  <1>6. \A g \in Gen : Seen(g)' = Seen(g)  BY SeenSame
  <1>7. Implemented  BY <1>6, Stutters
  <1>. QED  BY <1>1, <1>2, <1>4, <1>5, <1>7 DEF IInv

\* A generation that is published is its publisher's to the end.
LEMMA Onward ==
    ASSUME NEW p \in Publishers, Writing(p), pc'[p] \notin Staging, own'[p].gen = own[p].gen,
           UNCHANGED <<next, published>>, published[own[p].gen] # NoFile
    PROVE  Writing(p)'
  BY DEF Writing, Staging

LEMMA ReadHolds ==
    ASSUME IInv, NEW p \in Publishers, ReadCurrent(p) \/ PointPrevious(p) \/ Duplicate(p)
    PROVE  IInv' /\ Implemented
  <1>1. /\ pc[p] \in {"read", "demote", "duplicate"}
        /\ UNCHANGED <<source, dir, vault, meta, current, flat, before, next, job, damage, published, signed>>
    BY DEF ReadCurrent, PointPrevious, Duplicate, Advance, files, history
  <1>2. TypeOK /\ Writing(p) /\ own[p] \in Own /\ own[p].gen \in Gen
    BY <1>1, Apart DEF IInv
  <1>3. published[own[p].gen] # NoFile  BY <1>1, <1>2 DEF Writing, Staging
  <1>4. \E to \in {"point", "rotate vault", "place vault"} : Goto(p, to)
    BY DEF ReadCurrent, PointPrevious, Duplicate, Advance
  <1>5. /\ pc' \in [Publishers -> Steps \cup {"idle"}] /\ pc'[p] \in {"point", "rotate vault", "place vault"}
        /\ \A q \in Publishers \ {p} : pc'[q] = pc[q]
    <2>1. PICK to \in {"point", "rotate vault", "place vault"} : Goto(p, to)  BY <1>4
    <2>2. to \in Steps \cup {"idle"}  BY DEF Steps
    <2>. QED  BY <1>2, <2>1, <2>2, Goes
  <1>6. /\ own' \in [Publishers -> Own] /\ own'[p].gen = own[p].gen
        /\ \A q \in Publishers \ {p} : own'[q] = own[q]
    <2>1. CASE ReadCurrent(p)
      <3>1. PICK old \in {current, NoGen} : own' = [own EXCEPT ![p] = [own[p] EXCEPT !.old = old]]
        BY <2>1 DEF ReadCurrent
      <3>2. [own[p] EXCEPT !.old = old] \in Own /\ [own[p] EXCEPT !.old = old].gen = own[p].gen
        BY <1>2 DEF Own, TypeOK
      <3>. QED  BY <1>2, <3>1, <3>2, Owns
    <2>2. CASE PointPrevious(p)
      BY <1>2, <2>2 DEF PointPrevious, TypeOK
    <2>3. CASE Duplicate(p)
      <3>0. DEFINE pair == [vault |-> vault[own[p].gen], meta |-> meta[own[p].gen]]
      <3>1. own' = [own EXCEPT ![p] = [own[p] EXCEPT !.tmp = pair]]
        BY <2>3 DEF Duplicate
      <3>2. pair \in Pair
        BY <1>2 DEF TypeOK, Pair
      <3>3. [own[p] EXCEPT !.tmp = pair] \in Own /\ [own[p] EXCEPT !.tmp = pair].gen = own[p].gen
        BY <1>2, <3>2 DEF Own
      <3>. QED  BY <1>2, <3>1, <3>3, Owns
    <2>. QED  BY <2>1, <2>2, <2>3
  <1>7. previous' \in Gen \cup {NoGen}
    <2>1. previous \in Gen \cup {NoGen} /\ own[p].old \in Gen \cup {NoGen}  BY <1>2 DEF TypeOK, Own
    <2>. QED  BY <2>1 DEF ReadCurrent, PointPrevious, Duplicate, files
  <1>8. flat \in Pair /\ before \in Pair  BY <1>2 DEF TypeOK
  <1>9. pc'[p] # "idle" /\ Writing(p)'
    <2>1. pc'[p] \notin Staging /\ pc'[p] # "idle"  BY <1>5 DEF Staging
    <2>. QED  BY <1>1, <1>2, <1>3, <1>6, <2>1, Onward
  <1>. QED  BY <1>1, <1>5, <1>6, <1>7, <1>8, <1>9, PublisherFrame

\* The flat files change; the generations do not.
LEMMA RotateHolds ==
    ASSUME IInv, NEW p \in Publishers, RotateVault(p) \/ RotateMeta(p) \/ PlaceVault(p) \/ PlaceMeta(p)
    PROVE  IInv' /\ Implemented
  <1>1. /\ pc[p] \in {"rotate vault", "rotate meta", "place vault", "place meta"}
        /\ UNCHANGED <<source, dir, vault, meta, current, previous, next, job, damage, published, signed>>
    BY DEF RotateVault, RotateMeta, PlaceVault, PlaceMeta, Advance, history
  <1>2. TypeOK /\ Writing(p) /\ own[p] \in Own /\ own[p].gen \in Gen
    BY <1>1, Apart DEF IInv
  <1>3. published[own[p].gen] # NoFile  BY <1>1, <1>2 DEF Writing, Staging
  <1>4. /\ flat \in Pair /\ before \in Pair /\ own[p].tmp \in Pair /\ previous \in Gen \cup {NoGen}
        /\ NoFile \in Payload /\ NoSidecar \in Sidecar \cup {NoSidecar}
    BY <1>2, Numbers DEF TypeOK, Own
  <1>5. flat' \in Pair /\ before' \in Pair
    <2>1. CASE RotateVault(p)
      <3>1. PICK r \in Rotated(flat.vault, before.vault, NoFile) :
              flat' = [flat EXCEPT !.vault = r[1]] /\ before' = [before EXCEPT !.vault = r[2]]
        BY <2>1 DEF RotateVault
      <3>2. r[1] \in Payload /\ r[2] \in Payload  BY <1>4 DEF Rotated, Pair
      <3>. QED  BY <1>4, <3>1, <3>2 DEF Pair
    <2>2. CASE RotateMeta(p)
      <3>1. PICK r \in Rotated(flat.meta, before.meta, NoSidecar) :
              flat' = [flat EXCEPT !.meta = r[1]] /\ before' = [before EXCEPT !.meta = r[2]]
        BY <2>2 DEF RotateMeta
      <3>2. r[1] \in Sidecar \cup {NoSidecar} /\ r[2] \in Sidecar \cup {NoSidecar}
        BY <1>4 DEF Rotated, Pair
      <3>. QED  BY <1>4, <3>1, <3>2 DEF Pair
    <2>3. CASE PlaceVault(p) \/ PlaceMeta(p)
      BY <1>4, <2>3 DEF PlaceVault, PlaceMeta, Pair
    <2>. QED  BY <2>1, <2>2, <2>3
  <1>6. CASE RotateVault(p) \/ RotateMeta(p) \/ PlaceVault(p)
    <2>1. UNCHANGED own /\ \E to \in {"rotate meta", "duplicate", "place meta"} : Goto(p, to)
      BY <1>6 DEF RotateVault, RotateMeta, PlaceVault, Advance
    <2>2. PICK to \in {"rotate meta", "duplicate", "place meta"} : Goto(p, to)  BY <2>1
    <2>3. to \in Steps \cup {"idle"} /\ to # "idle" /\ to \notin Staging  BY DEF Steps, Staging
    <2>4. /\ pc' \in [Publishers -> Steps \cup {"idle"}] /\ pc'[p] = to
          /\ \A q \in Publishers \ {p} : pc'[q] = pc[q]
      BY <1>2, <2>2, <2>3, Goes
    <2>5. Writing(p)'  BY <1>1, <1>2, <1>3, <2>1, <2>3, <2>4, Onward
    <2>6. own' \in [Publishers -> Own]  BY <1>2, <2>1 DEF TypeOK
    <2>. QED  BY <1>1, <1>4, <1>5, <2>1, <2>3, <2>4, <2>5, <2>6, PublisherFrame
  <1>7. CASE PlaceMeta(p)
    <2>1. /\ pc' \in [Publishers -> Steps \cup {"idle"}] /\ pc'[p] = "idle"
          /\ own' \in [Publishers -> Own] /\ own'[p] = Idle
          /\ \A q \in Publishers \ {p} : pc'[q] = pc[q] /\ own'[q] = own[q]
      BY <1>2, <1>7, Leaves DEF PlaceMeta
    <2>. QED  BY <1>1, <1>4, <1>5, <2>1, Shapes, PublisherFrame
  <1>. QED  BY <1>6, <1>7

\* The process dies where it stands; what it had staged stays, an orphan.
LEMMA CrashHolds ==
    ASSUME IInv, NEW p \in Publishers, Crash(p)
    PROVE  IInv' /\ Implemented
  <1>1. /\ pc[p] # "idle"
        /\ UNCHANGED <<source, dir, vault, meta, current, previous, flat, before, next, job, damage, published, signed>>
    BY DEF Crash, files, history
  <1>2. TypeOK  BY DEF IInv
  <1>3. /\ pc' \in [Publishers -> Steps \cup {"idle"}] /\ pc'[p] = "idle"
        /\ own' \in [Publishers -> Own] /\ own'[p] = Idle
        /\ \A q \in Publishers \ {p} : pc'[q] = pc[q] /\ own'[q] = own[q]
    BY <1>2, Leaves DEF Crash
  <1>4. flat \in Pair /\ before \in Pair /\ previous \in Gen \cup {NoGen}  BY <1>2 DEF TypeOK
  <1>. QED  BY <1>1, <1>3, <1>4, Shapes, PublisherFrame

-----------------------------------------------------------------------------
\* A staged generation is nothing yet to the archive.
LEMMA Staged ==
    ASSUME IInv, NEW p \in Publishers, pc[p] \in Staging
    PROVE  /\ pc[p] # "idle" /\ job.pc = "idle" /\ TypeOK /\ Writing(p) /\ own[p] \in Own
           /\ own[p].gen \in Gen /\ own[p].gen < next /\ dir[own[p].gen] = "staging"
           /\ published[own[p].gen] = NoFile
           /\ \A q \in Publishers \ {p} : own[q].gen # own[p].gen
  <1>1. pc[p] # "idle"  BY DEF Staging
  <1>2. Writing(p) /\ own[p].gen \in Gen  BY <1>1, Apart
  <1>3. dir[own[p].gen] = "staging"  BY <1>2 DEF Writing
  <1>4. published[own[p].gen] = NoFile  BY <1>2, <1>3 DEF IInv, Generations
  <1>. QED  BY <1>1, <1>2, <1>3, <1>4, Apart DEF IInv

\* A step of a publisher on what it has staged.
LEMMA StagingFrame ==
    ASSUME IInv, NEW p \in Publishers, pc[p] \in Staging,
           UNCHANGED <<source, current, previous, flat, before, next, job, damage, published, signed>>,
           \A g \in Gen \ {own[p].gen} : dir'[g] = dir[g] /\ vault'[g] = vault[g] /\ meta'[g] = meta[g],
           dir' \in [Gen -> {"absent", "staging", "committed", "quarantined"}],
           dir'[own[p].gen] \in {"absent", "staging"},
           vault' \in [Gen -> Payload], meta' \in [Gen -> Sidecar \cup {NoSidecar}],
           pc' \in [Publishers -> Steps \cup {"idle"}], own' \in [Publishers -> Own],
           \A q \in Publishers \ {p} : pc'[q] = pc[q] /\ own'[q] = own[q],
           own'[p].gen \in {own[p].gen, NoGen},
           IF pc'[p] = "idle" THEN own'[p] = Idle ELSE Writing(p)'
    PROVE  IInv' /\ Implemented
  <1>. DEFINE g == own[p].gen
  <1>0. /\ g \in Gen /\ g < next /\ dir[g] = "staging" /\ published[g] = NoFile /\ job.pc = "idle"
        /\ \A q \in Publishers \ {p} : own[q].gen # g
    BY Staged
  <1>. HIDE DEF g
  <1>1. TypeOK'  BY DEF IInv, TypeOK
  <1>2. Generations'
    <2>1. next \in Nat /\ Gen \subseteq Nat  BY StoreConstants, Numbers DEF IInv, TypeOK
    <2>2. \A h \in Gen \ {g} : dir'[h] = dir[h] /\ vault'[h] = vault[h]  BY DEF g
    <2>3. dir'[g] \in {"absent", "staging"}  BY DEF g
    <2>4. \A h \in Gen : h >= next => h # g  BY <1>0, <2>1
    <2>. QED  BY <1>0, <2>2, <2>3, <2>4 DEF IInv, Generations
  <1>3. Publishing'
    <2>1. next' \in Nat /\ next <= next'  BY StoreConstants DEF IInv, TypeOK
    <2>2. \A q \in Publishers \ {p} : pc[q] # "idle" => own[q].gen \in Gen \ {g}
      BY <1>0, Apart
    <2>. QED  BY <2>1, <2>2, OthersWrite DEF g
  <1>4. Maintaining'  BY <1>0, NoMaintenance
  <1>5. \A h \in Gen : Seen(h)' = Seen(h)
    <2>1. PICK c \in Gen : c = g  BY <1>0
    <2>2. Seen(c)' = NoFile /\ Seen(c) = NoFile
      <3>1. dir'[c] # "committed" /\ dir[c] # "committed"  BY <1>0, <2>1 DEF g
      <3>. QED  BY <3>1, SeenNot
    <2>3. \A h \in Gen \ {c} : Seen(h)' = Seen(h)  BY <2>1, SeenSame DEF g
    <2>. QED  BY <2>2, <2>3
  <1>6. Implemented  BY <1>5, Stutters
  <1>. QED  BY <1>1, <1>2, <1>3, <1>4, <1>6 DEF IInv

\* The payload is copied, described and read back.
LEMMA StageHolds ==
    ASSUME IInv, NEW p \in Publishers, Copy(p) \/ Describe(p) \/ VerifyStaged(p)
    PROVE  IInv' /\ Implemented
  <1>. DEFINE g == own[p].gen
  <1>1. /\ pc[p] \in Staging
        /\ UNCHANGED <<source, dir, current, previous, flat, before, next, job, damage, published, signed>>
    BY DEF Copy, Describe, VerifyStaged, Advance, Staging, files, history
  <1>2. TypeOK /\ Writing(p) /\ own[p] \in Own /\ g \in Gen /\ g < next /\ dir[g] = "staging"
    BY <1>1, Staged
  <1>3. source \in Versions /\ source \in Payload  BY <1>2, Numbers DEF TypeOK
  <1>4. CASE Copy(p)
    <2>1. pc[p] = "copy" /\ Goto(p, "describe")  BY <1>4 DEF Copy, Advance
    <2>2. /\ pc' \in [Publishers -> Steps \cup {"idle"}] /\ pc'[p] = "describe"
          /\ \A q \in Publishers \ {p} : pc'[q] = pc[q]
      <3>1. "describe" \in Steps \cup {"idle"}  BY DEF Steps
      <3>. QED  BY <1>2, <2>1, <3>1, Goes
    <2>3. /\ own' \in [Publishers -> Own] /\ own'[p].gen = g /\ own'[p].sha = source
          /\ \A q \in Publishers \ {p} : own'[q] = own[q]
      <3>1. own' = [own EXCEPT ![p] = [own[p] EXCEPT !.sha = source]]  BY <1>4 DEF Copy
      <3>2. /\ [own[p] EXCEPT !.sha = source] \in Own
            /\ [own[p] EXCEPT !.sha = source].gen = g /\ [own[p] EXCEPT !.sha = source].sha = source
        BY <1>2, <1>3 DEF Own
      <3>. QED  BY <1>2, <3>1, <3>2, Owns
    <2>4. vault' = [vault EXCEPT ![g] = source] /\ meta' = meta  BY <1>4 DEF Copy
    <2>5. vault' \in [Gen -> Payload] /\ \A h \in Gen \ {g} : vault'[h] = vault[h]
      BY <1>2, <1>3, <2>4 DEF TypeOK
    <2>6. Writing(p)'
      <3>1. own'[p].gen \in Gen /\ own'[p].gen < next' /\ dir'[own'[p].gen] = "staging"
        BY <1>1, <1>2, <2>3
      <3>. QED  BY <1>3, <2>2, <2>3, <3>1 DEF Writing, Staging
    <2>7. pc'[p] # "idle" /\ meta' \in [Gen -> Sidecar \cup {NoSidecar}] /\ dir' \in [Gen -> {"absent", "staging", "committed", "quarantined"}]
      BY <1>1, <1>2, <2>2, <2>4 DEF TypeOK
    <2>. QED  BY <1>1, <1>2, <2>2, <2>3, <2>4, <2>5, <2>6, <2>7, StagingFrame
  <1>5. CASE Describe(p)
    <2>1. pc[p] = "describe" /\ Goto(p, "verify") /\ own' = own /\ vault' = vault
      BY <1>5 DEF Describe, Advance
    <2>2. own[p].sha \in Versions  BY <1>2, <2>1 DEF Writing, Staging
    <2>3. /\ pc' \in [Publishers -> Steps \cup {"idle"}] /\ pc'[p] = "verify"
          /\ \A q \in Publishers \ {p} : pc'[q] = pc[q]
      <3>1. "verify" \in Steps \cup {"idle"}  BY DEF Steps
      <3>. QED  BY <1>2, <2>1, <3>1, Goes
    <2>4. PICK sidecar \in Sidecar : sidecar.sha = own[p].sha /\ meta' = [meta EXCEPT ![g] = sidecar]
      <3>0. DEFINE s == [of |-> own[p].gen, sha |-> own[p].sha,
                         mac |-> IF own[p].keyed THEN "good" ELSE "none", rebuilt |-> FALSE]
      <3>1. s \in Sidecar /\ s.sha = own[p].sha
        BY <1>2, <2>2 DEF Sidecar, Mac
      <3>2. meta' = [meta EXCEPT ![g] = s]  BY <1>5 DEF Describe
      <3>. QED  BY <3>1, <3>2
    <2>5. /\ meta' \in [Gen -> Sidecar \cup {NoSidecar}] /\ meta'[g].sha = own[p].sha
          /\ \A h \in Gen \ {g} : meta'[h] = meta[h]
      BY <1>2, <2>4 DEF TypeOK
    <2>6. Writing(p)'
      BY <1>1, <1>2, <2>1, <2>2, <2>3, <2>5 DEF Writing, Staging
    <2>7. pc'[p] # "idle" /\ vault' \in [Gen -> Payload] /\ own' \in [Publishers -> Own]
          /\ dir' \in [Gen -> {"absent", "staging", "committed", "quarantined"}]
      BY <1>1, <1>2, <2>1, <2>3 DEF TypeOK
    <2>. QED  BY <1>1, <1>2, <2>1, <2>3, <2>5, <2>6, <2>7, StagingFrame
  <1>6. CASE VerifyStaged(p)
    <2>1. pc[p] = "verify" /\ Goto(p, "commit") /\ vault[g] = own[p].sha /\ UNCHANGED <<own, vault, meta>>
      BY <1>6 DEF VerifyStaged, Advance, files
    <2>2. own[p].sha \in Versions /\ meta[g].sha = own[p].sha  BY <1>2, <2>1 DEF Writing, Staging
    <2>3. /\ pc' \in [Publishers -> Steps \cup {"idle"}] /\ pc'[p] = "commit"
          /\ \A q \in Publishers \ {p} : pc'[q] = pc[q]
      <3>1. "commit" \in Steps \cup {"idle"}  BY DEF Steps
      <3>. QED  BY <1>2, <2>1, <3>1, Goes
    <2>4. Writing(p)'
      BY <1>1, <1>2, <2>1, <2>2, <2>3 DEF Writing, Staging
    <2>5. pc'[p] # "idle" /\ vault' \in [Gen -> Payload] /\ own' \in [Publishers -> Own]
          /\ meta' \in [Gen -> Sidecar \cup {NoSidecar}]
          /\ dir' \in [Gen -> {"absent", "staging", "committed", "quarantined"}]
      BY <1>1, <1>2, <2>1, <2>3 DEF TypeOK
    <2>. QED  BY <1>1, <1>2, <2>1, <2>3, <2>4, <2>5, StagingFrame
  <1>. QED  BY <1>4, <1>5, <1>6

\* What fails removes what it has staged, and nothing it has published.
LEMMA FailHolds ==
    ASSUME IInv, NEW p \in Publishers, Fail(p)
    PROVE  IInv' /\ Implemented
  <1>. DEFINE g == own[p].gen
  <1>1. /\ pc[p] # "idle"
        /\ UNCHANGED <<source, current, previous, flat, before, next, job, damage, published, signed>>
    BY DEF Fail, history
  <1>2. TypeOK /\ Writing(p) /\ g \in Gen  BY <1>1, Apart DEF IInv
  <1>3. /\ pc' \in [Publishers -> Steps \cup {"idle"}] /\ pc'[p] = "idle"
        /\ own' \in [Publishers -> Own] /\ own'[p] = Idle
        /\ \A q \in Publishers \ {p} : pc'[q] = pc[q] /\ own'[q] = own[q]
    BY <1>2, Leaves DEF Fail
  <1>4. CASE dir[g] = "staging"
    <2>1. pc[p] \in Staging
      BY <1>2, <1>4 DEF IInv, Generations, Writing
    <2>2. /\ dir' = [dir EXCEPT ![g] = "absent"] /\ vault' = [vault EXCEPT ![g] = NoFile]
          /\ meta' = [meta EXCEPT ![g] = NoSidecar]
      BY <1>4 DEF Fail
    <2>3. /\ dir' \in [Gen -> {"absent", "staging", "committed", "quarantined"}] /\ dir'[g] = "absent"
          /\ vault' \in [Gen -> Payload] /\ meta' \in [Gen -> Sidecar \cup {NoSidecar}]
          /\ \A h \in Gen \ {g} : dir'[h] = dir[h] /\ vault'[h] = vault[h] /\ meta'[h] = meta[h]
      BY <1>2, <2>2, Numbers DEF TypeOK
    <2>. QED  BY <1>1, <1>3, <2>1, <2>3, Shapes, StagingFrame
  <1>5. CASE dir[g] # "staging"
    <2>1. UNCHANGED <<dir, vault, meta>>  BY <1>5 DEF Fail
    <2>2. flat \in Pair /\ before \in Pair /\ previous \in Gen \cup {NoGen}  BY <1>2 DEF TypeOK
    <2>. QED  BY <1>1, <1>3, <2>1, <2>2, Shapes, PublisherFrame
  <1>. QED  BY <1>4, <1>5

\* A new attempt takes the next gen_id and removes what dead ones have left.
LEMMA BeginHolds ==
    ASSUME IInv, NEW p \in Publishers, Begin(p)
    PROVE  IInv' /\ Implemented
  <1>1. /\ pc[p] = "idle" /\ job.pc = "idle" /\ next <= MaxGen /\ next' = next + 1 /\ Goto(p, "copy")
        /\ UNCHANGED <<source, current, previous, flat, before, job, damage, published, signed>>
    BY DEF Begin, history
  <1>2. TypeOK  BY DEF IInv
  <1>3. next \in Gen /\ next' \in Nat /\ next <= next' /\ next' \in 1..(MaxGen + 1) /\ next < next'
    BY <1>1, <1>2, StoreConstants DEF TypeOK, Gen
  <1>4. /\ pc' \in [Publishers -> Steps \cup {"idle"}] /\ pc'[p] = "copy"
        /\ \A q \in Publishers \ {p} : pc'[q] = pc[q]
    <2>1. "copy" \in Steps \cup {"idle"}  BY DEF Steps
    <2>. QED  BY <1>1, <1>2, <2>1, Goes
  <1>5. /\ own' \in [Publishers -> Own] /\ own'[p].gen = next
        /\ \A q \in Publishers \ {p} : own'[q] = own[q]
    <2>1. PICK keyed \in BOOLEAN : own' = [own EXCEPT ![p] = [Idle EXCEPT !.gen = next, !.keyed = keyed]]
      BY DEF Begin
    <2>2. /\ [Idle EXCEPT !.gen = next, !.keyed = keyed] \in Own
          /\ [Idle EXCEPT !.gen = next, !.keyed = keyed].gen = next
      BY <1>3, Shapes DEF Own
    <2>. QED  BY <1>2, <2>1, <2>2, Owns
  <1>6. PICK stale \in SUBSET Orphans :
          /\ dir' = [g \in Gen |-> IF g = next THEN "staging"
                                   ELSE IF g \in stale THEN "absent" ELSE dir[g]]
          /\ vault' = [g \in Gen |-> IF g \in stale THEN NoFile ELSE vault[g]]
          /\ meta' = [g \in Gen |-> IF g \in stale THEN NoSidecar ELSE meta[g]]
    BY DEF Begin
  <1>7. /\ \A g \in stale : g \in Gen /\ dir[g] = "staging" /\ \A q \in Publishers : own[q].gen # g
        /\ dir[next] = "absent"
    <2>1. \A g \in stale : g \in Gen /\ dir[g] = "staging" /\ \A q \in Publishers : own[q].gen # g
      BY DEF Orphans
    <2>2. next >= next  BY <1>3, Numbers
    <2>. QED  BY <1>3, <2>1, <2>2 DEF IInv, Generations
  <1>8. \A g \in Gen : published[g] = NoFile \/ dir[g] \in {"committed", "quarantined"}
    BY DEF IInv, Generations
  <1>9. TypeOK'
    <2>1. /\ dir' \in [Gen -> {"absent", "staging", "committed", "quarantined"}]
          /\ vault' \in [Gen -> Payload] /\ meta' \in [Gen -> Sidecar \cup {NoSidecar}]
      BY <1>2, <1>6, Numbers DEF TypeOK
    <2>. QED  BY <1>1, <1>2, <1>3, <1>4, <1>5, <2>1 DEF TypeOK
  <1>10. Generations'
    <2>1. \A g \in Gen : g >= next' => dir'[g] = "absent"
      <3>1. SUFFICES ASSUME NEW g \in Gen, g >= next' PROVE dir'[g] = "absent"
        OBVIOUS
      <3>2. g >= next /\ g # next  BY <1>1, <1>3, <3>1, Numbers
      <3>. QED  BY <1>6, <3>2 DEF IInv, Generations
    <2>2. \A g \in Gen : published'[g] # NoFile <=> dir'[g] \in {"committed", "quarantined"}
      BY <1>1, <1>6, <1>7 DEF IInv, Generations
    <2>3. \A g \in Gen : dir'[g] \in {"committed", "quarantined"} => vault'[g] \in {published'[g], -g, NoFile}
      BY <1>1, <1>6, <1>7 DEF IInv, Generations
    <2>. QED  BY <1>1, <2>1, <2>2, <2>3 DEF IInv, Generations
  <1>11. Publishing'
    <2>1. Writing(p)'
      BY <1>3, <1>4, <1>5, <1>6 DEF Writing, Staging
    <2>2. ASSUME NEW q \in Publishers \ {p}, pc[q] # "idle"
          PROVE  LET g == own[q].gen IN
                 dir'[g] = dir[g] /\ vault'[g] = vault[g] /\ meta'[g] = meta[g] /\ published'[g] = published[g]
      <3>1. own[q].gen \in Gen /\ own[q].gen < next  BY <2>2, Apart
      <3>2. own[q].gen # next /\ own[q].gen \notin stale  BY <1>3, <1>7, <3>1, Numbers
      <3>. QED  BY <1>1, <1>6, <3>1, <3>2
    <2>3. pc'[p] # "idle" /\ own'[p].gen \in {own[p].gen, NoGen, next}  BY <1>4, <1>5
    <2>. QED  BY <1>3, <1>4, <1>5, <2>1, <2>2, <2>3, OthersWrite
  <1>12. Maintaining'  BY <1>1, NoMaintenance
  <1>13. Implemented
    <2>1. ASSUME NEW g \in Gen PROVE Seen(g)' = Seen(g)
      <3>1. CASE g = next \/ g \in stale
        <4>1. dir[g] # "committed" /\ dir'[g] # "committed"  BY <1>6, <1>7, <3>1
        <4>. QED  BY <4>1, SeenNot
      <3>2. CASE ~(g = next \/ g \in stale)
        <4>1. dir'[g] = dir[g] /\ vault'[g] = vault[g] /\ meta'[g] = meta[g]  BY <1>6, <3>2
        <4>. QED  BY <4>1, SeenSame
      <3>. QED  BY <3>1, <3>2
    <2>. QED  BY <1>1, <2>1, Stutters
  <1>. QED  BY <1>9, <1>10, <1>11, <1>12, <1>13 DEF IInv

\* One rename publishes what was staged, whole or damaged since it was read back.
LEMMA CommitHolds ==
    ASSUME IInv, NEW p \in Publishers, Commit(p)
    PROVE  IInv' /\ Implemented
  <1>1. /\ pc[p] = "commit" /\ Goto(p, "read")
        /\ UNCHANGED <<source, vault, meta, current, previous, flat, before, own, next, job, damage>>
    BY DEF Commit, Advance
  <1>2. pc[p] \in Staging  BY <1>1 DEF Staging
  <1>3. PICK g \in Gen : g = own[p].gen  BY <1>2, Staged
  <1>4. /\ TypeOK /\ job.pc = "idle" /\ g < next /\ dir[g] = "staging" /\ published[g] = NoFile
        /\ \A q \in Publishers \ {p} : own[q].gen # g
    BY <1>2, <1>3, Staged
  <1>5. PICK v \in Versions : /\ v = own[p].sha /\ meta[g].sha = v /\ vault[g] \in {v, -g, NoFile}
    BY <1>1, <1>2, <1>3, Staged DEF Writing, Staging
  <1>6. dir' = [dir EXCEPT ![g] = "committed"] /\ published' = [published EXCEPT ![g] = v] /\ signed' \subseteq Gen
    BY <1>3, <1>4, <1>5 DEF Commit, TypeOK
  <1>7. /\ dir' \in [Gen -> {"absent", "staging", "committed", "quarantined"}] /\ dir'[g] = "committed"
        /\ published' \in [Gen -> Versions \cup {NoFile}] /\ published'[g] = v
        /\ \A h \in Gen \ {g} : dir'[h] = dir[h] /\ published'[h] = published[h]
    BY <1>4, <1>6 DEF TypeOK
  <1>8. v # NoFile  BY Numbers
  <1>9. /\ pc' \in [Publishers -> Steps \cup {"idle"}] /\ pc'[p] = "read"
        /\ \A q \in Publishers \ {p} : pc'[q] = pc[q]
    <2>1. "read" \in Steps \cup {"idle"}  BY DEF Steps
    <2>. QED  BY <1>1, <1>4, <2>1, Goes
  <1>10. TypeOK'  BY <1>1, <1>4, <1>6, <1>7, <1>9 DEF TypeOK
  <1>11. Generations'
    <2>1. next \in Nat /\ Gen \subseteq Nat  BY <1>4, StoreConstants, Numbers DEF TypeOK
    <2>2. \A h \in Gen : h >= next => h # g  BY <1>4, <2>1
    <2>3. \A h \in Gen : h >= next' => dir'[h] = "absent"
      BY <1>1, <1>7, <2>2 DEF IInv, Generations
    <2>4. \A h \in Gen : published'[h] # NoFile <=> dir'[h] \in {"committed", "quarantined"}
      BY <1>7, <1>8 DEF IInv, Generations
    <2>5. \A h \in Gen : dir'[h] \in {"committed", "quarantined"} => vault'[h] \in {published'[h], -h, NoFile}
      BY <1>1, <1>5, <1>7 DEF IInv, Generations
    <2>6. current' # NoGen => published'[current'] # NoFile
      BY <1>1, <1>4, <1>7, <1>8 DEF IInv, Generations, TypeOK
    <2>. QED  BY <2>3, <2>4, <2>5, <2>6 DEF Generations
  <1>12. Publishing'
    <2>1. Writing(p)'
      BY <1>1, <1>3, <1>4, <1>7, <1>8, <1>9 DEF Writing, Staging
    <2>2. ASSUME NEW q \in Publishers \ {p}, pc[q] # "idle"
          PROVE  LET h == own[q].gen IN
                 dir'[h] = dir[h] /\ vault'[h] = vault[h] /\ meta'[h] = meta[h] /\ published'[h] = published[h]
      <3>1. own[q].gen \in Gen \ {g}  BY <1>4, <2>2, Apart
      <3>. QED  BY <1>1, <1>7, <3>1
    <2>3. next' \in Nat /\ next <= next'  BY <1>1, <1>4, StoreConstants DEF TypeOK
    <2>4. pc'[p] # "idle" /\ own'[p].gen = own[p].gen /\ \A q \in Publishers \ {p} : own'[q] = own[q]
      BY <1>1, <1>9
    <2>. QED  BY <1>9, <2>1, <2>2, <2>3, <2>4, OthersWrite
  <1>13. Maintaining'  BY <1>1, <1>4, NoMaintenance
  <1>14. Implemented
    <2>1. \A h \in Gen \ {g} : Seen(h)' = Seen(h)  BY <1>1, <1>7, SeenSame
    <2>2. Seen(g)' \in {v, NoFile}
      BY <1>1, <1>5 DEF Seen, Verifies, Matches
    <2>. QED  BY <1>1, <1>4, <1>6, <2>1, <2>2, Publishes
  <1>. QED  BY <1>10, <1>11, <1>12, <1>13, <1>14 DEF IInv

\* The pointer is replaced by the generation of this very attempt.
LEMMA PointHolds ==
    ASSUME IInv, NEW p \in Publishers, PointCurrent(p)
    PROVE  IInv' /\ Implemented
  <1>1. /\ pc[p] = "point" /\ Goto(p, "demote") /\ current' = own[p].gen
        /\ UNCHANGED <<source, dir, vault, meta, previous, flat, before, own, next, job, damage, published, signed>>
    BY DEF PointCurrent, Advance, history
  <1>2. TypeOK /\ Writing(p) /\ job.pc = "idle" /\ own[p].gen \in Gen
    BY <1>1, Apart DEF IInv
  <1>3. published[own[p].gen] # NoFile  BY <1>1, <1>2 DEF Writing, Staging
  <1>4. /\ pc' \in [Publishers -> Steps \cup {"idle"}] /\ pc'[p] = "demote"
        /\ \A q \in Publishers \ {p} : pc'[q] = pc[q]
    <2>1. "demote" \in Steps \cup {"idle"}  BY DEF Steps
    <2>. QED  BY <1>1, <1>2, <2>1, Goes
  <1>5. TypeOK'  BY <1>1, <1>2, <1>4 DEF TypeOK
  <1>6. Generations'  BY <1>1, <1>3 DEF IInv, Generations
  <1>7. Publishing'
    <2>1. Writing(p)'
      <3>1. pc'[p] \notin Staging  BY <1>4 DEF Staging
      <3>. QED  BY <1>1, <1>2, <1>3, <3>1, Onward
    <2>2. next' \in Nat /\ next <= next'  BY <1>1, <1>2, StoreConstants DEF TypeOK
    <2>3. pc'[p] # "idle"  BY <1>4
    <2>. QED  BY <1>1, <1>4, <2>1, <2>2, <2>3, OthersWrite
  <1>8. Maintaining'  BY <1>1, <1>2, NoMaintenance
  <1>9. Implemented
    <2>1. \A h \in Gen : Seen(h)' = Seen(h)  BY <1>1, SeenSame
    <2>2. PICK g \in Gen : g = own[p].gen  BY <1>2
    <2>. QED  BY <1>1, <1>3, <2>1, <2>2, Selects
  <1>. QED  BY <1>5, <1>6, <1>7, <1>8, <1>9 DEF IInv

-----------------------------------------------------------------------------
\* A step that no publisher takes leaves each where it stands.
LEMMA StillPublishing ==
    ASSUME IInv, UNCHANGED <<pc, own, next>>,
           \A p \in Publishers : pc[p] # "idle" =>
               LET g == own[p].gen IN
               /\ dir'[g] = dir[g] /\ published'[g] = published[g]
               /\ pc[p] \in {"verify", "commit"} => meta'[g].sha = meta[g].sha
               /\ pc[p] = "commit" => vault'[g] \in {vault[g], -g, NoFile}
    PROVE  Publishing'
  <1>1. ASSUME NEW p \in Publishers, pc[p] # "idle"
        PROVE  Writing(p)'
    <2>1. Writing(p)  BY <1>1 DEF IInv, Publishing
    <2>. QED  BY <1>1, <2>1 DEF Writing, Staging
  <1>. QED  BY <1>1 DEF IInv, Publishing

LEMMA EditHolds ==
    ASSUME IInv, Edit
    PROVE  IInv' /\ Implemented
  <1>1. source < MaxVersion /\ source' = source + 1
        /\ UNCHANGED <<dir, vault, meta, current, previous, flat, before, pc, own, next, job, damage, published, signed>>
    BY DEF Edit, files, history
  <1>2. source' \in Versions
    BY <1>1, StoreConstants DEF IInv, TypeOK, Versions
  <1>3. TypeOK'  BY <1>1, <1>2 DEF IInv, TypeOK
  <1>4. Generations'  BY <1>1 DEF IInv, Generations
  <1>5. Publishing'  BY <1>1, StillPublishing
  <1>6. Maintaining'  BY <1>1 DEF IInv, Maintaining, Recovering, Verifies, Matches, Copied
  <1>7. \A g \in Gen : Seen(g)' = Seen(g)  BY <1>1, SeenSame
  <1>8. Implemented  BY <1>1, <1>7, Stutters
  <1>. QED  BY <1>3, <1>4, <1>5, <1>6, <1>8 DEF IInv

\* A payload that is damaged or lost verifies no more.
LEMMA DamageVaultHolds ==
    ASSUME IInv, NEW g \in Gen, DamageVault(g)
    PROVE  IInv' /\ Implemented
  <1>1. /\ job.pc = "idle" /\ damage < MaxDamage /\ damage' = damage + 1
        /\ UNCHANGED <<source, dir, meta, current, previous, flat, before, pc, own, next, job, published, signed>>
    BY DEF DamageVault, history
  <1>2. PICK left \in {-g, NoFile} : vault' = [vault EXCEPT ![g] = left]
    BY DEF DamageVault
  <1>3. left \in Payload  BY <1>2, Numbers
  <1>4. /\ vault' \in [Gen -> Payload] /\ vault'[g] = left
        /\ \A h \in Gen \ {g} : vault'[h] = vault[h]
    BY <1>2, <1>3 DEF IInv, TypeOK
  <1>5. damage' \in 0..MaxDamage  BY <1>1, StoreConstants DEF IInv, TypeOK
  <1>6. TypeOK'  BY <1>1, <1>4, <1>5 DEF IInv, TypeOK
  <1>7. Generations'
    <2>1. \A h \in Gen : dir'[h] \in {"committed", "quarantined"} => vault'[h] \in {published'[h], -h, NoFile}
      BY <1>1, <1>2, <1>4 DEF IInv, Generations
    <2>. QED  BY <1>1, <2>1 DEF IInv, Generations
  <1>8. Publishing'
    <2>1. ASSUME NEW p \in Publishers, pc[p] # "idle"
          PROVE  vault'[own[p].gen] \in {vault[own[p].gen], -own[p].gen, NoFile}
      <3>1. own[p].gen \in Gen  BY <2>1, Apart
      <3>. QED  BY <1>2, <1>4, <3>1
    <2>. QED  BY <1>1, <2>1, StillPublishing
  <1>9. Maintaining'  BY <1>1, NoMaintenance
  <1>10. Implemented
    <2>1. \A h \in Gen \ {g} : Seen(h)' = Seen(h)  BY <1>1, <1>4, SeenSame
    <2>2. meta[g].sha \in Versions \cup {Garbled, NoFile}
      BY Shapes DEF IInv, TypeOK, Sidecar
    <2>3. left = NoFile \/ meta[g].sha # left
      BY <1>2, <2>2, Numbers
    <2>4. Seen(g)' = NoFile
      BY <1>1, <1>4, <2>3 DEF Seen, Verifies, Matches
    <2>. QED  BY <1>1, <2>1, <2>4, Decays
  <1>. QED  BY <1>6, <1>7, <1>8, <1>9, <1>10 DEF IInv

\* So does one whose sidecar is lost or records another hash; a spoilt HMAC
\* alone is not seen without the key.
LEMMA DamageMetaHolds ==
    ASSUME IInv, NEW g \in Gen, DamageMeta(g)
    PROVE  IInv' /\ Implemented
  <1>1. /\ job.pc = "idle" /\ damage < MaxDamage /\ damage' = damage + 1
        /\ dir[g] = "committed" /\ meta[g] # NoSidecar
        /\ UNCHANGED <<source, dir, vault, current, previous, flat, before, pc, own, next, job, published, signed>>
    BY DEF DamageMeta, history
  <1>2. meta[g] \in Sidecar /\ vault[g] \in Payload  BY <1>1 DEF IInv, TypeOK
  <1>3. PICK sidecar \in Sidecar \cup {NoSidecar} :
          /\ sidecar.sha \in {meta[g].sha, Garbled, NoFile}
          /\ meta' = [meta EXCEPT ![g] = sidecar]
    <2>1. PICK spoilt \in Mac :
            \/ meta' = [meta EXCEPT ![g] = NoSidecar]
            \/ meta' = [meta EXCEPT ![g] = [meta[g] EXCEPT !.sha = Garbled, !.mac = spoilt]]
            \/ meta' = [meta EXCEPT ![g] = [meta[g] EXCEPT !.mac = spoilt]]
      <3>. DEFINE spoilt == IF meta[g].mac = "none" THEN "none" ELSE "bad"
      <3>1. spoilt \in Mac  BY DEF Mac
      <3>2. \/ meta' = [meta EXCEPT ![g] = NoSidecar]
            \/ meta' = [meta EXCEPT ![g].sha = Garbled, ![g].mac = spoilt]
            \/ meta' = [meta EXCEPT ![g].mac = spoilt]
        BY DEF DamageMeta
      <3>3. [meta EXCEPT ![g].sha = Garbled, ![g].mac = spoilt]
              = [meta EXCEPT ![g] = [meta[g] EXCEPT !.sha = Garbled, !.mac = spoilt]]
        BY DEF IInv, TypeOK
      <3>4. [meta EXCEPT ![g].mac = spoilt] = [meta EXCEPT ![g] = [meta[g] EXCEPT !.mac = spoilt]]
        OBVIOUS
      <3>. QED  BY <3>1, <3>2, <3>3, <3>4
    <2>2. /\ [meta[g] EXCEPT !.sha = Garbled, !.mac = spoilt] \in Sidecar
          /\ [meta[g] EXCEPT !.sha = Garbled, !.mac = spoilt].sha = Garbled
          /\ [meta[g] EXCEPT !.mac = spoilt] \in Sidecar
          /\ [meta[g] EXCEPT !.mac = spoilt].sha = meta[g].sha
      BY <1>2 DEF Sidecar
    <2>. QED  BY <2>1, <2>2, Shapes
  <1>4. /\ meta' \in [Gen -> Sidecar \cup {NoSidecar}] /\ meta'[g] = sidecar
        /\ \A h \in Gen \ {g} : meta'[h] = meta[h]
    BY <1>3 DEF IInv, TypeOK
  <1>5. damage' \in 0..MaxDamage  BY <1>1, StoreConstants DEF IInv, TypeOK
  <1>6. TypeOK'  BY <1>1, <1>4, <1>5 DEF IInv, TypeOK
  <1>7. Generations'  BY <1>1 DEF IInv, Generations
  <1>8. Publishing'
    <2>1. ASSUME NEW p \in Publishers, pc[p] \in {"verify", "commit"}
          PROVE  meta'[own[p].gen].sha = meta[own[p].gen].sha
      <3>1. own[p].gen \in Gen /\ Writing(p)  BY <2>1, Apart
      <3>2. dir[own[p].gen] = "staging"  BY <2>1, <3>1 DEF Writing, Staging
      <3>. QED  BY <1>1, <1>4, <3>1, <3>2
    <2>. QED  BY <1>1, <2>1, StillPublishing
  <1>9. Maintaining'  BY <1>1, NoMaintenance
  <1>10. Implemented
    <2>1. \A h \in Gen \ {g} : Seen(h)' = Seen(h)  BY <1>1, <1>4, SeenSame
    <2>2. CASE sidecar.sha = meta[g].sha
      <3>1. Seen(g)' = Seen(g)  BY <1>1, <1>4, <2>2 DEF Seen, Verifies, Matches
      <3>. QED  BY <1>1, <2>1, <3>1, Stutters
    <2>3. CASE sidecar.sha \in {Garbled, NoFile}
      <3>1. Seen(g)' = NoFile
        BY <1>1, <1>2, <1>4, <2>3, Numbers DEF Seen, Verifies, Matches
      <3>. QED  BY <1>1, <2>1, <3>1, Decays
    <2>. QED  BY <1>3, <2>2, <2>3
  <1>. QED  BY <1>6, <1>7, <1>8, <1>9, <1>10 DEF IInv

\* Quarantine takes what did not verify anyway.
LEMMA ScrubHolds ==
    ASSUME IInv, NEW g \in Gen, Scrub(g)
    PROVE  IInv' /\ Implemented
  <1>1. /\ job.pc = "idle" /\ (\A p \in Publishers : pc[p] = "idle")
        /\ dir[g] = "committed" /\ ~Matches(g) /\ dir' = [dir EXCEPT ![g] = "quarantined"]
        /\ UNCHANGED <<source, vault, meta, current, previous, flat, before, pc, own, next, job, damage, published, signed>>
    BY DEF Scrub, AtRest, history
  <1>2. /\ dir' \in [Gen -> {"absent", "staging", "committed", "quarantined"}] /\ dir'[g] = "quarantined"
        /\ \A h \in Gen \ {g} : dir'[h] = dir[h]
    BY <1>1 DEF IInv, TypeOK
  <1>3. TypeOK'  BY <1>1, <1>2 DEF IInv, TypeOK
  <1>4. Generations'
    <2>1. \A h \in Gen : h >= next' => dir'[h] = "absent"
      BY <1>1, <1>2 DEF IInv, Generations
    <2>2. \A h \in Gen : published'[h] # NoFile <=> dir'[h] \in {"committed", "quarantined"}
      BY <1>1, <1>2 DEF IInv, Generations
    <2>3. \A h \in Gen : dir'[h] \in {"committed", "quarantined"} => vault'[h] \in {published'[h], -h, NoFile}
      BY <1>1, <1>2 DEF IInv, Generations
    <2>. QED  BY <1>1, <2>1, <2>2, <2>3 DEF IInv, Generations
  <1>5. Publishing'  BY <1>1, StillPublishing
  <1>6. Maintaining'  BY <1>1, NoMaintenance
  <1>7. Implemented
    <2>1. Seen(g) = NoFile /\ Seen(g)' = NoFile  BY <1>1, <1>2, SeenNot DEF Seen, Verifies
    <2>2. \A h \in Gen \ {g} : Seen(h)' = Seen(h)  BY <1>1, <1>2, SeenSame
    <2>. QED  BY <1>1, <2>1, <2>2, Stutters
  <1>. QED  BY <1>3, <1>4, <1>5, <1>6, <1>7 DEF IInv

-----------------------------------------------------------------------------
\* A maintenance step that leaves generations and pointers alone.
LEMMA JobFrame ==
    ASSUME IInv, \A p \in Publishers : pc[p] = "idle",
           UNCHANGED <<source, dir, vault, meta, current, previous, before, pc, own, next, damage,
                       published, signed>>,
           flat' \in Pair, job' \in Job, Maintaining'
    PROVE  IInv' /\ Implemented
  <1>1. TypeOK'  BY DEF IInv, TypeOK
  <1>2. Generations'  BY DEF IInv, Generations
  <1>3. Publishing'  BY StillPublishing
  <1>4. \A g \in Gen : Seen(g)' = Seen(g)  BY SeenSame
  <1>5. Implemented  BY <1>4, Stutters
  <1>. QED  BY <1>1, <1>2, <1>3, <1>5 DEF IInv

LEMMA JobAlone ==
    ASSUME IInv, job.pc # "idle"
    PROVE  /\ \A p \in Publishers : pc[p] = "idle"
           /\ job \in Job /\ TypeOK
           /\ job.kind = "recover" => Recovering
  BY DEF IInv, Maintaining, TypeOK

\* What verifies is what was published, so its payload is a version.
LEMMA VerifiedIs ==
    ASSUME IInv, NEW g \in Gen, NEW keyed, Verifies(g, keyed)
    PROVE  /\ vault[g] = published[g] /\ vault[g] \in Versions /\ published[g] # NoFile
           /\ dir[g] = "committed" /\ meta[g] # NoSidecar /\ Whole(g)
  <1>1. /\ dir[g] = "committed" /\ meta[g].sha = vault[g] /\ vault[g] # NoFile /\ meta[g] # NoSidecar
    BY Shapes DEF Verifies, Matches
  <1>2. meta[g] \in Sidecar  BY <1>1 DEF IInv, TypeOK
  <1>3. vault[g] \in Versions \cup {Garbled} /\ vault[g] \in Payload
    BY <1>1, <1>2 DEF IInv, TypeOK, Sidecar
  <1>4. vault[g] \in Versions  BY <1>3, Numbers
  <1>5. vault[g] \in {published[g], -g, NoFile}  BY <1>1 DEF IInv, Generations
  <1>6. vault[g] = published[g]  BY <1>4, <1>5, Numbers
  <1>. QED  BY <1>1, <1>4, <1>6 DEF Whole

LEMMA BeginRecoverHolds ==
    ASSUME IInv, BeginRecover
    PROVE  IInv' /\ Implemented
  <1>1. /\ job.pc = "idle" /\ \A p \in Publishers : pc[p] = "idle"
        /\ UNCHANGED <<source, dir, vault, meta, current, previous, flat, before, pc, own, next, damage,
                       published, signed>>
    BY DEF BeginRecover, AtRest, files, history
  <1>2. PICK keyed \in BOOLEAN, chosen \in Gen :
          /\ Verifies(chosen, keyed)
          /\ \E corrupt \in BOOLEAN :
                /\ ~corrupt => current = chosen
                /\ job' = [NoJob EXCEPT !.pc = "repoint", !.kind = "recover", !.keyed = keyed,
                                        !.gen = chosen, !.corrupt = corrupt, !.sha = vault[chosen]]
    <2>1. PICK keyed \in BOOLEAN :
            LET sound == current # NoGen /\ Verifies(current, keyed)
                chosen == IF sound THEN current ELSE Newest(KnownGood(keyed)) IN
            /\ sound \/ KnownGood(keyed) # {}
            /\ job' = [NoJob EXCEPT !.pc = "repoint", !.kind = "recover", !.keyed = keyed,
                                    !.gen = chosen, !.corrupt = ~sound, !.sha = vault[chosen]]
      BY DEF BeginRecover
    <2>2. CASE current # NoGen /\ Verifies(current, keyed)
      <3>1. current \in Gen  BY <2>2 DEF IInv, TypeOK
      <3>2. job' = [NoJob EXCEPT !.pc = "repoint", !.kind = "recover", !.keyed = keyed,
                                 !.gen = current, !.corrupt = FALSE, !.sha = vault[current]]
        BY <2>1, <2>2
      <3>. QED  BY <2>2, <3>1, <3>2
    <2>3. CASE ~(current # NoGen /\ Verifies(current, keyed))
      <3>1. KnownGood(keyed) # {} /\ KnownGood(keyed) \subseteq Gen  BY <2>1, <2>3 DEF KnownGood
      <3>2. PICK chosen \in Gen : chosen = Newest(KnownGood(keyed)) /\ chosen \in KnownGood(keyed)
        BY <3>1, NewestIs
      <3>3. Verifies(chosen, keyed)  BY <3>2 DEF KnownGood
      <3>4. job' = [NoJob EXCEPT !.pc = "repoint", !.kind = "recover", !.keyed = keyed,
                                 !.gen = chosen, !.corrupt = TRUE, !.sha = vault[chosen]]
        BY <2>1, <2>3, <3>2
      <3>. QED  BY <3>3, <3>4
    <2>. QED  BY <2>2, <2>3
  <1>3. PICK corrupt \in BOOLEAN :
          /\ ~corrupt => current = chosen
          /\ job' = [NoJob EXCEPT !.pc = "repoint", !.kind = "recover", !.keyed = keyed,
                                  !.gen = chosen, !.corrupt = corrupt, !.sha = vault[chosen]]
    BY <1>2
  <1>4. vault[chosen] \in Versions  BY <1>2, VerifiedIs
  <1>5. /\ job' \in Job /\ job'.pc = "repoint" /\ job'.kind = "recover" /\ job'.keyed = keyed
        /\ job'.gen = chosen /\ job'.corrupt = corrupt /\ job'.todo = {}
    BY <1>3, <1>4, Shapes DEF Job, JobSteps
  <1>6. Verifies(chosen, keyed)'  BY <1>1, <1>2 DEF Verifies, Matches
  <1>7. Maintaining'
    <2>1. Recovering'  BY <1>1, <1>3, <1>5, <1>6 DEF Recovering, Verifies
    <2>. QED  BY <1>1, <1>5, <2>1 DEF Maintaining
  <1>8. flat' \in Pair  BY <1>1 DEF IInv, TypeOK
  <1>. QED  BY <1>1, <1>5, <1>7, <1>8, JobFrame

LEMMA RepointHolds ==
    ASSUME IInv, Repoint
    PROVE  IInv' /\ Implemented
  <1>1. /\ job.pc = "repoint" /\ current' = IF job.corrupt THEN job.gen ELSE current
        /\ job' = [job EXCEPT !.pc = "reconcile"]
        /\ UNCHANGED <<source, dir, vault, meta, previous, flat, before, pc, own, next, damage,
                       published, signed>>
    BY DEF Repoint, history
  <1>2. /\ \A p \in Publishers : pc[p] = "idle"
        /\ job \in Job /\ TypeOK /\ job.kind = "recover" /\ Recovering
    BY <1>1, JobAlone DEF IInv, Maintaining
  <1>3. PICK g \in Gen : g = job.gen /\ Verifies(g, job.keyed) /\ g \notin job.todo
    BY <1>2 DEF Recovering
  <1>4. current' = g  BY <1>1, <1>2, <1>3 DEF Recovering
  <1>5. published[g] # NoFile  BY <1>3, VerifiedIs
  <1>6. /\ job' \in Job /\ job'.pc = "reconcile" /\ job'.kind = "recover" /\ job'.gen = g
        /\ job'.keyed = job.keyed /\ job'.todo = job.todo
    BY <1>1, <1>2, <1>3 DEF Job, JobSteps
  <1>7. TypeOK'  BY <1>1, <1>2, <1>4, <1>6 DEF TypeOK
  <1>8. Generations'  BY <1>1, <1>4, <1>5 DEF IInv, Generations
  <1>9. Publishing'  BY <1>1, <1>2, StillPublishing
  <1>10. Maintaining'
    <2>1. Recovering'
      BY <1>1, <1>3, <1>4, <1>6 DEF Recovering, Verifies, Matches
    <2>. QED  BY <1>1, <1>2, <1>6, <2>1 DEF Maintaining
  <1>11. Implemented
    <2>1. \A h \in Gen : Seen(h)' = Seen(h)  BY <1>1, SeenSame
    <2>. QED  BY <1>1, <1>4, <1>5, <2>1, Selects
  <1>. QED  BY <1>7, <1>8, <1>9, <1>10, <1>11 DEF IInv

\* Reconciliation by itself begins, or a maintenance operation ends.
LEMMA TurnHolds ==
    ASSUME IInv, BeginReconcile \/ EndJob
    PROVE  IInv' /\ Implemented
  <1>1. /\ \A p \in Publishers : pc[p] = "idle"
        /\ UNCHANGED <<source, dir, vault, meta, current, previous, flat, before, pc, own, next, damage,
                       published, signed>>
    BY JobAlone DEF BeginReconcile, EndJob, AtRest, files, history
  <1>2. job' \in Job /\ job'.pc \in {"idle", "reconcile"} /\ job'.kind = "reconcile"
    <2>1. CASE BeginReconcile
      <3>1. job' = [NoJob EXCEPT !.pc = "reconcile"]  BY <2>1 DEF BeginReconcile
      <3>. QED  BY <3>1, Shapes DEF Job, JobSteps
    <2>2. CASE EndJob
      BY <2>2, Shapes DEF EndJob
    <2>. QED  BY <2>1, <2>2
  <1>3. Maintaining'  BY <1>1, <1>2 DEF Maintaining
  <1>4. flat' \in Pair  BY <1>1 DEF IInv, TypeOK
  <1>. QED  BY <1>1, <1>2, <1>3, <1>4, JobFrame

\* The flat files end as a copy of CURRENT.
LEMMA MirrorHolds ==
    ASSUME IInv, Compare \/ MirrorVault \/ MirrorMeta
    PROVE  IInv' /\ Implemented
  <1>. DEFINE pair == [vault |-> vault[current], meta |-> meta[current]]
  <1>1. /\ job.pc \in {"reconcile", "flat vault", "flat meta"}
        /\ UNCHANGED <<source, dir, vault, meta, current, previous, before, pc, own, next, damage,
                       published, signed>>
    BY DEF Compare, MirrorVault, MirrorMeta, files, history
  <1>2. /\ \A p \in Publishers : pc[p] = "idle"
        /\ job \in Job /\ TypeOK
        /\ job.kind = "recover" => Recovering
    BY <1>1, JobAlone
  <1>3. /\ Settled \in JobSteps /\ Settled \in {"list", "done"}
        /\ Settled = "list" => job.kind = "recover"
    BY DEF Settled, JobSteps
  <1>4. flat \in Pair /\ job.tmp \in Pair  BY <1>2 DEF TypeOK, Job
  <1>5. /\ job' \in Job /\ job'.kind = job.kind /\ job'.keyed = job.keyed /\ job'.gen = job.gen
        /\ job'.todo = job.todo /\ job'.pc \notin {"idle", "repoint", "siblings"} /\ flat' \in Pair
        /\ job'.pc = "list" => job.kind = "recover"
    <2>1. CASE Compare
      <3>1. flat' = flat  BY <2>1 DEF Compare, files
      <3>2. CASE current = NoGen \/ ~Whole(current)
        <4>1. job' = [job EXCEPT !.pc = Settled]  BY <2>1, <3>2 DEF Compare
        <4>. QED  BY <1>2, <1>3, <1>4, <3>1, <4>1 DEF Job
      <3>3. CASE ~(current = NoGen \/ ~Whole(current))
        <4>1. PICK to \in JobSteps :
                to \in {Settled, "flat vault"} /\ job' = [job EXCEPT !.pc = to, !.tmp = pair]
          <5>1. "flat vault" \in JobSteps  BY DEF JobSteps
          <5>. QED  BY <1>3, <2>1, <3>3, <5>1 DEF Compare
        <4>2. pair \in Pair
          BY <1>2, <3>3 DEF TypeOK, Pair
        <4>. QED  BY <1>2, <1>3, <1>4, <3>1, <4>1, <4>2 DEF Job
      <3>. QED  BY <3>2, <3>3
    <2>2. CASE MirrorVault
      <3>1. flat' = [flat EXCEPT !.vault = job.tmp.vault] /\ job' = [job EXCEPT !.pc = "flat meta"]
        BY <2>2 DEF MirrorVault
      <3>2. flat' \in Pair  BY <1>4, <3>1 DEF Pair
      <3>. QED  BY <1>2, <3>1, <3>2 DEF Job, JobSteps
    <2>3. CASE MirrorMeta
      <3>1. flat' = [flat EXCEPT !.meta = job.tmp.meta] /\ job' = [job EXCEPT !.pc = Settled]
        BY <2>3 DEF MirrorMeta
      <3>2. flat' \in Pair  BY <1>4, <3>1 DEF Pair
      <3>. QED  BY <1>2, <1>3, <3>1, <3>2 DEF Job
    <2>. QED  BY <2>1, <2>2, <2>3
  <1>6. ASSUME job.kind = "recover" PROVE Recovering'
    <2>1. Recovering /\ current = job.gen /\ current \in Gen /\ Verifies(current, job.keyed)
      BY <1>1, <1>2, <1>6 DEF Recovering
    <2>2. Verifies(current, job.keyed)'  BY <1>1, <1>5, <2>1 DEF Verifies, Matches
    <2>3. Settled = "list" /\ pair' = pair  BY <1>1, <1>6 DEF Settled
    <2>4. current # NoGen /\ Whole(current)  BY <2>1, VerifiedIs, Numbers
    <2>5. /\ job'.pc \in {"flat vault", "flat meta"} => job'.tmp = pair
          /\ job'.pc = "flat meta" => flat'.vault = pair.vault
          /\ job'.pc \in {"list", "siblings", "done"} => flat' = pair
      <3>1. CASE Compare
        <4>1. CASE flat = pair
          <5>1. job' = [job EXCEPT !.pc = "list", !.tmp = pair] /\ flat' = flat
            BY <2>3, <2>4, <3>1, <4>1 DEF Compare, files
          <5>. QED  BY <1>2, <4>1, <5>1 DEF Job
        <4>2. CASE flat # pair
          <5>1. job' = [job EXCEPT !.pc = "flat vault", !.tmp = pair] /\ flat' = flat
            BY <2>3, <2>4, <3>1, <4>2 DEF Compare, files
          <5>. QED  BY <1>2, <5>1 DEF Job
        <4>. QED  BY <4>1, <4>2
      <3>2. CASE MirrorVault
        <4>1. /\ flat' = [flat EXCEPT !.vault = job.tmp.vault] /\ job' = [job EXCEPT !.pc = "flat meta"]
              /\ job.tmp = pair
          BY <2>1, <3>2 DEF MirrorVault, Recovering
        <4>. QED  BY <1>2, <1>4, <4>1 DEF Job, Pair
      <3>3. CASE MirrorMeta
        <4>1. /\ flat' = [flat EXCEPT !.meta = job.tmp.meta] /\ job' = [job EXCEPT !.pc = "list"]
              /\ job.tmp = pair /\ flat.vault = pair.vault
          BY <2>1, <2>3, <3>3 DEF MirrorMeta, Recovering
        <4>2. flat' = pair
          <5>1. flat = [vault |-> flat.vault, meta |-> flat.meta]  BY <1>4 DEF Pair
          <5>. QED  BY <4>1, <5>1
        <4>. QED  BY <1>2, <4>1, <4>2 DEF Job
      <3>. QED  BY <3>1, <3>2, <3>3
    <2>. QED  BY <1>1, <1>5, <2>1, <2>2, <2>3, <2>5 DEF Recovering, Copied
  <1>7. Maintaining'  BY <1>1, <1>2, <1>5, <1>6 DEF Maintaining
  <1>. QED  BY <1>1, <1>2, <1>5, <1>7, JobFrame

LEMMA ListHolds ==
    ASSUME IInv, ListSiblings \/ FinishSiblings
    PROVE  IInv' /\ Implemented
  <1>1. /\ job.pc \in {"list", "siblings"}
        /\ UNCHANGED <<source, dir, vault, meta, current, previous, flat, before, pc, own, next, damage,
                       published, signed>>
    BY DEF ListSiblings, FinishSiblings, files, history
  <1>2. /\ \A p \in Publishers : pc[p] = "idle"
        /\ job \in Job /\ TypeOK
        /\ job.kind = "recover" => Recovering
    BY <1>1, JobAlone
  <1>3. /\ job' \in Job /\ job'.kind = job.kind /\ job'.keyed = job.keyed /\ job'.gen = job.gen
        /\ job'.pc \in {"siblings", "done"} /\ (job.gen \notin job.todo => job.gen \notin job'.todo)
        /\ job'.pc = "siblings" => job.pc = "list"
    <2>1. CASE ListSiblings
      <3>1. PICK todo \in SUBSET Gen :
              job.gen \notin todo /\ job' = [job EXCEPT !.pc = "siblings", !.todo = todo]
        BY <2>1 DEF ListSiblings
      <3>2. job.pc = "list"  BY <2>1 DEF ListSiblings
      <3>. QED  BY <1>2, <3>1, <3>2 DEF Job, JobSteps
    <2>2. CASE FinishSiblings
      <3>1. job' = [job EXCEPT !.pc = "done"]  BY <2>2 DEF FinishSiblings
      <3>. QED  BY <1>2, <3>1 DEF Job, JobSteps
    <2>. QED  BY <2>1, <2>2
  <1>4. job'.pc = "siblings" => job.kind = "recover"
    BY <1>3 DEF IInv, Maintaining
  <1>5. ASSUME job.kind = "recover" PROVE Recovering'
    <2>1. Recovering  BY <1>2, <1>5
    <2>2. job.gen \in Gen /\ Verifies(job.gen, job.keyed) /\ current = job.gen /\ Copied /\ job.gen \notin job.todo
      BY <1>1, <2>1 DEF Recovering
    <2>. QED  BY <1>1, <1>3, <2>2 DEF Recovering, Verifies, Matches, Copied
  <1>6. Maintaining'  BY <1>1, <1>2, <1>3, <1>4, <1>5 DEF Maintaining
  <1>7. flat' \in Pair  BY <1>1, <1>2 DEF TypeOK
  <1>. QED  BY <1>1, <1>2, <1>3, <1>6, <1>7, JobFrame

\* A rebuilt sidecar attests what was published, or a generation nobody sees.
LEMMA RepairHolds ==
    ASSUME IInv, NEW g \in Gen, RepairSibling(g)
    PROVE  IInv' /\ Implemented
  <1>1. /\ job.pc = "siblings" /\ g \in job.todo /\ job' = [job EXCEPT !.todo = job.todo \ {g}]
        /\ UNCHANGED <<source, dir, vault, current, previous, flat, before, pc, own, next, damage,
                       published, signed>>
    BY DEF RepairSibling, history
  <1>2. /\ \A p \in Publishers : pc[p] = "idle"
        /\ job \in Job /\ TypeOK /\ job.kind = "recover" /\ Recovering
    BY <1>1, JobAlone DEF IInv, Maintaining
  <1>3. /\ job' \in Job /\ job'.kind = job.kind /\ job'.keyed = job.keyed /\ job'.gen = job.gen
        /\ job'.todo = job.todo \ {g} /\ job'.pc = job.pc
    BY <1>1, <1>2 DEF Job
  <1>4. PICK c \in Gen : /\ c = job.gen /\ current = c /\ Verifies(c, job.keyed) /\ c # g /\ c \notin job.todo
                         /\ Copied
    BY <1>1, <1>2 DEF Recovering
  <1>5. CASE ~Repairable(g)
    <2>1. meta' = meta  BY <1>5 DEF RepairSibling
    <2>2. Recovering'
      BY <1>1, <1>3, <1>4, <2>1 DEF Recovering, Verifies, Matches, Copied
    <2>3. Maintaining'  BY <1>1, <1>2, <1>3, <2>2 DEF Maintaining
    <2>4. flat' \in Pair  BY <1>1, <1>2 DEF TypeOK
    <2>. QED  BY <1>1, <1>2, <1>3, <2>1, <2>3, <2>4, JobFrame
  <1>6. CASE Repairable(g)
    <2>1. vault[g] # NoFile /\ vault[g] = job.sha /\ vault[g] \in Versions
      <3>1. vault[g] # NoFile /\ vault[g] = job.sha  BY <1>6 DEF Repairable
      <3>2. job.sha \in Versions  BY <1>2, <3>1 DEF Job
      <3>. QED  BY <3>1, <3>2
    <2>2. PICK sidecar \in Sidecar : sidecar.sha = vault[g] /\ meta' = [meta EXCEPT ![g] = sidecar]
      <3>. DEFINE s == [of |-> g, sha |-> vault[g], rebuilt |-> TRUE,
                        mac |-> IF job.keyed THEN "good" ELSE "none"]
      <3>1. s \in Sidecar /\ s.sha = vault[g]  BY <2>1 DEF Sidecar, Mac
      <3>2. meta' = [meta EXCEPT ![g] = s]  BY <1>6 DEF RepairSibling
      <3>. QED  BY <3>1, <3>2
    <2>3. /\ meta' \in [Gen -> Sidecar \cup {NoSidecar}] /\ meta'[g].sha = vault[g]
          /\ \A h \in Gen \ {g} : meta'[h] = meta[h]
      BY <1>2, <2>2 DEF TypeOK
    <2>4. TypeOK'  BY <1>1, <1>2, <1>3, <2>3 DEF TypeOK
    <2>5. Generations'  BY <1>1 DEF IInv, Generations
    <2>6. Publishing'  BY <1>1, <1>2, StillPublishing
    <2>7. Maintaining'
      <3>1. meta'[c] = meta[c]  BY <1>4, <2>3
      <3>2. Recovering'
        BY <1>1, <1>3, <1>4, <3>1 DEF Recovering, Verifies, Matches, Copied
      <3>. QED  BY <1>1, <1>2, <1>3, <3>2 DEF Maintaining
    <2>8. Implemented
      <3>1. \A h \in Gen \ {g} : Seen(h)' = Seen(h)  BY <1>1, <2>3, SeenSame
      <3>2. CASE dir[g] # "committed"
        <4>1. Seen(g)' = Seen(g)  BY <1>1, <3>2, SeenNot
        <4>. QED  BY <1>1, <3>1, <4>1, Stutters
      <3>3. CASE dir[g] = "committed"
        <4>1. vault[g] = published[g]  BY <2>1, <3>3, Numbers DEF IInv, Generations
        <4>2. Seen(g)' = published[g]
          BY <1>1, <2>1, <2>3, <3>3, <4>1 DEF Seen, Verifies, Matches
        <4>3. Seen(g) \in {NoFile, published[g]}  BY <4>1 DEF Seen
        <4>. QED  BY <1>1, <2>1, <3>1, <4>1, <4>2, <4>3, Attests
      <3>. QED  BY <3>2, <3>3
    <2>. QED  BY <2>4, <2>5, <2>6, <2>7, <2>8 DEF IInv
  <1>. QED  BY <1>5, <1>6

-----------------------------------------------------------------------------
LEMMA InitHolds ==
    ASSUME Init
    PROVE  IInv /\ Archive!Init
  <1>. USE Numbers, Shapes
  <1>1. TypeOK
    <2>1. 1 \in Versions /\ 1 \in 1..(MaxGen + 1) /\ 0 \in 0..MaxDamage  BY StoreConstants DEF Versions
    <2>2. /\ source \in Versions /\ current \in Gen \cup {NoGen} /\ previous \in Gen \cup {NoGen}
          /\ flat \in Pair /\ before \in Pair /\ next \in 1..(MaxGen + 1) /\ job \in Job
          /\ damage \in 0..MaxDamage
      BY <2>1 DEF Init
    <2>3. dir \in [Gen -> {"absent", "staging", "committed", "quarantined"}]  BY DEF Init
    <2>4. vault \in [Gen -> Payload] /\ meta \in [Gen -> Sidecar \cup {NoSidecar}]  BY DEF Init
    <2>5. published \in [Gen -> Versions \cup {NoFile}] /\ signed \subseteq Gen  BY DEF Init
    <2>6. pc \in [Publishers -> Steps \cup {"idle"}] /\ own \in [Publishers -> Own]
      BY DEF Init
    <2>. QED  BY <2>2, <2>3, <2>4, <2>5, <2>6 DEF TypeOK
  <1>2. Generations  BY DEF Init, Generations
  <1>3. Publishing  BY DEF Init, Publishing
  <1>4. Maintaining  BY DEF Init, Maintaining
  <1>5. Archive!Init
    <2>1. \A g \in Gen : ~Verifies(g, FALSE)  BY DEF Init, Verifies
    <2>. QED  BY <2>1 DEF Init, Archive!Init
  <1>. QED  BY <1>1, <1>2, <1>3, <1>4, <1>5 DEF IInv

\* Every step keeps the invariant and is a step of the archive, or none.
LEMMA NextHolds ==
    ASSUME IInv, Next
    PROVE  IInv' /\ Implemented
  <1>1. ASSUME NEW p \in Publishers, PublishStep(p) PROVE IInv' /\ Implemented
    BY <1>1, BeginHolds, StageHolds, CommitHolds, ReadHolds, PointHolds, RotateHolds, FailHolds, CrashHolds
       DEF PublishStep
  <1>2. CASE Edit  BY <1>2, EditHolds
  <1>3. ASSUME NEW g \in Gen, DamageVault(g) \/ DamageMeta(g) \/ Scrub(g) PROVE IInv' /\ Implemented
    BY <1>3, DamageVaultHolds, DamageMetaHolds, ScrubHolds
  <1>4. CASE BeginRecover  BY <1>4, BeginRecoverHolds
  <1>5. CASE BeginReconcile  BY <1>5, TurnHolds
  <1>6. CASE JobStep
    BY <1>6, RepointHolds, MirrorHolds, ListHolds, TurnHolds, RepairHolds DEF JobStep
  <1>. QED  BY <1>1, <1>2, <1>3, <1>4, <1>5, <1>6 DEF Next

LEMMA StutterHolds ==
    ASSUME IInv, UNCHANGED vars
    PROVE  IInv' /\ Implemented
  <1>1. UNCHANGED <<source, dir, vault, meta, current, previous, flat, before, pc, own, next, job, damage,
                    published, signed>>
    BY DEF vars, files, history
  <1>2. TypeOK'  BY <1>1 DEF IInv, TypeOK
  <1>3. Generations'  BY <1>1 DEF IInv, Generations
  <1>4. Publishing'  BY <1>1, StillPublishing
  <1>5. Maintaining'
    BY <1>1 DEF IInv, Maintaining, Recovering, Verifies, Matches, Copied
  <1>6. \A g \in Gen : Seen(g)' = Seen(g)  BY <1>1, SeenSame
  <1>7. Implemented  BY <1>1, <1>6, Stutters
  <1>. QED  BY <1>2, <1>3, <1>4, <1>5, <1>7 DEF IInv

-----------------------------------------------------------------------------
\* The invariant holds in every reachable state.
THEOREM Inductive == Spec => []IInv
  <1>1. Init => IInv  BY InitHolds
  <1>2. IInv /\ [Next]_vars => IInv'  BY NextHolds, StutterHolds
  <1>. QED  BY <1>1, <1>2, PTL DEF Spec

\* Files, pointers, publishers and maintenance keep to their types.
THEOREM TypeCorrect == Spec => []TypeOK
  <1>1. IInv => TypeOK  BY DEF IInv
  <1>. QED  BY <1>1, Inductive, PTL

\* A recovery that finishes leaves a CURRENT that verifies and flat files
\* that are its copy, whatever crashes and damage came before it
\* (recover_metadata_corruption).
THEOREM RecoveryHasHealed == Spec => []RecoveryHeals
  <1>1. ASSUME IInv PROVE RecoveryHeals
    <2>1. SUFFICES ASSUME job.pc = "done", job.kind = "recover"
                   PROVE  /\ current # NoGen
                          /\ Verifies(current, job.keyed)
                          /\ flat = [vault |-> vault[current], meta |-> meta[current]]
      BY DEF RecoveryHeals
    <2>2. Recovering  BY <1>1, <2>1, JobAlone
    <2>. QED  BY <2>1, <2>2, Numbers DEF Recovering, Copied
  <1>. QED  BY <1>1, Inductive, PTL

\* The file operations of publication, decay and maintenance implement the
\* archive: what was published under a name never changes, what verifies is
\* that, and CURRENT selects a generation that was published
\* (publish_backup; sa_future_gates).
THEOREM Implements == Spec => ArchiveSpec
  <1>1. Init => Archive!Init  BY InitHolds
  <1>2. IInv /\ [Next]_vars => [Archive!Next]_(Archive!archive)
    BY NextHolds, StutterHolds DEF Implemented
  <1>. QED  BY <1>1, <1>2, Inductive, PTL DEF Spec, ArchiveSpec, Archive!Spec

-----------------------------------------------------------------------------
\* Where pointers and signatures come from: PREVIOUS takes what CURRENT was, and a
\* manifest bears an HMAC only if its generation was published with the key.
Naming ==
    /\ previous # NoGen => published[previous] # NoFile
    /\ \A p \in Publishers : own[p].old # NoGen => published[own[p].old] # NoFile

Signing ==
    /\ \A g \in Gen : dir[g] \in {"committed", "quarantined"} /\ meta[g].mac # "none" => g \in signed
    /\ \A p \in Publishers : pc[p] \in {"verify", "commit"} /\ meta[own[p].gen].mac # "none" => own[p].keyed

\* The steps that touch neither what publishers hold nor what was published.
Elsewhere ==
    \/ Edit \/ BeginRecover \/ BeginReconcile \/ JobStep
    \/ \E g \in Gen : DamageVault(g) \/ DamageMeta(g) \/ Scrub(g)

LEMMA ElsewhereKeeps ==
    ASSUME Elsewhere
    PROVE  UNCHANGED <<previous, pc, own, published, signed>>
  <1>1. CASE Edit \/ BeginRecover \/ BeginReconcile
    BY <1>1 DEF Edit, BeginRecover, BeginReconcile, files, history
  <1>2. CASE JobStep
    BY <1>2 DEF JobStep, Repoint, Compare, MirrorVault, MirrorMeta, ListSiblings, FinishSiblings, EndJob,
                RepairSibling, files, history
  <1>3. CASE \E g \in Gen : DamageVault(g) \/ DamageMeta(g) \/ Scrub(g)
    BY <1>3 DEF DamageVault, DamageMeta, Scrub, history
  <1>. QED  BY <1>1, <1>2, <1>3 DEF Elsewhere

LEMMA NextIs ==
    ASSUME Next
    PROVE  Elsewhere \/ \E p \in Publishers : PublishStep(p)
  BY DEF Next, Elsewhere

\* What is published stays so.
LEMMA PublishedStays ==
    ASSUME IInv, Next, NEW g \in Gen, published[g] # NoFile
    PROVE  published'[g] # NoFile
  <1>1. CASE Elsewhere  BY <1>1, ElsewhereKeeps
  <1>2. ASSUME NEW p \in Publishers, PublishStep(p) PROVE published'[g] # NoFile
    <2>1. CASE Commit(p)
      <3>1. pc[p] \in Staging /\ pc[p] # "copy"  BY <2>1 DEF Commit, Advance, Staging
      <3>2. own[p].sha \in Versions  BY <3>1, Staged DEF Writing
      <3>3. published' = [published EXCEPT ![own[p].gen] = own[p].sha]  BY <2>1 DEF Commit
      <3>. QED  BY <3>2, <3>3, Numbers DEF IInv, TypeOK
    <2>2. CASE ~Commit(p)
      <3>1. published' = published
        BY <1>2, <2>2 DEF PublishStep, Begin, Copy, Describe, VerifyStaged, ReadCurrent, PointCurrent,
             PointPrevious, RotateVault, RotateMeta, Duplicate, PlaceVault, PlaceMeta, Fail, Crash, history
      <3>. QED  BY <3>1
    <2>. QED  BY <2>1, <2>2
  <1>. QED  BY <1>1, <1>2, NextIs

LEMMA NamingHolds ==
    ASSUME IInv, Naming, Next
    PROVE  Naming'
  <1>1. CASE Elsewhere  BY <1>1, ElsewhereKeeps DEF Naming
  <1>2. ASSUME NEW p \in Publishers, PublishStep(p) PROVE Naming'
    <2>0. /\ TypeOK /\ own[p] \in Own /\ previous \in Gen \cup {NoGen} /\ current \in Gen \cup {NoGen}
          /\ \A q \in Publishers : own[q] \in Own /\ own[q].old \in Gen \cup {NoGen}
      BY DEF IInv, TypeOK, Own
    <2>1. previous' \in {previous, own[p].old}
      BY <1>2 DEF PublishStep, Begin, Copy, Describe, VerifyStaged, Commit, ReadCurrent, PointCurrent,
           PointPrevious, RotateVault, RotateMeta, Duplicate, PlaceVault, PlaceMeta, Fail, Crash, files
    <2>2. /\ \A q \in Publishers \ {p} : own'[q] = own[q]
          /\ own'[p].old \in {own[p].old, NoGen, current}
      <3>1. CASE Begin(p)
        <4>1. PICK o \in Own : o.old = NoGen /\ own' = [own EXCEPT ![p] = o]
          <5>1. PICK keyed \in BOOLEAN : own' = [own EXCEPT ![p] = [Idle EXCEPT !.gen = next, !.keyed = keyed]]
            BY <3>1 DEF Begin
          <5>2. next \in Gen  BY <3>1, <2>0, StoreConstants DEF Begin, TypeOK, Gen
          <5>3. Idle.old = NoGen  BY DEF Idle
          <5>4. [Idle EXCEPT !.gen = next, !.keyed = keyed] \in Own
                /\ [Idle EXCEPT !.gen = next, !.keyed = keyed].old = NoGen
            BY <5>2, <5>3, Shapes DEF Own
          <5>. QED  BY <5>1, <5>4
        <4>. QED  BY <2>0, <4>1, Owns
      <3>2. CASE Copy(p) \/ Duplicate(p) \/ ReadCurrent(p)
        <4>1. \/ own' = [own EXCEPT ![p] = [own[p] EXCEPT !.sha = source]]
              \/ \E tmp \in {[vault |-> vault[own[p].gen], meta |-> meta[own[p].gen]]} :
                    own' = [own EXCEPT ![p] = [own[p] EXCEPT !.tmp = tmp]]
              \/ \E old \in {current, NoGen} : own' = [own EXCEPT ![p] = [own[p] EXCEPT !.old = old]]
          BY <3>2 DEF Copy, Duplicate, ReadCurrent
        <4>. QED  BY <2>0, <4>1 DEF TypeOK, Own
      <3>3. CASE Leave(p)
        <4>1. Idle.old = NoGen  BY DEF Idle
        <4>. QED  BY <2>0, <3>3, <4>1, Leaves
      <3>4. CASE UNCHANGED own  BY <3>4
      <3>. QED
        BY <1>2, <3>1, <3>2, <3>3, <3>4 DEF PublishStep, Describe, VerifyStaged, Commit, PointCurrent,
             PointPrevious, RotateVault, RotateMeta, PlaceVault, PlaceMeta, Fail, Crash
    <2>3. \A g \in Gen : published[g] # NoFile => published'[g] # NoFile  BY PublishedStays
    <2>4. current # NoGen => published[current] # NoFile  BY DEF IInv, Generations
    <2>. QED  BY <2>0, <2>1, <2>2, <2>3, <2>4 DEF Naming
  <1>. QED  BY <1>1, <1>2, NextIs

LEMMA SigningHolds ==
    ASSUME IInv, Signing, Next
    PROVE  Signing'
  <1>0. TypeOK /\ NoSidecar.mac = "none"  BY DEF IInv, NoSidecar
  <1>1. CASE Elsewhere
    <2>1. UNCHANGED <<pc, own, signed>>  BY <1>1, ElsewhereKeeps
    <2>2. ASSUME NEW g \in Gen
          PROVE  /\ meta'[g].mac # "none" => meta[g].mac # "none"
                 /\ dir'[g] \in {"committed", "quarantined"} => dir[g] \in {"committed", "quarantined"}
      <3>1. CASE UNCHANGED <<dir, meta>>  BY <3>1
      <3>2. ASSUME NEW h \in Gen, Scrub(h) PROVE <2>2!2
        BY <1>0, <3>2 DEF Scrub, TypeOK
      <3>3. ASSUME NEW h \in Gen, DamageMeta(h) PROVE <2>2!2
        <4>1. dir' = dir /\ meta[h] # NoSidecar  BY <3>3 DEF DamageMeta
        <4>2. meta[h] \in Sidecar  BY <1>0, <4>1 DEF TypeOK
        <4>3. PICK spoilt \in Mac :
                /\ spoilt # "none" => meta[h].mac # "none"
                /\ \/ meta' = [meta EXCEPT ![h] = NoSidecar]
                   \/ meta' = [meta EXCEPT ![h].sha = Garbled, ![h].mac = spoilt]
                   \/ meta' = [meta EXCEPT ![h].mac = spoilt]
          <5>. DEFINE spoilt == IF meta[h].mac = "none" THEN "none" ELSE "bad"
          <5>1. spoilt \in Mac /\ (spoilt # "none" => meta[h].mac # "none")  BY DEF Mac
          <5>2. \/ meta' = [meta EXCEPT ![h] = NoSidecar]
                \/ meta' = [meta EXCEPT ![h].sha = Garbled, ![h].mac = spoilt]
                \/ meta' = [meta EXCEPT ![h].mac = spoilt]
            BY <3>3 DEF DamageMeta
          <5>. QED  BY <5>1, <5>2
        <4>4. meta'[h].mac # "none" => meta[h].mac # "none"
          BY <1>0, <4>2, <4>3 DEF TypeOK, Sidecar
        <4>5. g # h => meta'[g] = meta[g]  BY <1>0, <4>3 DEF TypeOK
        <4>. QED  BY <4>1, <4>4, <4>5
      <3>4. ASSUME NEW h \in Gen, RepairSibling(h) PROVE <2>2!2
        <4>1. dir' = dir  BY <3>4 DEF RepairSibling
        <4>2. CASE ~Repairable(h)
          BY <3>4, <4>1, <4>2 DEF RepairSibling
        <4>3. CASE Repairable(h)
          <5>1. PICK sidecar : /\ meta' = [meta EXCEPT ![h] = sidecar]
                               /\ sidecar.mac = IF job.keyed THEN "good" ELSE "none"
            <6>. DEFINE s == [of |-> h, sha |-> vault[h], rebuilt |-> TRUE,
                              mac |-> IF job.keyed THEN "good" ELSE "none"]
            <6>1. meta' = [meta EXCEPT ![h] = s]  BY <3>4, <4>3 DEF RepairSibling
            <6>2. s.mac = IF job.keyed THEN "good" ELSE "none"  OBVIOUS
            <6>. HIDE DEF s
            <6>. QED  BY <6>1, <6>2
          <5>2. sidecar.mac # "none" => meta[h].mac # "none"  BY <4>3, <5>1 DEF Repairable
          <5>. QED  BY <1>0, <4>1, <5>1, <5>2 DEF TypeOK
        <4>. QED  BY <4>2, <4>3
      <3>. QED
        BY <1>1, <3>1, <3>2, <3>3, <3>4 DEF Elsewhere, Edit, BeginRecover, BeginReconcile, JobStep,
             DamageVault, Repoint, Compare, MirrorVault, MirrorMeta, ListSiblings, FinishSiblings, EndJob, files
    <2>3. \A p \in Publishers : pc[p] \in {"verify", "commit"} => own[p].gen \in Gen
      BY Apart
    <2>. QED  BY <2>1, <2>2, <2>3 DEF Signing
  <1>2. ASSUME NEW p \in Publishers, PublishStep(p) PROVE Signing'
    <2>0. /\ \A q \in Publishers : own[q] \in Own
          /\ \A q \in Publishers : pc[q] \in {"verify", "commit"} => own[q].gen \in Gen
      BY <1>0, Apart DEF TypeOK
    <2>1. CASE Begin(p)
      <3>1. /\ Goto(p, "copy") /\ signed' = signed
            /\ \E keyed \in BOOLEAN : own' = [own EXCEPT ![p] = [Idle EXCEPT !.gen = next, !.keyed = keyed]]
        BY <2>1 DEF Begin, history
      <3>2. \A q \in Publishers : pc'[q] \in {"verify", "commit"} => q # p /\ pc[q] = pc'[q] /\ own'[q] = own[q]
        BY <1>0, <3>1 DEF Goto, TypeOK
      <3>3. \A g \in Gen : /\ dir'[g] \in {"committed", "quarantined"} => dir[g] \in {"committed", "quarantined"}
                           /\ meta'[g] \in {meta[g], NoSidecar}
        BY <1>0, <2>1 DEF Begin
      <3>. QED  BY <1>0, <2>0, <3>1, <3>2, <3>3 DEF Signing
    <2>2. CASE Describe(p)
      <3>1. /\ pc[p] = "describe" /\ Goto(p, "verify") /\ UNCHANGED <<own, dir, signed>>
        BY <2>2 DEF Describe, Advance, history
      <3>2. PICK g \in Gen : /\ g = own[p].gen /\ dir[g] = "staging"
                             /\ \A q \in Publishers \ {p} : own[q].gen # g
        BY <3>1, Staged DEF Staging
      <3>3. PICK sidecar : meta' = [meta EXCEPT ![g] = sidecar] /\ (sidecar.mac # "none" => own[p].keyed)
        <4>. DEFINE s == [of |-> own[p].gen, sha |-> own[p].sha,
                          mac |-> IF own[p].keyed THEN "good" ELSE "none", rebuilt |-> FALSE]
        <4>1. meta' = [meta EXCEPT ![g] = s]  BY <2>2, <3>2 DEF Describe
        <4>2. s.mac # "none" => own[p].keyed  OBVIOUS
        <4>. HIDE DEF s
        <4>. QED  BY <4>1, <4>2
      <3>4. meta'[g] = sidecar /\ \A h \in Gen \ {g} : meta'[h] = meta[h]  BY <1>0, <3>3 DEF TypeOK
      <3>5. \A q \in Publishers : q # p => pc'[q] = pc[q]  BY <1>0, <3>1 DEF Goto, TypeOK
      <3>. QED  BY <2>0, <3>1, <3>2, <3>3, <3>4, <3>5 DEF Signing
    <2>3. CASE Commit(p)
      <3>1. /\ pc[p] = "commit" /\ Goto(p, "read") /\ UNCHANGED <<own, meta>>
            /\ dir' = [dir EXCEPT ![own[p].gen] = "committed"]
            /\ signed' = IF own[p].keyed THEN signed \cup {own[p].gen} ELSE signed
        BY <2>3 DEF Commit, Advance
      <3>2. PICK g \in Gen : g = own[p].gen  BY <2>0, <3>1
      <3>3. meta[g].mac # "none" => own[p].keyed  BY <3>1, <3>2 DEF Signing
      <3>4. \A h \in Gen : h # g => dir'[h] = dir[h]  BY <1>0, <3>1, <3>2 DEF TypeOK
      <3>5. signed \subseteq signed' /\ (own[p].keyed => g \in signed')  BY <3>1, <3>2
      <3>6. \A q \in Publishers : pc'[q] \in {"verify", "commit"} => q # p /\ pc[q] = pc'[q]
        BY <1>0, <3>1 DEF Goto, TypeOK
      <3>. QED  BY <2>0, <3>1, <3>2, <3>3, <3>4, <3>5, <3>6 DEF Signing
    <2>4. CASE Fail(p)
      <3>1. signed' = signed /\ Leave(p)  BY <2>4 DEF Fail, history
      <3>2. /\ pc'[p] = "idle" /\ \A q \in Publishers \ {p} : pc'[q] = pc[q] /\ own'[q] = own[q]
        BY <1>0, <3>1, Leaves
      <3>3. \A g \in Gen : /\ dir'[g] \in {"committed", "quarantined"} => dir[g] \in {"committed", "quarantined"}
                           /\ meta'[g] \in {meta[g], NoSidecar}
        BY <1>0, <2>4 DEF Fail, TypeOK
      <3>. QED  BY <1>0, <2>0, <3>1, <3>2, <3>3 DEF Signing
    <2>5. CASE ~(Begin(p) \/ Describe(p) \/ Commit(p) \/ Fail(p))
      <3>1. UNCHANGED <<dir, meta, signed>>
        BY <1>2, <2>5 DEF PublishStep, Copy, VerifyStaged, ReadCurrent, PointCurrent, PointPrevious,
             RotateVault, RotateMeta, Duplicate, PlaceVault, PlaceMeta, Crash, files, history
      <3>2. \A q \in Publishers : pc'[q] \in {"verify", "commit"} =>
                pc[q] \in {"verify", "commit"} /\ own'[q] = own[q]
        <4>1. CASE VerifyStaged(p)
          BY <1>0, <4>1 DEF VerifyStaged, Advance, Goto, TypeOK
        <4>2. CASE Copy(p) \/ ReadCurrent(p) \/ PointCurrent(p) \/ PointPrevious(p) \/ RotateVault(p)
                   \/ RotateMeta(p) \/ Duplicate(p) \/ PlaceVault(p)
          <5>1. PICK to \in {"describe", "point", "demote", "rotate vault", "rotate meta", "duplicate",
                             "place vault", "place meta"} : Goto(p, to)
            BY <4>2 DEF Copy, ReadCurrent, PointCurrent, PointPrevious, RotateVault, RotateMeta, Duplicate,
                 PlaceVault, Advance
          <5>2. \A q \in Publishers : q # p => own'[q] = own[q]
            BY <1>0, <4>2 DEF Copy, ReadCurrent, PointCurrent, PointPrevious, RotateVault, RotateMeta,
                 Duplicate, PlaceVault, TypeOK
          <5>. QED  BY <1>0, <5>1, <5>2 DEF Goto, TypeOK
        <4>3. CASE PlaceMeta(p) \/ Crash(p)
          <5>1. Leave(p)  BY <4>3 DEF PlaceMeta, Crash
          <5>. QED  BY <1>0, <5>1, Leaves
        <4>. QED  BY <1>2, <2>5, <4>1, <4>2, <4>3 DEF PublishStep
      <3>. QED  BY <2>0, <3>1, <3>2 DEF Signing
    <2>. QED  BY <2>1, <2>2, <2>3, <2>4, <2>5
  <1>. QED  BY <1>1, <1>2, NextIs

LEMMA OriginInvariant == Spec => [](IInv /\ Naming /\ Signing)
  <1>1. Init => Naming /\ Signing
    BY DEF Init, Naming, Signing, NoGen, Idle, NoSidecar
  <1>2. IInv /\ Naming /\ Signing /\ [Next]_vars => Naming' /\ Signing'
    <2>1. ASSUME UNCHANGED vars, Naming, Signing PROVE Naming' /\ Signing'
      BY <2>1 DEF vars, files, history, Naming, Signing
    <2>. QED  BY <2>1, NamingHolds, SigningHolds
  <1>. QED  BY <1>1, <1>2, Inductive, PTL DEF Spec

\* CURRENT and PREVIOUS never name a generation that was not renamed into
\* generations/ whole, wherever publications failed or died, however many ran
\* at once (publish_backup).
THEOREM PointersAreWhole == Spec => []PointersNameWhole
  <1>1. IInv /\ Naming => PointersNameWhole
    <2>1. SUFFICES ASSUME IInv, Naming, NEW g \in {current, previous} \ {NoGen}
                   PROVE  published[g] # NoFile /\ dir[g] \in {"committed", "quarantined"}
      BY DEF PointersNameWhole
    <2>2. g \in Gen /\ published[g] # NoFile  BY <2>1 DEF IInv, TypeOK, Generations, Naming
    <2>. QED  BY <2>1, <2>2 DEF IInv, Generations
  <1>. QED  BY <1>1, OriginInvariant, PTL

\* Whatever verifies is what was published under that name, and an HMAC that
\* verifies is on a generation published with the key: no repair vouches for a
\* damaged payload or signs what was not signed (recover_metadata_corruption).
THEOREM VerifiedIsOriginal == Spec => []VerifiedIsPublished
  <1>1. IInv /\ Signing => VerifiedIsPublished
    <2>1. SUFFICES ASSUME IInv, Signing, NEW g \in Gen, dir[g] = "committed"
                   PROVE  /\ Matches(g) => vault[g] = published[g]
                          /\ meta[g].mac = "good" => g \in signed
      BY DEF VerifiedIsPublished
    <2>2. Matches(g) => Verifies(g, FALSE)  BY <2>1 DEF Verifies
    <2>. QED  BY <2>1, <2>2, VerifiedIs DEF Signing
  <1>. QED  BY <1>1, OriginInvariant, PTL

-----------------------------------------------------------------------------
(* The threads that publish: who has which key. *)

\* A thread between two requests, and an operation that publishes nothing, have no key.
Keyless ==
    /\ \A t \in Threads : thread[t].pc \in {"dead", "loop"} => thread[t].key = NoKey
    /\ broker.pc \in {"idle", "joining", "mounting"} => broker.key = NoKey

\* No two of the threads, the operation, the request and the keys left behind have the
\* same key.
OneOwner ==
    /\ \A t, u \in Threads : thread[t].key \in Keys /\ thread[t].key = thread[u].key => t = u
    /\ \A t \in Threads :
          thread[t].key \in Keys => thread[t].key \notin {broker.key, pending} \cup dropped
    /\ broker.key \in Keys => broker.key \notin {pending} \cup dropped
    /\ pending \in Keys => pending \notin dropped

\* A foreground publication copies what nobody writes to.
ForegroundAlone ==
    /\ broker.torn = FALSE
    /\ broker.pc = "sync copy" => ~mounted
    /\ P!ForegroundIsWhole

KeysInv == P!TypeOK /\ Keyless /\ OneOwner /\ P!KeyInUseIsLive /\ P!KeyHasAnOwner /\ ForegroundAlone

-----------------------------------------------------------------------------
Holder == [pc : P!BrokerSteps, key : P!MaybeKey, torn : BOOLEAN]
Turns == [pc : P!ThreadSteps, key : P!MaybeKey, torn : BOOLEAN]

LEMMA KeysInit ==
    ASSUME P!Distinct, P!Init
    PROVE  KeysInv
  <1>1. P!Dead \in Turns /\ P!Idle \in Holder
    BY DEF P!Dead, P!Idle, Turns, Holder, P!ThreadSteps, P!BrokerSteps, P!MaybeKey
  <1>2. P!TypeOK
    BY <1>1 DEF P!Init, P!TypeOK, Turns, Holder, P!States, P!MaybeKey
  <1>3. Keyless /\ OneOwner /\ P!KeyInUseIsLive /\ P!KeyHasAnOwner /\ ForegroundAlone
    BY 
       DEF P!Distinct, P!Init, Keyless, OneOwner, P!KeyInUseIsLive, P!KeyHasAnOwner, ForegroundAlone,
           P!ForegroundIsWhole, P!Dead, P!Idle
  <1>. QED  BY <1>2, <1>3 DEF KeysInv

\* The operations of the broker as they begin.
LEMMA Begun ==
    ASSUME NEW step \in P!BrokerSteps, NEW op, op = [P!Idle EXCEPT !.pc = step]
    PROVE  op \in Holder /\ op.pc = step /\ op.key = NoKey /\ op.torn = FALSE
  BY DEF P!Idle, Holder, P!BrokerSteps, P!MaybeKey

LEMMA Rested == P!Idle \in Holder /\ P!Idle.pc = "idle" /\ P!Idle.key = NoKey /\ P!Idle.torn = FALSE
  BY DEF P!Idle, Holder, P!BrokerSteps, P!MaybeKey

\* The steps of an open, which have no key.
LEMMA OpenHolds ==
    ASSUME P!Distinct, KeysInv, P!Open \/ P!Joined \/ P!Busy \/ P!Mount
    PROVE  KeysInv'
  <1>1. broker.key = NoKey /\ broker.torn = FALSE /\ broker \in Holder
    BY DEF P!Open, P!Joined, P!Busy, P!Mount, KeysInv, Keyless, ForegroundAlone, P!TypeOK, Holder
  <1>2. broker' \in Holder /\ broker'.key = NoKey /\ broker'.torn = FALSE
        /\ broker'.pc \in {"idle", "joining", "mounting"}
    <2>1. CASE P!Open
      <3>1. PICK step \in {"joining", "mounting"} : broker' = [P!Idle EXCEPT !.pc = step]
        BY <2>1 DEF P!Open
      <3>. QED  BY <3>1, Begun DEF P!BrokerSteps
    <2>2. CASE P!Joined  BY <1>1, <2>2 DEF P!Joined, Holder, P!BrokerSteps
    <2>3. CASE P!Busy \/ P!Mount  BY <2>3, Rested DEF P!Busy, P!Mount
    <2>. QED  BY <2>1, <2>2, <2>3
  <1>3. /\ mounted' \in BOOLEAN /\ token' \in BOOLEAN
        /\ UNCHANGED <<state, pending, worker, thread, live, dropped, torn>>
    BY DEF P!Open, P!Joined, P!Busy, P!Mount, KeysInv, P!TypeOK
  <1>4. P!TypeOK'
    BY <1>2, <1>3 DEF KeysInv, P!TypeOK, Holder
  <1>5. Keyless' /\ OneOwner' /\ P!KeyInUseIsLive' /\ P!KeyHasAnOwner' /\ ForegroundAlone'
    BY <1>1, <1>2, <1>3
       DEF P!Distinct, KeysInv, Keyless, OneOwner, P!KeyInUseIsLive, P!KeyHasAnOwner, ForegroundAlone,
           P!ForegroundIsWhole
  <1>. QED  BY <1>4, <1>5 DEF KeysInv

\* The application writes into a mounted volume: no foreground copy is under way.
LEMMA WriteHolds ==
    ASSUME P!Distinct, KeysInv, P!Edit
    PROVE  KeysInv'
  <1>1. \A t \in Threads : thread'[t].pc = thread[t].pc /\ thread'[t].key = thread[t].key
    BY DEF P!Edit, KeysInv, P!TypeOK
  <1>2. broker'.pc = broker.pc /\ broker'.key = broker.key /\ broker'.torn = FALSE
    BY DEF P!Edit, KeysInv, P!TypeOK, ForegroundAlone
  <1>3. P!TypeOK'
    BY DEF P!Edit, KeysInv, P!TypeOK
  <1>4. UNCHANGED <<mounted, state, pending, token, worker, live, dropped, torn>>
    BY DEF P!Edit
  <1>5. Keyless' /\ ForegroundAlone'
    BY <1>1, <1>2, <1>4 DEF KeysInv, Keyless, ForegroundAlone, P!ForegroundIsWhole
  <1>6. OneOwner' /\ P!KeyInUseIsLive'
    BY <1>1, <1>2, <1>4 DEF KeysInv, OneOwner, P!KeyInUseIsLive
  <1>7. P!KeyHasAnOwner'
    BY <1>1, <1>2, <1>4 DEF KeysInv, P!KeyHasAnOwner
  <1>. QED  BY <1>3, <1>5, <1>6, <1>7 DEF KeysInv

\* A lock and a foreground publication derive a key that is in nobody's hands.
LEMMA DeriveHolds ==
    ASSUME P!Distinct, KeysInv, NEW k \in P!MaybeKey, P!Lock(k) \/ P!Sync(k)
    PROVE  KeysInv'
  <1>1. broker' \in Holder /\ broker'.key = k /\ broker'.torn = FALSE
        /\ broker'.pc \in {"unmounting", "sync"}
    <2>1. PICK step \in {"unmounting", "sync"} : broker' = [P!Idle EXCEPT !.pc = step, !.key = k]
      BY DEF P!Lock, P!Sync
    <2>2. step \in P!BrokerSteps  BY DEF P!BrokerSteps
    <2>3. broker' \in Holder /\ broker'.pc = step /\ broker'.key = k /\ broker'.torn = FALSE
      BY <2>1, <2>2 DEF P!Idle, Holder, P!MaybeKey
    <2>. QED  BY <2>3
  <1>2. /\ broker.key = NoKey
        /\ live' = live \cup ({k} \cap Keys) /\ k \notin live
        /\ UNCHANGED <<mounted, state, pending, token, worker, thread, dropped, torn>>
    BY DEF P!Distinct, P!Lock, P!Sync, P!Derives, KeysInv, Keyless, P!TypeOK
  <1>3. P!TypeOK' /\ Keyless' /\ ForegroundAlone'
    BY <1>1, <1>2
       DEF KeysInv, P!TypeOK, Holder, Keyless, ForegroundAlone, P!ForegroundIsWhole
  <1>4. OneOwner'
    BY <1>1, <1>2 DEF P!Distinct, KeysInv, OneOwner, P!KeyInUseIsLive, P!TypeOK, P!MaybeKey
  <1>5. P!KeyInUseIsLive'
    BY <1>1, <1>2 DEF KeysInv, P!KeyInUseIsLive
  <1>6. P!KeyHasAnOwner'
    <2>. SUFFICES ASSUME NEW key \in live' \ dropped
                  PROVE  \/ pending = key \/ broker'.key = key
                         \/ \E t \in Threads : thread[t].key = key
      BY <1>2 DEF P!KeyHasAnOwner
    <2>1. CASE key = k  BY <1>1, <2>1
    <2>2. CASE key # k
      <3>1. key \in live \ dropped /\ key \in Keys
        BY <1>2, <2>2 DEF KeysInv, P!TypeOK
      <3>. QED  BY <1>2, <3>1 DEF P!Distinct, KeysInv, P!KeyHasAnOwner
    <2>. QED  BY <2>1, <2>2
  <1>. QED  BY <1>3, <1>4, <1>5, <1>6 DEF KeysInv

\* Whatever ends an operation wipes its key, which nobody else has.
LEMMA WipeHolds ==
    ASSUME P!Distinct, KeysInv, P!UnmountFails \/ P!NoContainer \/ P!SyncReport \/ P!SyncFails
    PROVE  KeysInv'
  <1>1. /\ broker' = P!Idle /\ live' = live \ {broker.key} /\ state' \in P!States
        /\ UNCHANGED <<mounted, pending, token, worker, thread, dropped, torn>>
    BY DEF P!UnmountFails, P!NoContainer, P!SyncReport, P!SyncFails, P!Wiped, P!Current, P!States, KeysInv, P!TypeOK
  <1>2. broker.key \in P!MaybeKey /\ (broker.key \in Keys => broker.key \notin dropped)
    BY DEF KeysInv, P!TypeOK, OneOwner
  <1>3. P!TypeOK'
    BY <1>1, <1>2, Rested DEF P!Distinct, KeysInv, P!TypeOK, Holder, P!MaybeKey
  <1>4. Keyless' /\ OneOwner' /\ P!KeyInUseIsLive' /\ P!KeyHasAnOwner' /\ ForegroundAlone'
    BY <1>1, <1>2, Rested
       DEF P!Distinct, KeysInv, Keyless, OneOwner, P!KeyInUseIsLive, P!KeyHasAnOwner, ForegroundAlone,
           P!ForegroundIsWhole, P!TypeOK
  <1>. QED  BY <1>3, <1>4 DEF KeysInv

\* The steps of an operation that keep its key.
LEMMA WorkHolds ==
    ASSUME P!Distinct, KeysInv, P!Unmount \/ P!SyncCopy \/ P!SyncCommit
    PROVE  KeysInv'
  <1>. USE DEF P!Distinct, KeysInv, P!TypeOK, Keyless, OneOwner, P!KeyInUseIsLive, P!KeyHasAnOwner, ForegroundAlone,
           P!ForegroundIsWhole, P!BrokerSteps
  <1>1. CASE P!Unmount  BY <1>1 DEF P!Unmount
  <1>2. CASE P!SyncCopy  BY <1>2 DEF P!SyncCopy
  <1>3. CASE P!SyncCommit  BY <1>3 DEF P!SyncCommit
  <1>. QED  BY <1>1, <1>2, <1>3

\* A step of a thread changes its own turn only.
LEMMA OwnTurn ==
    ASSUME P!TypeOK, NEW t \in Threads, NEW turn \in Turns, thread' = [thread EXCEPT ![t] = turn]
    PROVE  /\ thread' \in [Threads -> Turns]
           /\ thread'[t] = turn
           /\ \A u \in Threads \ {t} : thread'[u] = thread[u]
  BY DEF P!TypeOK, Turns

\* A thread without a request: it has not begun, or is about to look for one.
LEMMA Ended == P!Dead \in Turns /\ P!Dead.key = NoKey
  BY DEF P!Dead, Turns, P!ThreadSteps, P!MaybeKey

LEMMA Looking ==
    ASSUME NEW turn, turn = [P!Dead EXCEPT !.pc = "loop"]
    PROVE  turn \in Turns /\ turn.key = NoKey
  BY DEF P!Dead, Turns, P!ThreadSteps, P!MaybeKey

\* A request takes a key that nobody else has, and wipes the one it replaces, which nobody
\* else has either.
LEMMA QueueKeyHolds ==
    ASSUME P!Distinct, KeysInv, NEW k \in P!MaybeKey, P!QueueKey(k), UNCHANGED <<mounted, state, dropped, torn>>,
           \/ k = broker.key /\ broker' = P!Idle
           \/ broker' = broker /\ k \notin live
    PROVE  KeysInv'
  <1>1. /\ thread' \in [Threads -> Turns]
        /\ \A t \in Threads : thread'[t].key = thread[t].key
        /\ \A t \in Threads : thread'[t].pc \in {"dead", "loop"} => thread'[t].key = NoKey
        /\ token' \in BOOLEAN /\ worker' \in Threads \cup {NoThread}
    <2>1. CASE state = "PUBLISHING" /\ P!Alive(worker)
      BY <2>1 DEF P!QueueKey, KeysInv, P!TypeOK, Keyless, Turns
    <2>2. CASE ~(state = "PUBLISHING" /\ P!Alive(worker))
      <3>1. PICK t \in Threads : /\ ~P!Alive(t) /\ worker' = t /\ token' = FALSE
                                 /\ thread' = [thread EXCEPT ![t] = [P!Dead EXCEPT !.pc = "loop"]]
        BY <2>2 DEF P!QueueKey
      <3>2. thread[t].key = NoKey
        BY <3>1 DEF P!Distinct, P!Alive, KeysInv, Keyless
      <3>3. /\ thread' \in [Threads -> Turns]
            /\ thread'[t].key = NoKey
            /\ \A u \in Threads \ {t} : thread'[u] = thread[u]
        BY <3>1, Looking, OwnTurn DEF KeysInv
      <3>. QED  BY <3>1, <3>2, <3>3 DEF KeysInv, Keyless
    <2>. QED  BY <2>1, <2>2
  <1>2. pending' = k /\ live' = (live \cup ({k} \cap Keys)) \ ({pending} \ {k})
    BY DEF P!QueueKey
  <1>3. /\ broker' \in Holder /\ broker'.torn = FALSE
        /\ broker'.pc \in {"idle", "joining", "mounting"} => broker'.key = NoKey
        /\ broker'.pc = "sync copy" => broker.pc = "sync copy"
        /\ broker'.key \in {broker.key, NoKey}
        /\ k \in Keys => broker'.key # k
    BY Rested DEF P!Distinct, KeysInv, P!TypeOK, Holder, Keyless, P!KeyInUseIsLive, ForegroundAlone
  <1>4. /\ k \in Keys => k \notin dropped \cup {pending}
        /\ k \in Keys => \A t \in Threads : thread[t].key # k
    BY DEF P!Distinct, KeysInv, P!TypeOK, OneOwner, P!KeyInUseIsLive, P!MaybeKey
  <1>5. pending \in Keys => /\ pending \notin dropped \cup {broker.key}
                            /\ \A t \in Threads : thread[t].key # pending
    BY DEF KeysInv, OneOwner
  <1>6. P!TypeOK'
    BY <1>1, <1>2, <1>3, <1>5 DEF P!Distinct, KeysInv, P!TypeOK, Holder, Turns, P!MaybeKey
  <1>7. Keyless' /\ ForegroundAlone'
    BY <1>1, <1>3 DEF KeysInv, Keyless, ForegroundAlone, P!ForegroundIsWhole
  <1>8. OneOwner'
    BY <1>1, <1>2, <1>3, <1>4 DEF P!Distinct, KeysInv, OneOwner
  <1>9. P!KeyInUseIsLive'
    BY <1>1, <1>2, <1>3, <1>5 DEF P!Distinct, KeysInv, P!KeyInUseIsLive
  <1>10. P!KeyHasAnOwner'
    BY <1>1, <1>2 DEF KeysInv, P!KeyHasAnOwner
  <1>. QED  BY <1>6, <1>7, <1>8, <1>9, <1>10 DEF KeysInv

LEMMA QueueHolds ==
    ASSUME P!Distinct, KeysInv, P!Queue \/ \E k \in P!MaybeKey : P!PublishLater(k)
    PROVE  KeysInv'
  <1>1. CASE P!Queue
    <2>1. broker.key \in P!MaybeKey  BY DEF KeysInv, P!TypeOK
    <2>. QED  BY <1>1, <2>1, QueueKeyHolds DEF P!Queue
  <1>2. ASSUME NEW k \in P!MaybeKey, P!PublishLater(k) PROVE KeysInv'
    <2>1. k \notin live  BY <1>2 DEF P!Distinct, P!PublishLater, P!Derives, KeysInv, P!TypeOK
    <2>. QED  BY <1>2, <2>1, QueueKeyHolds DEF P!PublishLater
  <1>. QED  BY <1>1, <1>2

\* A thread that takes the request takes its key out of it.
LEMMA TakeHolds ==
    ASSUME P!Distinct, KeysInv, NEW t \in Threads, P!Take(t)
    PROVE  KeysInv'
  <1>1. thread[t].pc = "loop" /\ thread[t].key = NoKey
    BY DEF P!Take, P!At, KeysInv, Keyless
  <1>2. CASE pending = NoRequest
    <2>1. thread' = [thread EXCEPT ![t] = P!Dead]
      BY <1>2 DEF P!Take, P!Dies
    <2>2. /\ thread' \in [Threads -> Turns]
          /\ thread'[t].key = NoKey
          /\ \A u \in Threads \ {t} : thread'[u] = thread[u]
      BY <2>1, Ended, OwnTurn DEF KeysInv
    <2>3. P!TypeOK' /\ Keyless' /\ ForegroundAlone'
      BY <1>2, <2>2 DEF P!Take, KeysInv, P!TypeOK, Turns, Keyless, ForegroundAlone, P!ForegroundIsWhole
    <2>4. OneOwner'
      BY <1>2, <2>2 DEF P!Distinct, P!Take, KeysInv, OneOwner
    <2>5. P!KeyInUseIsLive' /\ P!KeyHasAnOwner'
      BY <1>1, <1>2, <2>2 DEF P!Distinct, P!Take, KeysInv, P!KeyInUseIsLive, P!KeyHasAnOwner, P!TypeOK
    <2>. QED  BY <2>3, <2>4, <2>5 DEF KeysInv
  <1>3. CASE pending # NoRequest
    <2>1. PICK turn \in Turns : /\ thread' = [thread EXCEPT ![t] = turn]
                                /\ turn.pc = "check" /\ turn.key = pending
      <3>1. [pc |-> "check", key |-> pending, torn |-> FALSE] \in Turns
        BY <1>3 DEF Turns, P!ThreadSteps, KeysInv, P!TypeOK
      <3>. QED  BY <1>3, <3>1 DEF P!Take
    <2>2. /\ thread' \in [Threads -> Turns]
          /\ thread'[t].pc = "check" /\ thread'[t].key = pending
          /\ \A u \in Threads \ {t} : thread'[u] = thread[u]
      BY <2>1, OwnTurn DEF KeysInv
    <2>3. pending' = NoRequest /\ state' = "PUBLISHING"
      BY <1>3 DEF P!Take
    <2>4. P!TypeOK' /\ Keyless' /\ ForegroundAlone'
      BY <2>2, <2>3
         DEF P!Take, KeysInv, P!TypeOK, Turns, Keyless, ForegroundAlone, P!ForegroundIsWhole, P!States
    <2>5. OneOwner'
      BY <2>2, <2>3 DEF P!Distinct, P!Take, KeysInv, OneOwner
    <2>6. P!KeyInUseIsLive' /\ P!KeyHasAnOwner'
      BY <1>1, <2>2, <2>3
         DEF P!Distinct, P!Take, KeysInv, P!KeyInUseIsLive, P!KeyHasAnOwner, P!TypeOK
    <2>. QED  BY <2>4, <2>5, <2>6 DEF KeysInv
  <1>. QED  BY <1>2, <1>3

\* The steps of a publication in a thread that keep its key.
LEMMA ThreadTurnHolds ==
    ASSUME P!Distinct, KeysInv, NEW t \in Threads, P!Detached(t) \/ P!CopyBegins(t) \/ P!CopyEnds(t) \/ P!Commit(t)
    PROVE  KeysInv'
  <1>1. thread[t] \in Turns  BY DEF KeysInv, P!TypeOK, Turns
  <1>2. PICK turn \in Turns : /\ thread' = [thread EXCEPT ![t] = turn]
                              /\ turn.pc \notin {"dead", "loop"} /\ turn.key = thread[t].key
    <2>1. ASSUME NEW step \in P!ThreadSteps \ {"dead", "loop"}, NEW turn,
                 \/ turn = [thread[t] EXCEPT !.pc = step]
                 \/ turn = [thread[t] EXCEPT !.pc = step, !.torn = FALSE]
          PROVE  turn \in Turns /\ turn.pc = step /\ turn.key = thread[t].key
      BY <1>1, <2>1 DEF Turns
    <2>2. CASE P!Commit(t)
      <3>1. thread' = [thread EXCEPT ![t] = [thread[t] EXCEPT !.pc = "report", !.torn = FALSE]]
        BY <2>2 DEF P!Commit
      <3>2. [thread[t] EXCEPT !.pc = "report", !.torn = FALSE] \in Turns
        BY <2>1 DEF P!ThreadSteps
      <3>3. "report" \in P!ThreadSteps \ {"dead", "loop"}
        BY DEF P!ThreadSteps
      <3>. QED  BY <2>1, <3>1, <3>2, <3>3
    <2>3. ASSUME NEW step \in P!ThreadSteps \ {"dead", "loop"}, P!Turn(t, step)
          PROVE  \E turn \in Turns : /\ thread' = [thread EXCEPT ![t] = turn]
                                     /\ turn.pc \notin {"dead", "loop"} /\ turn.key = thread[t].key
      <3>1. thread' = [thread EXCEPT ![t] = [thread[t] EXCEPT !.pc = step]]
        BY <2>3 DEF P!Turn
      <3>2. [thread[t] EXCEPT !.pc = step] \in Turns
        BY <2>1
      <3>. QED  BY <2>1, <3>1, <3>2
    <2>. QED  BY <2>2, <2>3 DEF P!Detached, P!CopyBegins, P!CopyEnds, P!ThreadSteps
  <1>3. /\ thread' \in [Threads -> Turns]
        /\ thread'[t].pc \notin {"dead", "loop"}
        /\ \A u \in Threads : thread'[u].key = thread[u].key
        /\ \A u \in Threads \ {t} : thread'[u] = thread[u]
    BY <1>2, OwnTurn DEF KeysInv
  <1>4. /\ UNCHANGED <<mounted, state, pending, token, worker, broker, live, dropped>>
        /\ torn' \in {torn, "thread", "nobody"}
    BY DEF P!Detached, P!CopyBegins, P!CopyEnds, P!Commit
  <1>5. P!TypeOK' /\ Keyless' /\ ForegroundAlone'
    BY <1>3, <1>4 DEF KeysInv, P!TypeOK, Turns, Keyless, ForegroundAlone, P!ForegroundIsWhole
  <1>6. OneOwner' /\ P!KeyInUseIsLive' /\ P!KeyHasAnOwner'
    BY <1>3, <1>4 DEF KeysInv, OneOwner, P!KeyInUseIsLive, P!KeyHasAnOwner
  <1>. QED  BY <1>5, <1>6 DEF KeysInv

\* The steps that end a publication in a thread, with its key wiped or left behind.
LEMMA EndHolds ==
    ASSUME P!Distinct, KeysInv, NEW t \in Threads,
           P!Attached(t) \/ P!StateRaises(t) \/ \E said \in P!States : P!Done(t, said)
    PROVE  KeysInv'
  <1>1. thread[t].key \in P!MaybeKey  BY DEF KeysInv, P!TypeOK
  <1>2. PICK turn \in Turns : thread' = [thread EXCEPT ![t] = turn] /\ turn.key = NoKey
    <2>1. \/ thread' = [thread EXCEPT ![t] = P!Dead]
          \/ thread' = [thread EXCEPT ![t] = [P!Dead EXCEPT !.pc = "loop"]]
      BY DEF P!Attached, P!StateRaises, P!Done, P!Dies
    <2>. QED  BY <2>1, Ended, Looking
  <1>3. /\ thread' \in [Threads -> Turns]
        /\ thread'[t].key = NoKey
        /\ \A u \in Threads \ {t} : thread'[u] = thread[u]
    BY <1>2, OwnTurn DEF KeysInv
  <1>4. /\ UNCHANGED <<mounted, pending, token, worker, broker, torn>>
        /\ state' \in P!States
        /\ \/ live' = live \ {thread[t].key} /\ dropped' = dropped
           \/ live' = live /\ dropped' = dropped \cup {thread[t].key}
    BY DEF P!Attached, P!StateRaises, P!Done, P!Wiped, P!States, KeysInv, P!TypeOK
  <1>5. thread[t].key \in Keys => thread[t].key \in live \ dropped
    BY DEF KeysInv, P!KeyInUseIsLive, OneOwner
  <1>6. P!TypeOK'
    BY <1>1, <1>3, <1>4, <1>5 DEF P!Distinct, KeysInv, P!TypeOK, Turns, P!MaybeKey
  <1>7. Keyless' /\ ForegroundAlone'
    BY <1>3, <1>4 DEF KeysInv, Keyless, ForegroundAlone, P!ForegroundIsWhole
  <1>8. OneOwner'
    BY <1>3, <1>4 DEF P!Distinct, KeysInv, OneOwner
  <1>9. P!KeyInUseIsLive' /\ P!KeyHasAnOwner'
    BY <1>3, <1>4 DEF P!Distinct, KeysInv, P!KeyInUseIsLive, P!KeyHasAnOwner, OneOwner, P!TypeOK
  <1>. QED  BY <1>6, <1>7, <1>8, <1>9 DEF KeysInv

LEMMA ThreadHolds ==
    ASSUME P!Distinct, KeysInv, NEW t \in Threads, P!ThreadStep(t)
    PROVE  KeysInv'
  <1>1. P!Report(t) \/ P!Cancelled(t) \/ P!Fails(t) => \E said \in P!States : P!Done(t, said)
    BY DEF P!Report, P!Cancelled, P!Fails, P!Current, P!States
  <1>. QED  BY <1>1, TakeHolds, ThreadTurnHolds, EndHolds DEF P!ThreadStep

LEMMA KeysNext ==
    ASSUME P!Distinct, KeysInv, [P!Next]_(P!vars)
    PROVE  KeysInv'
  <1>1. CASE P!BrokerStep
    BY <1>1, OpenHolds, DeriveHolds, WorkHolds, WipeHolds, QueueHolds DEF P!BrokerStep
  <1>2. CASE P!Edit  BY <1>2, WriteHolds
  <1>3. CASE \E k \in P!MaybeKey : P!PublishLater(k)  BY <1>3, QueueHolds
  <1>4. CASE \E t \in Threads : P!ThreadStep(t)  BY <1>4, ThreadHolds
  <1>5. CASE UNCHANGED P!vars
    BY <1>5 DEF P!vars, KeysInv, P!TypeOK, Keyless, OneOwner, P!KeyInUseIsLive, P!KeyHasAnOwner,
                ForegroundAlone, P!ForegroundIsWhole
  <1>. QED  BY <1>1, <1>2, <1>3, <1>4, <1>5 DEF P!Next

\* The invariant the theorems follow from.
LEMMA KeysInvariance == P!Spec => []KeysInv
  <1>1. P!Init => KeysInv  BY KeysInit, PublisherConstants
  <1>2. KeysInv /\ [P!Next]_(P!vars) => KeysInv'  BY KeysNext, PublisherConstants
  <1>. QED  BY <1>1, <1>2, PTL DEF P!Spec

-----------------------------------------------------------------------------
\* Every state the publisher shows is one of the broker's, and what is left behind by
\* threads that died is still in memory (sa_broker.py, ProfileRuntime).
THEOREM PublisherTypeCorrect == P!Spec => []P!TypeOK
  <1>1. KeysInv => P!TypeOK  BY DEF KeysInv
  <1>. QED  BY <1>1, KeysInvariance, PTL

\* No publication, in a thread or in the foreground, signs with a key that was wiped under
\* it, however many threads there are and whatever is queued, replaced or cancelled
\* (_queue_backup_publication, _run_backup_publisher, publish_backup).
THEOREM KeysStayLive == P!Spec => []KeyInUseIsLive
  <1>1. KeysInv => KeyInUseIsLive  BY DEF KeysInv, KeyInUseIsLive
  <1>. QED  BY <1>1, KeysInvariance, PTL

\* No key stays in memory without a request, a thread or an operation that will wipe it,
\* but those of threads whose question for the state raised.
THEOREM KeysAreOwned == P!Spec => []P!KeyHasAnOwner
  <1>1. KeysInv => P!KeyHasAnOwner  BY DEF KeysInv
  <1>. QED  BY <1>1, KeysInvariance, PTL

\* publish_backup(wait=True) never commits a copy that the application wrote into meanwhile.
THEOREM ForegroundStaysWhole == P!Spec => []P!ForegroundIsWhole
  <1>1. KeysInv => P!ForegroundIsWhole  BY DEF KeysInv, ForegroundAlone
  <1>. QED  BY <1>1, KeysInvariance, PTL
=============================================================================
