---------------------------- MODULE BackupStore ----------------------------
(***************************************************************************)
(* The directory of encrypted backups, file by file: publish_backup with a   *)
(* failure or a crash between any two of its steps, possibly from two        *)
(* threads or processes at once (sa_backup.py); decay of what it left; and   *)
(* the maintenance that scrubs, reconciles and recovers it                   *)
(* (sa_future_gates.py), one maintenance operation at a time.                *)
(*                                                                          *)
(* A payload is a version of the container, so equal payloads have equal     *)
(* hashes; a damaged payload of generation g is the value -g, which equals   *)
(* nothing else; 0 is a file that is not there.  A sidecar is a record of    *)
(* what the gates read in it.  That the container is detached while it is    *)
(* copied is the concern of BackupPublisher.                                 *)
(***************************************************************************)
EXTENDS Integers, FiniteSets

CONSTANTS
    Publishers, \* threads that may be inside publish_backup
    MaxVersion, \* bound: versions of the container
    MaxGen,     \* bound: generations ever staged
    MaxDamage   \* bound: files ever damaged

ASSUME StoreConstants ==
    /\ MaxVersion \in Nat \ {0}
    /\ MaxGen \in Nat \ {0}
    /\ MaxDamage \in Nat

Gen == 1..MaxGen
NoGen == 0
Versions == 1..MaxVersion
NoFile == 0
Garbled == -(MaxGen + 1)           \* a recorded hash that matches no payload
Payload == (-MaxGen)..MaxVersion
Mac == {"none", "good", "bad"}     \* manifest_hmac under the profile's key

\* vault.svault.meta; of tells the manifests of two generations apart.
Sidecar == [of : Gen, sha : Versions \cup {Garbled}, mac : Mac, rebuilt : BOOLEAN]
NoSidecar == [of |-> 0, sha |-> 0, mac |-> "none", rebuilt |-> FALSE]
Pair == [vault : Payload, meta : Sidecar \cup {NoSidecar}]
NoPair == [vault |-> NoFile, meta |-> NoSidecar]

VARIABLES
    source,    \* the container
    dir,       \* where each generation directory is
    vault,     \* vault.svault of each generation
    meta,      \* vault.svault.meta of each generation
    current,   \* the CURRENT pointer
    previous,  \* the PREVIOUS pointer
    flat,      \* __STORE.svault and its sidecar
    before,    \* __STORE.previous.svault and its sidecar
    pc,        \* where each publisher stands
    own,       \* each publisher's gen_id, hash, key, old_current_gen, staged copies
    next,      \* the next gen_id
    job,       \* the maintenance operation
    damage,    \* how many files have been damaged
    published, \* history: the payload each generation was committed with
    signed     \* history: the generations published with a manifest key

files == <<dir, vault, meta, current, previous, flat, before>>
history == <<published, signed>>
vars == <<source, files, pc, own, next, job, damage, history>>

Steps == {"copy", "describe", "verify", "commit", "read", "point", "demote",
          "rotate vault", "rotate meta", "duplicate",
          "place vault", "place meta"}
Own == [gen : Gen \cup {NoGen}, sha : Versions \cup {NoFile}, keyed : BOOLEAN,
        old : Gen \cup {NoGen}, tmp : Pair]
Idle == [gen |-> NoGen, sha |-> NoFile, keyed |-> FALSE, old |-> NoGen, tmp |-> NoPair]

JobSteps == {"idle", "repoint", "reconcile", "flat vault", "flat meta", "list", "siblings", "done"}
Job == [pc : JobSteps, kind : {"recover", "reconcile"}, keyed : BOOLEAN,
        gen : Gen \cup {NoGen}, corrupt : BOOLEAN, sha : Versions \cup {NoFile},
        tmp : Pair, todo : SUBSET Gen]
NoJob == [pc |-> "idle", kind |-> "reconcile", keyed |-> FALSE, gen |-> NoGen,
          corrupt |-> FALSE, sha |-> NoFile, tmp |-> NoPair, todo |-> {}]

TypeOK ==
    /\ source \in Versions
    /\ dir \in [Gen -> {"absent", "staging", "committed", "quarantined"}]
    /\ vault \in [Gen -> Payload]
    /\ meta \in [Gen -> Sidecar \cup {NoSidecar}]
    /\ current \in Gen \cup {NoGen} /\ previous \in Gen \cup {NoGen}
    /\ flat \in Pair /\ before \in Pair
    /\ pc \in [Publishers -> Steps \cup {"idle"}]
    /\ own \in [Publishers -> Own]
    /\ next \in 1..(MaxGen + 1)
    /\ job \in Job
    /\ damage \in 0..MaxDamage
    /\ published \in [Gen -> Versions \cup {NoFile}]
    /\ signed \subseteq Gen

Init ==
    /\ source = 1
    /\ dir = [g \in Gen |-> "absent"]
    /\ vault = [g \in Gen |-> NoFile] /\ meta = [g \in Gen |-> NoSidecar]
    /\ current = NoGen /\ previous = NoGen
    /\ flat = NoPair /\ before = NoPair
    /\ pc = [p \in Publishers |-> "idle"] /\ own = [p \in Publishers |-> Idle]
    /\ next = 1 /\ job = NoJob /\ damage = 0
    /\ published = [g \in Gen |-> NoFile] /\ signed = {}

-----------------------------------------------------------------------------
\* What the gates establish of one generation.

\* The recorded hash is that of the payload.
Matches(g) == meta[g].sha # NoFile /\ vault[g] # NoFile /\ meta[g].sha = vault[g]

\* With a key the manifest must also carry its HMAC.
Verifies(g, keyed) ==
    /\ dir[g] = "committed"
    /\ Matches(g)
    /\ keyed => meta[g].mac = "good"

KnownGood(keyed) == {g \in Gen : Verifies(g, keyed)}

\* ensure_min_known_good: enough generations to roll back to.
MinKnownGood(n, keyed) == Cardinality(KnownGood(keyed)) >= n

\* resolve_known_good_generation: gen_ids sort by the time they were taken.
Newest(G) == CHOOSE g \in G : \A h \in G : h <= g

-----------------------------------------------------------------------------
\* publish_backup.

Goto(p, step) == pc' = [pc EXCEPT ![p] = step]
Advance(p, from, to) == pc[p] = from /\ Goto(p, to)
Leave(p) == pc' = [pc EXCEPT ![p] = "idle"] /\ own' = [own EXCEPT ![p] = Idle]

\* Staging directories no live publisher owns; the old ones are removed.
Orphans == {g \in Gen : dir[g] = "staging" /\ \A q \in Publishers : own[q].gen # g}
Begin(p) ==
    /\ pc[p] = "idle" /\ job.pc = "idle" /\ next <= MaxGen
    /\ Goto(p, "copy")
    /\ \E keyed \in BOOLEAN :
          own' = [own EXCEPT ![p] = [Idle EXCEPT !.gen = next, !.keyed = keyed]]
    /\ \E stale \in SUBSET Orphans :
          /\ dir' = [g \in Gen |-> IF g = next THEN "staging"
                                   ELSE IF g \in stale THEN "absent" ELSE dir[g]]
          /\ vault' = [g \in Gen |-> IF g \in stale THEN NoFile ELSE vault[g]]
          /\ meta' = [g \in Gen |-> IF g \in stale THEN NoSidecar ELSE meta[g]]
    /\ next' = next + 1
    /\ UNCHANGED <<source, current, previous, flat, before, job, damage, history>>

\* copy_file_chunked hashes what it reads.
Copy(p) ==
    /\ Advance(p, "copy", "describe")
    /\ vault' = [vault EXCEPT ![own[p].gen] = source]
    /\ own' = [own EXCEPT ![p].sha = source]
    /\ UNCHANGED <<source, dir, meta, current, previous, flat, before, next, job, damage, history>>

Describe(p) ==
    /\ Advance(p, "describe", "verify")
    /\ meta' = [meta EXCEPT ![own[p].gen] =
          [of |-> own[p].gen, sha |-> own[p].sha,
           mac |-> IF own[p].keyed THEN "good" ELSE "none", rebuilt |-> FALSE]]
    /\ UNCHANGED <<source, dir, vault, current, previous, flat, before, own, next, job, damage, history>>

\* The staged file is read again; if it differs the attempt fails (Fail).
VerifyStaged(p) ==
    /\ Advance(p, "verify", "commit")
    /\ vault[own[p].gen] = own[p].sha
    /\ UNCHANGED <<source, files, own, next, job, damage, history>>

\* One rename brings payload and sidecar into generations/.
Commit(p) ==
    /\ Advance(p, "commit", "read")
    /\ dir' = [dir EXCEPT ![own[p].gen] = "committed"]
    /\ published' = [published EXCEPT ![own[p].gen] = own[p].sha]
    /\ signed' = IF own[p].keyed THEN signed \cup {own[p].gen} ELSE signed
    /\ UNCHANGED <<source, vault, meta, current, previous, flat, before, own, next, job, damage>>

\* The old pointer; one that cannot be read counts as none.
ReadCurrent(p) ==
    /\ Advance(p, "read", "point")
    /\ \E old \in {current, NoGen} : own' = [own EXCEPT ![p].old = old]
    /\ UNCHANGED <<source, files, next, job, damage, history>>

\* Mutant: the pointer names the latest gen_id instead of this attempt's.
PointLatest(p) ==
    /\ Advance(p, "point", "demote")
    /\ current' = next - 1
    /\ UNCHANGED <<source, dir, vault, meta, previous, flat, before, own, next, job, damage, history>>

PointCurrent(p) ==
    /\ Advance(p, "point", "demote")
    /\ current' = own[p].gen
    /\ UNCHANGED <<source, dir, vault, meta, previous, flat, before, own, next, job, damage, history>>

PointPrevious(p) ==
    /\ Advance(p, "demote", "rotate vault")
    /\ previous' = IF own[p].old \in {NoGen, own[p].gen} THEN previous ELSE own[p].old
    /\ UNCHANGED <<source, dir, vault, meta, current, flat, before, own, next, job, damage, history>>

\* The flat copy of before last is deleted and the last one takes its name,
\* payload first; the deletion and the rename may each fail without a word.
Rotated(last, kept, none) ==
    IF last = none THEN {<<last, kept>>}
    ELSE {<<last, kept>>, <<last, none>>, <<none, last>>}

RotateVault(p) ==
    /\ Advance(p, "rotate vault", "rotate meta")
    /\ \E r \in Rotated(flat.vault, before.vault, NoFile) :
          /\ flat' = [flat EXCEPT !.vault = r[1]]
          /\ before' = [before EXCEPT !.vault = r[2]]
    /\ UNCHANGED <<source, dir, vault, meta, current, previous, own, next, job, damage, history>>

RotateMeta(p) ==
    /\ Advance(p, "rotate meta", "duplicate")
    /\ \E r \in Rotated(flat.meta, before.meta, NoSidecar) :
          /\ flat' = [flat EXCEPT !.meta = r[1]]
          /\ before' = [before EXCEPT !.meta = r[2]]
    /\ UNCHANGED <<source, dir, vault, meta, current, previous, own, next, job, damage, history>>

\* New flat files come from the committed generation, which must be readable.
Whole(g) == dir[g] = "committed" /\ vault[g] # NoFile /\ meta[g] # NoSidecar

\* Mutant: the flat sidecar gets the hash of the copy instead of the recorded one.
DuplicateRehashed(p) ==
    /\ Advance(p, "duplicate", "place vault")
    /\ Whole(own[p].gen)
    /\ own' = [own EXCEPT ![p].tmp = [vault |-> vault[own[p].gen],
                  meta |-> [meta[own[p].gen] EXCEPT !.sha = vault[own[p].gen]]]]
    /\ UNCHANGED <<source, files, next, job, damage, history>>

Duplicate(p) ==
    /\ Advance(p, "duplicate", "place vault")
    /\ Whole(own[p].gen)
    /\ own' = [own EXCEPT ![p].tmp = [vault |-> vault[own[p].gen], meta |-> meta[own[p].gen]]]
    /\ UNCHANGED <<source, files, next, job, damage, history>>

PlaceVault(p) ==
    /\ Advance(p, "place vault", "place meta")
    /\ flat' = [flat EXCEPT !.vault = own[p].tmp.vault]
    /\ UNCHANGED <<source, dir, vault, meta, current, previous, before, own, next, job, damage, history>>

\* The end of the publication; the recovery document and script follow.
PlaceMeta(p) ==
    /\ pc[p] = "place meta"
    /\ flat' = [flat EXCEPT !.meta = own[p].tmp.meta]
    /\ Leave(p)
    /\ UNCHANGED <<source, dir, vault, meta, current, previous, before, next, job, damage, history>>

\* Mutant: the handler removes the generation it has already committed.
FailRemovesCommitted(p) ==
    /\ pc[p] \notin {"idle", "read", "rotate vault", "rotate meta"}
    /\ dir' = [dir EXCEPT ![own[p].gen] = "absent"]
    /\ vault' = [vault EXCEPT ![own[p].gen] = NoFile]
    /\ meta' = [meta EXCEPT ![own[p].gen] = NoSidecar]
    /\ Leave(p)
    /\ UNCHANGED <<source, current, previous, flat, before, next, job, damage, history>>

\* Any step but a silent one may raise: what is still staged is removed.
Fail(p) ==
    /\ pc[p] \notin {"idle", "read", "rotate vault", "rotate meta"}
    /\ LET g == own[p].gen IN
          IF dir[g] = "staging"
          THEN /\ dir' = [dir EXCEPT ![g] = "absent"]
               /\ vault' = [vault EXCEPT ![g] = NoFile]
               /\ meta' = [meta EXCEPT ![g] = NoSidecar]
          ELSE UNCHANGED <<dir, vault, meta>>
    /\ Leave(p)
    /\ UNCHANGED <<source, current, previous, flat, before, next, job, damage, history>>

\* The process dies where it stands.
Crash(p) ==
    /\ pc[p] # "idle"
    /\ Leave(p)
    /\ UNCHANGED <<source, files, next, job, damage, history>>

PublishStep(p) ==
    \/ Begin(p) \/ Copy(p) \/ Describe(p) \/ VerifyStaged(p) \/ Commit(p)
    \/ ReadCurrent(p) \/ PointCurrent(p) \/ PointPrevious(p)
    \/ RotateVault(p) \/ RotateMeta(p) \/ Duplicate(p) \/ PlaceVault(p) \/ PlaceMeta(p)
    \/ Fail(p) \/ Crash(p)

-----------------------------------------------------------------------------
\* The environment: sessions change the container, media decay.

Edit ==
    /\ source < MaxVersion
    /\ source' = source + 1
    /\ UNCHANGED <<files, pc, own, next, job, damage, history>>

\* A payload, staged or committed, is damaged or lost.
DamageVault(g) ==
    /\ job.pc = "idle" /\ damage < MaxDamage /\ damage' = damage + 1
    /\ vault[g] \in Versions
    /\ \E left \in {-g, NoFile} : vault' = [vault EXCEPT ![g] = left]
    /\ UNCHANGED <<source, dir, meta, current, previous, flat, before, pc, own, next, job, history>>

\* A committed sidecar is lost, or another value stands in its text.
DamageMeta(g) ==
    /\ job.pc = "idle" /\ damage < MaxDamage /\ damage' = damage + 1
    /\ dir[g] = "committed" /\ meta[g] # NoSidecar
    /\ LET spoilt == IF meta[g].mac = "none" THEN "none" ELSE "bad" IN
          meta' \in {[meta EXCEPT ![g] = NoSidecar],
                     [meta EXCEPT ![g].sha = Garbled, ![g].mac = spoilt],
                     [meta EXCEPT ![g].mac = spoilt]}
    /\ UNCHANGED <<source, dir, vault, current, previous, flat, before, pc, own, next, job, history>>

-----------------------------------------------------------------------------
\* Maintenance: run by hand, so never beside a publication or other
\* maintenance, and the directory does not decay while it runs.

AtRest == job.pc = "idle" /\ \A p \in Publishers : pc[p] = "idle"

\* scrub_generations moves away one generation that does not match.
Scrub(g) ==
    /\ AtRest
    /\ dir[g] = "committed" /\ ~Matches(g)
    /\ dir' = [dir EXCEPT ![g] = "quarantined"]
    /\ UNCHANGED <<source, vault, meta, current, previous, flat, before, pc, own, next, job, damage, history>>

\* recover_metadata_corruption keeps a CURRENT that verifies, and otherwise
\* takes the newest generation that does; with none it refuses.
BeginRecover ==
    /\ AtRest
    /\ \E keyed \in BOOLEAN :
          LET sound == current # NoGen /\ Verifies(current, keyed)
              chosen == IF sound THEN current ELSE Newest(KnownGood(keyed)) IN
          /\ sound \/ KnownGood(keyed) # {}
          /\ job' = [NoJob EXCEPT !.pc = "repoint", !.kind = "recover", !.keyed = keyed,
                                  !.gen = chosen, !.corrupt = ~sound, !.sha = vault[chosen]]
    /\ UNCHANGED <<source, files, pc, own, next, damage, history>>

Repoint ==
    /\ job.pc = "repoint"
    /\ current' = IF job.corrupt THEN job.gen ELSE current
    /\ job' = [job EXCEPT !.pc = "reconcile"]
    /\ UNCHANGED <<source, dir, vault, meta, previous, flat, before, pc, own, next, damage, history>>

\* reconcile_generations_and_flat_files called for itself.
BeginReconcile ==
    /\ AtRest
    /\ job' = [NoJob EXCEPT !.pc = "reconcile"]
    /\ UNCHANGED <<source, files, pc, own, next, damage, history>>

\* Where a job goes on once the flat files are settled.
Settled == IF job.kind = "recover" THEN "list" ELSE "done"

\* Mutant: the payloads alone are compared.
ComparePayloads ==
    /\ job.pc = "reconcile"
    /\ IF current = NoGen \/ ~Whole(current)
       THEN job' = [job EXCEPT !.pc = Settled]
       ELSE LET pair == [vault |-> vault[current], meta |-> meta[current]] IN
            job' = [job EXCEPT !.pc = IF flat.vault = pair.vault THEN Settled ELSE "flat vault",
                               !.tmp = pair]
    /\ UNCHANGED <<source, files, pc, own, next, damage, history>>

\* It reads CURRENT again and compares hash and sidecar; it copies only when
\* they differ.
Compare ==
    /\ job.pc = "reconcile"
    /\ IF current = NoGen \/ ~Whole(current)
       THEN job' = [job EXCEPT !.pc = Settled]
       ELSE LET pair == [vault |-> vault[current], meta |-> meta[current]] IN
            job' = [job EXCEPT !.pc = IF flat = pair THEN Settled ELSE "flat vault",
                               !.tmp = pair]
    /\ UNCHANGED <<source, files, pc, own, next, damage, history>>

MirrorVault ==
    /\ job.pc = "flat vault"
    /\ flat' = [flat EXCEPT !.vault = job.tmp.vault]
    /\ job' = [job EXCEPT !.pc = "flat meta"]
    /\ UNCHANGED <<source, dir, vault, meta, current, previous, before, pc, own, next, damage, history>>

MirrorMeta ==
    /\ job.pc = "flat meta"
    /\ flat' = [flat EXCEPT !.meta = job.tmp.meta]
    /\ job' = [job EXCEPT !.pc = Settled]
    /\ UNCHANGED <<source, dir, vault, meta, current, previous, before, pc, own, next, damage, history>>

ListSiblings ==
    /\ job.pc = "list"
    /\ job' = [job EXCEPT !.pc = "siblings",
                          !.todo = {g \in Gen : dir[g] = "committed"} \ {job.gen}]
    /\ UNCHANGED <<source, files, pc, own, next, damage, history>>

\* Matching is enough without a key only for a manifest that bears no HMAC.
Healthy(g, keyed) ==
    /\ Matches(g)
    /\ IF keyed THEN meta[g].mac = "good" ELSE meta[g].mac = "none"

\* Mutants: a payload vouches for itself; a sidecar that bore no HMAC is
\* signed; one that bore an HMAC is rebuilt without.
RepairableUnattested(g) ==
    vault[g] # NoFile /\ ~Healthy(g, job.keyed) /\ (job.keyed <=> meta[g].mac # "none")
RepairableUnsigned(g) ==
    vault[g] = job.sha /\ ~Healthy(g, job.keyed) /\ (~job.keyed => meta[g].mac = "none")
RepairableKeyless(g) ==
    vault[g] = job.sha /\ ~Healthy(g, job.keyed) /\ (job.keyed => meta[g].mac # "none")

\* A sidecar is rebuilt only around the payload the chosen generation attests,
\* and signed only if it bore an HMAC and the key is here.
Repairable(g) ==
    /\ vault[g] # NoFile
    /\ ~Healthy(g, job.keyed)
    /\ vault[g] = job.sha
    /\ job.keyed <=> meta[g].mac # "none"

RepairSibling(g) ==
    /\ job.pc = "siblings" /\ g \in job.todo
    /\ job' = [job EXCEPT !.todo = @ \ {g}]
    /\ meta' = IF Repairable(g)
               THEN [meta EXCEPT ![g] = [of |-> g, sha |-> vault[g], rebuilt |-> TRUE,
                                         mac |-> IF job.keyed THEN "good" ELSE "none"]]
               ELSE meta
    /\ UNCHANGED <<source, dir, vault, current, previous, flat, before, pc, own, next, damage, history>>

FinishSiblings ==
    /\ job.pc = "siblings" /\ job.todo = {}
    /\ job' = [job EXCEPT !.pc = "done"]
    /\ UNCHANGED <<source, files, pc, own, next, damage, history>>

\* The operation returns, or its process dies.
EndJob ==
    /\ job.pc # "idle"
    /\ job' = NoJob
    /\ UNCHANGED <<source, files, pc, own, next, damage, history>>

JobStep ==
    \/ Repoint \/ Compare \/ MirrorVault \/ MirrorMeta \/ ListSiblings
    \/ FinishSiblings \/ EndJob
    \/ \E g \in Gen : RepairSibling(g)

-----------------------------------------------------------------------------
Next ==
    \/ \E p \in Publishers : PublishStep(p)
    \/ Edit
    \/ \E g \in Gen : DamageVault(g) \/ DamageMeta(g) \/ Scrub(g)
    \/ BeginRecover \/ BeginReconcile \/ JobStep

Spec == Init /\ [][Next]_vars

-----------------------------------------------------------------------------
\* Properties.

\* CURRENT and PREVIOUS never name a generation that was not renamed into
\* generations/ whole, wherever a publication failed or died
\* (publish_backup; "CURRENT pointer never identifies an incomplete
\* generation").
PointersNameWhole ==
    \A g \in {current, previous} \ {NoGen} :
        published[g] # NoFile /\ dir[g] \in {"committed", "quarantined"}

\* Whatever verifies is what was published under that name, and an HMAC that
\* verifies is on a generation published with the key: no repair vouches for
\* a damaged payload or signs what was not signed (recover_metadata_corruption:
\* "never launder damage by inventing hashes or forging signatures").
VerifiedIsPublished ==
    \A g \in Gen : dir[g] = "committed" =>
        /\ Matches(g) => vault[g] = published[g]
        /\ meta[g].mac = "good" => g \in signed

\* Nothing but decay lowers the number of generations to roll back to, with or
\* without the key: not a publication that fails or dies, not the scrub, not a
\* repair (ensure_min_known_good's result outlives them).
KnownGoodNeverFalls ==
    [][damage' = damage =>
         \A keyed \in BOOLEAN : \A n \in 0..MaxGen :
            MinKnownGood(n, keyed) => MinKnownGood(n, keyed)']_vars

\* A recovery that finishes leaves a CURRENT that verifies and flat
\* files that are its copy, whatever crash or damage came before it
\* (recover_metadata_corruption).
RecoveryHeals ==
    job.pc = "done" /\ job.kind = "recover" =>
        /\ current # NoGen
        /\ Verifies(current, job.keyed)
        /\ flat = [vault |-> vault[current], meta |-> meta[current]]

\* A flat pair that verify_backup accepts is a payload some generation was
\* published with, however two rotations mixed the files of several.
Accepted(pair) == pair.vault # NoFile /\ pair.meta.sha # NoFile /\ pair.vault = pair.meta.sha
FlatIsPublished ==
    \A pair \in {flat, before} :
        Accepted(pair) => pair.vault = published[pair.meta.of]

\* The directory as the abstract archive: a generation exists once it is
\* renamed, and is good while it verifies without the key.
Archive == INSTANCE BackupArchive WITH
    Generations <- Gen,
    NoGeneration <- NoGen,
    Payloads <- Versions,
    NoPayload <- NoFile,
    good <- [g \in Gen |-> IF Verifies(g, FALSE) THEN vault[g] ELSE NoFile],
    selected <- current

\* The file operations implement the archive: each is one of its steps or none.
ArchiveSpec == Archive!Spec
=============================================================================
