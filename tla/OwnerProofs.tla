---------------------------- MODULE OwnerProofs ----------------------------
(***************************************************************************)
(* Theorems about what the owner meets (MCOwner), each part for every      *)
(* value of its constants.                                                 *)
(*                                                                         *)
(* VaultKeys rests on which protectors some record rests on -- the layout, *)
(* an enrolment in memory, an upgrade under way, an operation -- and that  *)
(* what an operation may take away again is none of them, although the     *)
(* two are made and recorded in different steps, and that a first          *)
(* enrolment, which may destroy its container, finds nothing recorded.     *)
(*                                                                         *)
(* ProcessFamily rests on births: a process that has ended never lives     *)
(* again, so what a member was when it was last looked at it still is, if  *)
(* it lives.  Whatever the supervisor holds -- a member, a place where a   *)
(* listing begins, a victim, a listing whose place still lives -- is dead  *)
(* or of the application, and a member of any time that lives is a member  *)
(* now.                                                                    *)
(*                                                                         *)
(* AppImport rests on what an import that is alone knows at each stage:    *)
(* where the whole application is.  WindowRounds rests on the numbers: a   *)
(* question, its dialog and the slot its worker waits on carry the same    *)
(* one.  KeyUnlock rests on what is still to come: as long as the owner    *)
(* has refused nothing and the call is not cut, his key is among those     *)
(* left in the group at hand, or a group that follows has a credential of  *)
(* it.                                                                     *)
(***************************************************************************)
EXTENDS MCOwner, FiniteSetTheorems, SequenceTheorems, TLAPS

(* The keys of a vault. *)

Ops == [pc : Steps, old : MaybeId, new : MaybeId, other : MaybeId, port : MaybeId, flag : BOOLEAN]
Layouts == [on : BOOLEAN, daily : MaybeId, glass : MaybeId, portable : MaybeId]
Journals == [on : BOOLEAN, old : MaybeId]
Keys == [gen : Gens, wraps : Ids, nr : 1..MaxKeys]
Pends == [state : EnrollStates, daily : MaybeId, glass : MaybeId, portable : MaybeId, key : MaybeId]
Upgrades == [on : BOOLEAN, secret : BOOLEAN, old : MaybeId, new : MaybeId, glass : MaybeId,
             gen : Gens, wanted : BOOLEAN]

Typed ==
    /\ container \in BOOLEAN /\ unlocked \in BOOLEAN /\ native \subseteq Ids
    /\ layout \in Layouts /\ journal \in Journals /\ creds \subseteq Keys /\ active \in Gens
    /\ pend \in Pends /\ upgrade \in Upgrades /\ op \in Ops /\ faults \in 0..MaxFaults

\* The steps of an upgrade, and those among them that may still be undone.
Undoing == {"upgrade key", "upgrade switch", "undo key", "undo native"}
Upgrading == Undoing \cup {"finish old", "finish portable", "finish layout"}

\* Before there is a container there is nothing to open, and no record of a way in but
\* enrolments of the first generation.
NoVault ==
    ~container => /\ native = {} /\ ~unlocked /\ ~layout.on /\ ~upgrade.on /\ op.pc = "idle"
                  /\ active = 1 /\ \A c \in creds : c.gen = 1

\* What is enrolled for the first time waits before anything else has been recorded.
Waiting ==
    /\ pend.state \in {"await", "rollback", "layout"} =>
          container /\ ~layout.on /\ ~upgrade.on /\ active = 1
    /\ pend.state \in {"await", "rollback"} => creds = {} /\ op.pc \notin Upgrading
    /\ pend.state = "layout" => \A c \in creds : c.gen = 1
    /\ pend.state \in {"layout", "release"} => op.pc = "idle"
    /\ pend.state = "await" => pend.key \in Ids

\* The protectors some record rests on are recovery passwords in the volume.
Route(id) == id \in Recs
Routes ==
    /\ layout.on => Route(layout.daily) /\ Route(layout.glass)
    /\ pend.daily # None => Route(pend.daily) /\ Route(pend.glass)
    /\ upgrade.on => Route(upgrade.new) /\ Route(upgrade.glass) /\ upgrade.old \in Passwords
    /\ upgrade.secret => upgrade.on
OnRecord == {layout.daily, layout.glass, pend.daily, pend.glass, upgrade.new, upgrade.glass}

\* What the operation takes away is none of them.
Working ==
    /\ op.pc \in {"add layout", "add undo"} => op.new \in Passwords
    /\ op.pc \in {"verify", "restore", "unescrow", "change layout", "change done"} => op.new \in Passwords
    /\ op.pc \in {"verify", "restore", "unescrow"} => op.other \in Recoveries \ OnRecord
    /\ op.pc \in Upgrading => op.old \in Passwords /\ Route(op.new) /\ Route(op.other)
    /\ op.pc \in Undoing => op.new \notin OnRecord
    /\ op.pc \in {"upgrade key", "upgrade switch"} => NewGen \in Gens

KeysInv == Typed /\ NoVault /\ Waiting /\ Routes /\ Working

-----------------------------------------------------------------------------
LEMMA Empty ==
    /\ Idle \in Ops /\ Idle.pc = "idle"
    /\ NoPend \in Pends /\ NoPend.state = "none" /\ NoPend.daily = None
    /\ NoUpgrade \in Upgrades /\ ~NoUpgrade.on /\ ~NoUpgrade.secret
    /\ NoLayout \in Layouts /\ ~NoLayout.on
    /\ NoJournal \in Journals
  <1>1. Idle \in Ops /\ Idle.pc = "idle"  BY DEF Idle, Ops, Steps, MaybeId
  <1>2. NoPend \in Pends /\ NoPend.state = "none" /\ NoPend.daily = None
    BY DEF NoPend, Pends, EnrollStates, MaybeId
  <1>3. NoUpgrade \in Upgrades /\ ~NoUpgrade.on /\ ~NoUpgrade.secret
    BY DEF NoUpgrade, Upgrades, Gens, MaybeId
  <1>4. NoLayout \in Layouts /\ ~NoLayout.on  BY DEF NoLayout, Layouts, MaybeId
  <1>5. NoJournal \in Journals  BY DEF NoJournal, Journals, MaybeId
  <1>. QED  BY <1>1, <1>2, <1>3, <1>4, <1>5

\* What is chosen freshly is written down nowhere.
LEMMA FreshIs ==
    ASSUME NEW S, Room(S, 1)
    PROVE  /\ Fresh(S) \in S /\ Fresh(S) \notin native /\ Fresh(S) \notin OnRecord
           /\ Fresh(S) # op.new /\ Fresh(S) # op.other
  <1>1. S \ Known # {}  BY FS_EmptySet DEF Room
  <1>2. \E i \in S : i \notin Known  BY <1>1
  <1>3. Fresh(S) \in S /\ Fresh(S) \notin Known  BY <1>2 DEF Fresh
  <1>. QED  BY <1>3 DEF Known, OnRecord

LEMMA FreshTwo ==
    ASSUME NEW S, Room(S, 2)
    PROVE  Fresh(S) \in S /\ Fresh(S \ {Fresh(S)}) \in S
  <1>. DEFINE d == Fresh(S)
  <1>1. S \ Known # {}  BY FS_EmptySet DEF Room
  <1>2. \E i \in S : i \notin Known  BY <1>1
  <1>3. d \in S /\ d \notin Known  BY <1>2 DEF Fresh
  <1>. HIDE DEF d
  <1>4. S \ Known # {d}
    <2>1. Cardinality({d}) = 1  BY FS_Singleton
    <2>. QED  BY <2>1 DEF Room
  <1>5. \E i \in S \ {d} : i \notin Known  BY <1>1, <1>4
  <1>6. Fresh(S \ {d}) \in S  BY <1>5 DEF Fresh
  <1>. QED  BY <1>3, <1>6 DEF d

LEMMA Added ==
    ASSUME creds \subseteq Keys, NEW gen \in Gens, NEW id \in Ids, AddKey(gen, id)
    PROVE  creds' \subseteq Keys /\ \A c \in creds' : c \in creds \/ c.gen = gen
  <1>. DEFINE n == CHOOSE k \in Free : TRUE
              key == [gen |-> gen, wraps |-> id, nr |-> n]
  <1>1. n \in 1..MaxKeys  BY DEF AddKey, Free
  <1>. HIDE DEF n
  <1>2. key \in Keys /\ key.gen = gen  BY <1>1 DEF Keys
  <1>3. creds' = creds \cup {key}  BY DEF AddKey, n
  <1>. HIDE DEF key
  <1>. QED  BY <1>2, <1>3

LEMMA Failed ==
    ASSUME faults \in 0..MaxFaults, Fault
    PROVE  faults' \in 0..MaxFaults
  BY KeyConstants DEF Fault

LEMMA Advanced ==
    ASSUME op \in Ops, NEW from, NEW to \in Steps, Advance(from, to)
    PROVE  /\ op.pc = from /\ op' \in Ops /\ op'.pc = to
           /\ op'.old = op.old /\ op'.new = op.new /\ op'.other = op.other
  BY DEF Advance, Ops

LEMMA KeysInit == Init => KeysInv
  <1>. SUFFICES ASSUME Init PROVE KeysInv
    OBVIOUS
  <1>1. Typed
    <2>1. 0 \in 0..MaxFaults  BY KeyConstants
    <2>2. 1 \in Gens  BY DEF Gens
    <2>3. /\ container \in BOOLEAN /\ unlocked \in BOOLEAN /\ native = {} /\ creds = {}
          /\ layout = NoLayout /\ journal = NoJournal /\ active = 1
          /\ pend = NoPend /\ upgrade = NoUpgrade /\ op = Idle /\ faults = 0
      BY DEF Init
    <2>. QED  BY <2>1, <2>2, <2>3, Empty DEF Typed
  <1>2. NoVault /\ Waiting /\ Routes
    BY Empty DEF Init, NoVault, Waiting, Routes
  <1>3. Working
    BY Empty DEF Init, Working, Upgrading, Undoing
  <1>. QED  BY <1>1, <1>2, <1>3 DEF KeysInv

\* A container is made for an enrolment that then waits for its answer.
LEMMA BeginHolds ==
    ASSUME KeysInv, BeginPlain \/ BeginPortable \/ BeginFails
    PROVE  KeysInv'
  <1>. USE KeyConstants
  <1>0. /\ Typed /\ ~container /\ Usable(active) = {}
        /\ native = {} /\ ~unlocked /\ ~layout.on /\ ~upgrade.on /\ op.pc = "idle" /\ active = 1
        /\ \A c \in creds : c.gen = 1
    BY DEF KeysInv, NoVault, BeginPlain, BeginPortable, BeginFails
  <1>1. creds = {}
    BY <1>0 DEF Usable
  <1>2. ~upgrade.secret
    BY <1>0 DEF KeysInv, Routes
  <1>3. CASE BeginPlain \/ BeginPortable
    <2>1. PICK key \in Ids : /\ native' \subseteq Ids
                             /\ pend' \in Pends /\ pend'.state = "await" /\ pend'.key = key
                             /\ pend'.daily # None => /\ pend'.daily \in native' \cap Recoveries
                                                      /\ pend'.glass \in native' \cap Recoveries
      <3>1. CASE BeginPlain
        <4>1. Fresh(Passwords) \in Passwords /\ Fresh(Recoveries) \in Recoveries
          BY <3>1, FreshIs DEF BeginPlain
        <4>2. PICK p \in Passwords, r \in Recoveries :
                native' = {p, r} /\ pend' = [NoPend EXCEPT !.state = "await", !.key = p]
          BY <3>1, <4>1 DEF BeginPlain
        <4>3. pend' \in Pends /\ pend'.state = "await" /\ pend'.key = p /\ pend'.daily = None
          BY <4>2, Empty DEF Pends, EnrollStates, MaybeId, Ids
        <4>. QED  BY <4>2, <4>3 DEF Ids
      <3>2. CASE BeginPortable
        <4>1. /\ Fresh(Passwords) \in Passwords /\ Fresh(Recoveries) \in Recoveries
              /\ Fresh(Recoveries \ {Fresh(Recoveries)}) \in Recoveries
          BY <3>2, FreshIs, FreshTwo DEF BeginPortable
        <4>2. PICK p \in Passwords, d \in Recoveries, g \in Recoveries :
                /\ native' = {p, d, g}
                /\ pend' = [state |-> "await", daily |-> d, glass |-> g, portable |-> p, key |-> d]
          BY <3>2, <4>1 DEF BeginPortable
        <4>3. /\ pend' \in Pends /\ pend'.state = "await" /\ pend'.key = d
              /\ pend'.daily = d /\ pend'.glass = g
          BY <4>2 DEF Pends, EnrollStates, MaybeId, Ids
        <4>. QED  BY <4>2, <4>3 DEF Ids
      <3>. QED  BY <1>3, <3>1, <3>2
    <2>2. container' = TRUE /\ unlocked' = TRUE /\ UNCHANGED <<files, upgrade, op, faults>>
      BY <1>3 DEF BeginPlain, BeginPortable
    <2>3. UNCHANGED <<layout, journal, creds, active>>  BY <2>2 DEF files
    <2>4. Typed'  BY <1>0, <2>1, <2>2, <2>3 DEF Typed
    <2>5. NoVault'  BY <2>2 DEF NoVault
    <2>6. Waiting'  BY <1>0, <1>1, <2>1, <2>2, <2>3 DEF Waiting, Upgrading, Undoing
    <2>7. Routes'  BY <1>0, <1>2, <2>1, <2>2, <2>3 DEF Routes, Route, Recs
    <2>8. Working'  BY <1>0, <2>2, <2>3 DEF Working, Upgrading, Undoing
    <2>. QED  BY <2>4, <2>5, <2>6, <2>7, <2>8 DEF KeysInv
  <1>4. CASE BeginFails
    <2>1. /\ container' = TRUE /\ pend.state # "await"
          /\ UNCHANGED <<native, unlocked, layout, journal, creds, active, pend, upgrade, op>>
      BY <1>4 DEF BeginFails, files, memory
    <2>2. faults' \in 0..MaxFaults  BY <1>0, <1>4, Failed DEF BeginFails, Typed
    <2>3. pend.state \notin {"rollback", "layout", "release"}
      BY <1>0, <1>4 DEF KeysInv, Waiting, BeginFails, Settled
    <2>4. Typed'  BY <1>0, <2>1, <2>2 DEF Typed
    <2>5. NoVault'  BY <2>1 DEF NoVault
    <2>6. Waiting'  BY <2>1, <2>3 DEF Waiting
    <2>7. Routes'  BY <2>1 DEF KeysInv, Routes, Route, Recs
    <2>8. Working'  BY <1>0, <2>1 DEF Working, Upgrading, Undoing
    <2>. QED  BY <2>4, <2>5, <2>6, <2>7, <2>8 DEF KeysInv
  <1>. QED  BY <1>3, <1>4

\* The answer: the key is stored, the layout written, the staging volume released, or
\* the container taken back.
LEMMA AcceptHolds ==
    ASSUME KeysInv, AcceptKey \/ AcceptLayout \/ Release
    PROVE  KeysInv'
  <1>. USE KeyConstants
  <1>0. Typed  BY DEF KeysInv
  <1>1. CASE AcceptKey
    <2>1. /\ op.pc = "idle" /\ pend.state = "await" /\ pend' = [pend EXCEPT !.state = "layout"]
          /\ UNCHANGED <<container, native, unlocked, layout, journal, active, upgrade, op, faults>>
      BY <1>1 DEF AcceptKey, vault
    <2>2. pend' \in Pends /\ pend'.state = "layout" /\ pend'.daily = pend.daily /\ pend'.glass = pend.glass
      BY <1>0, <2>1 DEF Typed, Pends, EnrollStates
    <2>3. creds' \subseteq Keys /\ \A c \in creds' : c.gen = 1
      <3>1. creds = {} /\ pend.key \in Ids /\ 1 \in Gens  BY <2>1 DEF KeysInv, Waiting, Gens
      <3>. QED  BY <1>0, <1>1, <3>1, Added DEF AcceptKey, Typed
    <2>4. Typed'  BY <1>0, <2>1, <2>2, <2>3 DEF Typed
    <2>5. container' /\ ~layout'.on /\ ~upgrade'.on /\ active' = 1 /\ op'.pc = "idle"
      BY <2>1 DEF KeysInv, Waiting
    <2>6. NoVault' /\ Waiting'  BY <2>2, <2>3, <2>5 DEF NoVault, Waiting
    <2>7. Routes'  BY <2>1, <2>2 DEF KeysInv, Routes, Route, Recs
    <2>8. Working'  BY <2>5 DEF Working, Upgrading, Undoing
    <2>. QED  BY <2>4, <2>6, <2>7, <2>8 DEF KeysInv
  <1>2. CASE AcceptLayout
    <2>1. /\ pend.state = "layout" /\ pend' = [pend EXCEPT !.state = "release"]
          /\ UNCHANGED <<container, native, unlocked, journal, creds, active, upgrade, op, faults>>
      BY <1>2 DEF AcceptLayout, vault
    <2>2. pend' \in Pends /\ pend'.state = "release" /\ pend'.daily = pend.daily /\ pend'.glass = pend.glass
      BY <1>0, <2>1 DEF Typed, Pends, EnrollStates
    <2>3. container /\ ~upgrade.on /\ op.pc = "idle"
      BY <2>1 DEF KeysInv, Waiting
    <2>4. /\ layout' \in Layouts
          /\ layout'.on => Route(layout'.daily) /\ Route(layout'.glass)
      <3>1. CASE pend.daily = None
        <4>1. layout' = layout  BY <1>2, <3>1 DEF AcceptLayout
        <4>. QED  BY <1>0, <4>1 DEF Typed, KeysInv, Routes
      <3>2. CASE pend.daily # None
        <4>1. layout' = [on |-> TRUE, daily |-> pend.daily, glass |-> pend.glass, portable |-> pend.portable]
          BY <1>2, <3>2 DEF AcceptLayout
        <4>2. pend.daily \in MaybeId /\ pend.glass \in MaybeId /\ pend.portable \in MaybeId
          BY <1>0 DEF Typed, Pends
        <4>3. layout' \in Layouts /\ layout'.daily = pend.daily /\ layout'.glass = pend.glass
          BY <4>1, <4>2 DEF Layouts
        <4>. QED  BY <3>2, <4>3 DEF KeysInv, Routes
      <3>. QED  BY <3>1, <3>2
    <2>5. Typed'  BY <1>0, <2>1, <2>2, <2>4 DEF Typed
    <2>6. NoVault' /\ Waiting'  BY <2>1, <2>2, <2>3 DEF NoVault, Waiting
    <2>7. Routes'  BY <2>1, <2>2, <2>4 DEF KeysInv, Routes, Route, Recs
    <2>8. Working'  BY <2>1, <2>3 DEF Working, Upgrading, Undoing
    <2>. QED  BY <2>5, <2>6, <2>7, <2>8 DEF KeysInv
  <1>3. CASE Release
    <2>1. /\ op.pc = "idle" /\ pend.state \in {"release", "detach"}
          /\ UNCHANGED <<container, native, layout, journal, creds, active, upgrade, op>>
      BY <1>3 DEF Release, files
    <2>2. /\ pend' \in Pends /\ pend'.state \in {"ready", "detach"} /\ pend'.daily = None
          /\ unlocked' \in BOOLEAN /\ unlocked' \in {FALSE, unlocked} /\ faults' \in 0..MaxFaults
      <3>1. CASE pend' = [NoPend EXCEPT !.state = "ready"] /\ unlocked' = FALSE /\ UNCHANGED faults
        BY <1>0, <3>1, Empty DEF Typed, Pends, EnrollStates
      <3>2. CASE pend' = [NoPend EXCEPT !.state = "detach"] /\ Fault /\ UNCHANGED unlocked
        <4>1. faults' \in 0..MaxFaults  BY <1>0, <3>2, Failed DEF Typed
        <4>. QED  BY <1>0, <3>2, <4>1, Empty DEF Typed, Pends, EnrollStates
      <3>. QED  BY <1>3, <3>1, <3>2 DEF Release
    <2>3. Typed'  BY <1>0, <2>1, <2>2 DEF Typed
    <2>4. NoVault'  BY <2>1, <2>2 DEF KeysInv, NoVault
    <2>5. Waiting'  BY <2>1, <2>2 DEF Waiting
    <2>6. Routes'  BY <2>1, <2>2 DEF KeysInv, Routes, Route, Recs
    <2>7. Working'  BY <2>1 DEF Working, Upgrading, Undoing
    <2>. QED  BY <2>3, <2>4, <2>5, <2>6, <2>7 DEF KeysInv
  <1>. QED  BY <1>1, <1>2, <1>3

LEMMA TakeBackHolds ==
    ASSUME KeysInv, AcceptFails \/ Decline
    PROVE  KeysInv'
  <1>. USE KeyConstants
  <1>0. Typed  BY DEF KeysInv
  <1>1. /\ op.pc = "idle" /\ pend.state \in {"await", "layout", "rollback"}
        /\ Destroyed \/ Stays
        /\ UNCHANGED <<layout, journal, creds, active, upgrade, op>>
    BY DEF AcceptFails, Decline, files
  <1>2. /\ container /\ ~layout.on /\ ~upgrade.on /\ active = 1 /\ \A c \in creds : c.gen = 1
    BY <1>1 DEF KeysInv, Waiting
  <1>3. /\ pend' \in Pends /\ pend'.state \in {"failed", "rolled back", "rollback"} /\ pend'.daily = None
        /\ faults' \in 0..MaxFaults
        /\ pend'.state = "rollback" => Stays /\ pend.state \in {"await", "rollback"}
    <2>1. CASE AcceptFails
      <3>1. faults' \in 0..MaxFaults  BY <1>0, <2>1, Failed DEF AcceptFails, Typed
      <3>. QED  BY <2>1, <3>1, Empty DEF AcceptFails, Pends, EnrollStates
    <2>2. CASE Decline
      <3>0. pend.state \in {"await", "rollback"}  BY <2>2 DEF Decline
      <3>1. CASE pend' = [NoPend EXCEPT !.state = "rolled back"] /\ UNCHANGED faults
        BY <1>0, <3>1, Empty DEF Typed, Pends, EnrollStates
      <3>2. CASE pend' = [NoPend EXCEPT !.state = "rollback"] /\ Fault /\ Stays
        <4>1. faults' \in 0..MaxFaults  BY <1>0, <3>2, Failed DEF Typed
        <4>. QED  BY <3>0, <3>2, <4>1, Empty DEF Pends, EnrollStates
      <3>. QED  BY <2>2, <3>1, <3>2 DEF Decline
    <2>. QED  BY <2>1, <2>2
  <1>4. /\ native' \subseteq Ids /\ unlocked' \in BOOLEAN /\ container' \in BOOLEAN
        /\ ~container' => native' = {} /\ ~unlocked'
        /\ Stays => container'
    BY <1>0, <1>1, <1>2 DEF Destroyed, Stays, Typed
  <1>5. Typed'  BY <1>0, <1>1, <1>3, <1>4 DEF Typed
  <1>6. NoVault'  BY <1>1, <1>2, <1>4 DEF NoVault
  <1>7. Waiting'
    BY <1>1, <1>2, <1>3, <1>4 DEF KeysInv, Waiting, Upgrading, Undoing
  <1>8. Routes'  BY <1>1, <1>2, <1>3 DEF KeysInv, Routes
  <1>9. Working'  BY <1>1 DEF Working, Upgrading, Undoing
  <1>. QED  BY <1>5, <1>6, <1>7, <1>8, <1>9 DEF KeysInv

-----------------------------------------------------------------------------
\* One step of an operation on the portable password: of the records only the name of the
\* portable protector changes, and nothing that is on record leaves the volume.
LEMMA PortableFrame ==
    ASSUME KeysInv, container, pend.state \notin {"layout", "release"},
           UNCHANGED <<container, creds, active, pend, upgrade>>,
           native' \subseteq Ids, \A id \in OnRecord : id \in Recs => id \in native',
           unlocked' \in BOOLEAN, journal' \in Journals, faults' \in 0..MaxFaults,
           layout' \in Layouts, layout'.on = layout.on, layout'.daily = layout.daily,
           layout'.glass = layout.glass,
           op' \in Ops, op'.pc \in Upgrading => op.pc \in Upgrading, Working'
    PROVE  KeysInv'
  <1>1. Typed'  BY DEF KeysInv, Typed
  <1>2. NoVault'  BY DEF NoVault
  <1>3. Waiting'  BY DEF KeysInv, Waiting
  <1>4. Routes'  BY DEF KeysInv, Routes, Route, Recs, OnRecord
  <1>. QED  BY <1>1, <1>2, <1>3, <1>4 DEF KeysInv

\* The operations under the broker's lock have a container, and wait for no first answer.
LEMMA Under ==
    ASSUME KeysInv, op.pc # "idle"
    PROVE  /\ container /\ pend.state \notin {"layout", "release"}
           /\ Typed /\ NoPend.daily = None
  BY Empty DEF KeysInv, NoVault, Waiting

LEMMA Renamed ==
    ASSUME layout \in Layouts, NEW id \in MaybeId, Portable(id)
    PROVE  /\ layout' \in Layouts
           /\ layout'.on = layout.on /\ layout'.daily = layout.daily /\ layout'.glass = layout.glass
  BY DEF Portable, Layouts

LEMMA Returned ==
    ASSUME Return
    PROVE  op' \in Ops /\ op'.pc = "idle"
  BY Empty DEF Return

LEMMA Thrown ==
    ASSUME faults \in 0..MaxFaults, NEW id, native \subseteq Ids, Discard(id)
    PROVE  faults' \in 0..MaxFaults /\ native' \subseteq Ids /\ native' \in {native, native \ {id}}
  <1>1. CASE native' = native \ {id} /\ UNCHANGED faults  BY <1>1
  <1>2. CASE Fault /\ UNCHANGED native  BY <1>2, Failed
  <1>. QED  BY <1>1, <1>2 DEF Discard

\* A password added on its own, and taken away again when the layout is not written.
LEMMA AddHolds ==
    ASSUME KeysInv, Add \/ AddLayout \/ AddUndo
    PROVE  KeysInv'
  <1>. USE KeyConstants
  <1>0. /\ Typed /\ Routes /\ Working /\ NoVault /\ layout \in Layouts
        /\ \A id \in Passwords : id \notin Recs
    BY DEF KeysInv, Typed, Recs
  <1>1. CASE Add
    <2>1. PICK new \in Passwords : native' = native \cup {new} /\ op' = [Idle EXCEPT !.pc = "add layout", !.new = new]
      BY <1>1, FreshIs DEF Add
    <2>2. /\ container /\ pend.state \notin {"layout", "release"}
          /\ UNCHANGED <<container, unlocked, layout, journal, creds, active, pend, upgrade, faults>>
      BY <1>0, <1>1 DEF Add, NoVault, Settled, files, memory
    <2>3. op' \in Ops /\ op'.pc = "add layout" /\ op'.new = new
      BY <2>1, Empty DEF Ops, Steps, MaybeId, Ids
    <2>4. native' \subseteq Ids  BY <1>0, <2>1 DEF Typed, Ids
    <2>5. Working'  BY <2>3 DEF Working, Upgrading, Undoing
    <2>6. "add layout" \notin Upgrading  BY DEF Upgrading, Undoing
    <2>. QED  BY <1>0, <2>1, <2>2, <2>3, <2>4, <2>5, <2>6, PortableFrame DEF Typed, Recs
  <1>2. CASE AddLayout
    <2>1. /\ op.pc = "add layout" /\ op.new \in Passwords
          /\ UNCHANGED <<container, native, unlocked, journal, creds, active, pend, upgrade>>
      BY <1>0, <1>2 DEF AddLayout, Working, vault, memory
    <2>2. container /\ pend.state \notin {"layout", "release"}
      BY <2>1, Under
    <2>3. /\ layout' \in Layouts /\ layout'.on = layout.on /\ layout'.daily = layout.daily
          /\ layout'.glass = layout.glass
          /\ op' \in Ops /\ (op'.pc = "idle" \/ (op'.pc = "add undo" /\ op'.new = op.new))
          /\ faults' \in 0..MaxFaults
      <3>0. op \in Ops /\ faults \in 0..MaxFaults /\ "add undo" \in Steps /\ op.new \in MaybeId
        BY <1>0, <2>1 DEF Typed, Steps, MaybeId, Ids
      <3>1. CASE layout.on /\ Portable(op.new) /\ Return /\ UNCHANGED faults
        <4>1. op' \in Ops /\ op'.pc = "idle"  BY <3>1, Returned
        <4>2. /\ layout' \in Layouts /\ layout'.on = layout.on /\ layout'.daily = layout.daily
              /\ layout'.glass = layout.glass
          BY <1>0, <3>0, <3>1, Renamed
        <4>. QED  BY <3>0, <3>1, <4>1, <4>2
      <3>2. CASE Advance("add layout", "add undo") /\ UNCHANGED <<layout, faults>>
        BY <1>0, <3>0, <3>2, Advanced
      <3>3. CASE Advance("add layout", "add undo") /\ Fault /\ UNCHANGED layout
        BY <1>0, <3>0, <3>3, Advanced, Failed
      <3>. QED  BY <1>2, <3>1, <3>2, <3>3 DEF AddLayout
    <2>4. Working'  BY <2>1, <2>3 DEF Working, Upgrading, Undoing
    <2>5. op'.pc \notin Upgrading  BY <2>3 DEF Upgrading, Undoing
    <2>. QED  BY <1>0, <2>1, <2>2, <2>3, <2>4, <2>5, PortableFrame DEF Typed, Recs
  <1>3. CASE AddUndo
    <2>1. /\ op.pc = "add undo" /\ op.new \in Passwords
          /\ UNCHANGED <<container, unlocked, layout, journal, creds, active, pend, upgrade>>
      BY <1>0, <1>3 DEF AddUndo, Working, files, memory
    <2>2. container /\ pend.state \notin {"layout", "release"}
      BY <2>1, Under
    <2>3. /\ faults' \in 0..MaxFaults /\ native' \subseteq Ids /\ native' \in {native, native \ {op.new}}
          /\ op' \in Ops /\ op'.pc = "idle"
      BY <1>0, <1>3, Thrown, Returned DEF AddUndo, Typed
    <2>4. Working' /\ op'.pc \notin Upgrading
      BY <2>3 DEF Working, Upgrading, Undoing
    <2>. QED  BY <1>0, <2>1, <2>2, <2>3, <2>4, PortableFrame DEF Typed, Recs
  <1>. QED  BY <1>1, <1>2, <1>3

\* A rotation up to the point where both new protectors are in.
LEMMA ChangeHolds ==
    ASSUME KeysInv, (\E knows \in BOOLEAN : Change(knows)) \/ ChangeReconciles \/ ChangeNative \/ ChangeRefused
    PROVE  KeysInv'
  <1>. USE KeyConstants
  <1>0. /\ Typed /\ Routes /\ Working /\ NoVault /\ layout \in Layouts
        /\ \A id \in Passwords : id \notin Recs
        /\ OnRecord \cap Recs \subseteq native
    BY DEF KeysInv, Typed, Recs
  <1>1. ASSUME NEW knows \in BOOLEAN, Change(knows) PROVE KeysInv'
    <2>1. /\ container /\ pend.state \notin {"layout", "release"}
          /\ UNCHANGED <<container, native, layout, creds, active, pend, upgrade, faults>>
          /\ unlocked' = (unlocked \/ knows) /\ journal' = [on |-> TRUE, old |-> layout.portable]
          /\ op' = [Idle EXCEPT !.pc = "change", !.old = layout.portable, !.flag = knows]
      BY <1>1 DEF Change, Settled, memory
    <2>2. layout.portable \in MaybeId  BY <1>0 DEF Layouts
    <2>3. journal' \in Journals /\ unlocked' \in BOOLEAN  BY <2>1, <2>2 DEF Journals
    <2>4. op' \in Ops /\ op'.pc = "change"  BY <2>1, <2>2, Empty DEF Ops, Steps
    <2>5. Working' /\ op'.pc \notin Upgrading  BY <2>4 DEF Working, Upgrading, Undoing
    <2>. QED  BY <1>0, <2>1, <2>3, <2>4, <2>5, PortableFrame DEF Typed, Recs
  <1>2. CASE ChangeReconciles
    <2>1. /\ container /\ pend.state \notin {"layout", "release"} /\ op.pc = "idle" /\ Reconcile
          /\ UNCHANGED <<container, native, unlocked, creds, active, pend, upgrade, op, faults>>
      BY <1>2 DEF ChangeReconciles, Settled, memory, vault
    <2>2. /\ layout' \in Layouts /\ layout'.on = layout.on /\ layout'.daily = layout.daily
          /\ layout'.glass = layout.glass /\ journal' \in Journals
      <3>1. journal.old \in MaybeId /\ None \in MaybeId  BY <1>0 DEF Typed, Journals, MaybeId
      <3>2. PICK id \in MaybeId : Portable(id) /\ journal' = NoJournal
        BY <1>2, <2>1, <3>1 DEF Reconcile, ChangeReconciles
      <3>. QED  BY <1>0, <3>2, Renamed, Empty
    <2>3. Working' /\ op'.pc \notin Upgrading  BY <2>1 DEF Working, Upgrading, Undoing
    <2>. QED  BY <1>0, <2>1, <2>2, <2>3, PortableFrame DEF Typed, Recs
  <1>3. CASE ChangeNative
    <2>1. /\ op.pc = "change"
          /\ UNCHANGED <<container, unlocked, layout, journal, creds, active, pend, upgrade>>
      BY <1>3 DEF ChangeNative, files, memory
    <2>2. container /\ pend.state \notin {"layout", "release"}
      BY <2>1, Under
    <2>3. PICK old \in Pwds, e \in Recoveries, n \in Passwords :
            /\ e \notin OnRecord
            /\ \/ /\ native' = (native \ {old}) \cup {e, n}
                  /\ op' = [op EXCEPT !.pc = "verify", !.new = n, !.other = e]
                  /\ UNCHANGED faults
               \/ /\ native' \in {native, native \cup {e}, (native \ {old}) \cup {e}, (native \ {old}) \cup {e, n}}
                  /\ Return /\ Fault
      <3>1. /\ Fresh(Recoveries) \in Recoveries /\ Fresh(Recoveries) \notin OnRecord
            /\ Fresh(Passwords) \in Passwords
        BY <1>3, FreshIs DEF ChangeNative
      <3>2. Expected(op.old) \subseteq Pwds  BY DEF Expected
      <3>. QED  BY <1>3, <3>1, <3>2 DEF ChangeNative
    <2>4. /\ native' \subseteq Ids /\ \A id \in OnRecord : id \in Recs => id \in native'
          /\ op' \in Ops /\ faults' \in 0..MaxFaults
          /\ op'.pc = "idle" \/ (op'.pc = "verify" /\ op'.new = n /\ op'.other = e)
      <3>0. /\ old \in Passwords /\ n \in Ids /\ e \in Ids /\ native \subseteq Ids /\ op \in Ops
            /\ n \in MaybeId /\ e \in MaybeId /\ "verify" \in Steps /\ faults \in 0..MaxFaults
        BY <1>0 DEF Pwds, Typed, Ids, MaybeId, Steps
      <3>1. native' \subseteq Ids /\ \A id \in OnRecord : id \in Recs => id \in native'
        BY <1>0, <2>3, <3>0 DEF Recs
      <3>2. CASE op' = [op EXCEPT !.pc = "verify", !.new = n, !.other = e] /\ UNCHANGED faults
        <4>1. op' \in Ops /\ op'.pc = "verify" /\ op'.new = n /\ op'.other = e
          BY <3>0, <3>2 DEF Ops
        <4>. QED  BY <3>0, <3>1, <3>2, <4>1
      <3>3. CASE Return /\ Fault
        <4>1. op' \in Ops /\ op'.pc = "idle"  BY <3>3, Returned
        <4>2. faults' \in 0..MaxFaults  BY <3>0, <3>3, Failed
        <4>. QED  BY <3>1, <4>1, <4>2
      <3>. QED  BY <2>3, <3>2, <3>3
    <2>5. OnRecord' = OnRecord  BY <2>1 DEF OnRecord
    <2>6. Working' /\ op'.pc \notin Upgrading
      BY <2>3, <2>4, <2>5 DEF Working, Upgrading, Undoing
    <2>. QED  BY <1>0, <2>1, <2>2, <2>4, <2>6, PortableFrame DEF Typed
  <1>4. CASE ChangeRefused
    <2>1. /\ op.pc = "change" /\ Return
          /\ UNCHANGED <<container, native, unlocked, layout, journal, creds, active, pend, upgrade, faults>>
      BY <1>4 DEF ChangeRefused, vault, files, memory
    <2>2. container /\ pend.state \notin {"layout", "release"}
      BY <2>1, Under
    <2>3. op' \in Ops /\ op'.pc = "idle"  BY <2>1, Returned
    <2>4. Working' /\ op'.pc \notin Upgrading  BY <2>3 DEF Working, Upgrading, Undoing
    <2>. QED  BY <1>0, <2>1, <2>2, <2>3, <2>4, PortableFrame DEF Typed, Recs
  <1>. QED  BY <1>1, <1>2, <1>3, <1>4

\* The end of either operation with a journal.
LEMMA CompleteHolds ==
    ASSUME KeysInv, NEW from, Complete(from), from # "idle"
    PROVE  KeysInv'
  <1>0. /\ Typed /\ Routes /\ Working /\ layout \in Layouts /\ faults \in 0..MaxFaults
        /\ OnRecord \cap Recs \subseteq native
    BY DEF KeysInv, Typed, Recs
  <1>1. /\ op.pc # "idle" /\ Return
        /\ UNCHANGED <<container, native, unlocked, layout, creds, active, pend, upgrade>>
    BY DEF Complete, vault, memory
  <1>2. container /\ pend.state \notin {"layout", "release"}
    BY <1>1, Under
  <1>3. op' \in Ops /\ op'.pc = "idle"  BY <1>1, Returned
  <1>4. journal' \in Journals /\ faults' \in 0..MaxFaults
    <2>1. CASE journal' = NoJournal /\ UNCHANGED faults  BY <1>0, <2>1, Empty
    <2>2. CASE Fault /\ UNCHANGED journal
      <3>1. faults' \in 0..MaxFaults  BY <1>0, <2>2, Failed
      <3>. QED  BY <1>0, <2>2, <3>1 DEF Typed
    <2>. QED  BY <2>1, <2>2 DEF Complete
  <1>5. Working' /\ op'.pc \notin Upgrading  BY <1>3 DEF Working, Upgrading, Undoing
  <1>. QED  BY <1>0, <1>1, <1>2, <1>3, <1>4, <1>5, PortableFrame DEF Typed

\* The rotation proved, restored or completed: the escrow goes, and nothing on record.
LEMMA RotationHolds ==
    ASSUME KeysInv, Verify \/ Restore \/ Unescrow \/ ChangeLayout \/ ChangeDone
    PROVE  KeysInv'
  <1>. USE KeyConstants
  <1>0. /\ Typed /\ Routes /\ Working /\ NoVault /\ layout \in Layouts /\ op \in Ops
        /\ faults \in 0..MaxFaults /\ native \subseteq Ids
        /\ \A id \in Passwords : id \notin Recs
        /\ OnRecord \cap Recs \subseteq native
    BY DEF KeysInv, Typed, Recs
  <1>1. CASE Verify
    <2>1. /\ op.pc = "verify"
          /\ UNCHANGED <<container, native, layout, journal, creds, active, pend, upgrade>>
      BY <1>1 DEF Verify, files, memory
    <2>2. container /\ pend.state \notin {"layout", "release"}
      BY <2>1, Under
    <2>3. /\ op' \in Ops /\ op'.pc \in {"unescrow", "restore"} /\ op'.new = op.new /\ op'.other = op.other
          /\ faults' \in 0..MaxFaults /\ unlocked' \in BOOLEAN
      <3>0. "unescrow" \in Steps /\ "restore" \in Steps /\ unlocked \in BOOLEAN
        BY <1>0 DEF Steps, Typed
      <3>1. CASE Advance("verify", "unescrow") /\ UNCHANGED <<unlocked, faults>>
        BY <1>0, <3>0, <3>1, Advanced
      <3>2. CASE Advance("verify", "restore") /\ Fault /\ unlocked' \in {FALSE, unlocked}
        <4>1. faults' \in 0..MaxFaults  BY <1>0, <3>2, Failed
        <4>. QED  BY <1>0, <3>0, <3>2, <4>1, Advanced
      <3>. QED  BY <1>1, <3>1, <3>2 DEF Verify
    <2>4. OnRecord' = OnRecord  BY <2>1 DEF OnRecord
    <2>5. Working' /\ op'.pc \notin Upgrading
      BY <1>0, <2>1, <2>3, <2>4 DEF Working, Upgrading, Undoing
    <2>. QED  BY <1>0, <2>1, <2>2, <2>3, <2>5, PortableFrame DEF Typed
  <1>2. CASE Restore
    <2>1. /\ op.pc = "restore" /\ op.new \in Passwords /\ op.other \notin OnRecord
          /\ UNCHANGED <<container, unlocked, layout, creds, active, pend, upgrade>>
          /\ Return
      BY <1>0, <1>2 DEF Restore, Working, memory
    <2>2. container /\ pend.state \notin {"layout", "release"}
      BY <2>1, Under
    <2>3. op' \in Ops /\ op'.pc = "idle"  BY <2>1, Returned
    <2>4. /\ native' \subseteq Ids /\ \A id \in OnRecord : id \in Recs => id \in native'
          /\ faults' \in 0..MaxFaults /\ journal' \in Journals
      <3>1. CASE UNCHANGED <<native, journal, faults>>
        BY <1>0, <3>1 DEF Typed, Recs
      <3>2. CASE /\ Room(Passwords, 1)
                 /\ LET n == Fresh(Passwords) IN
                      \/ native' = ((native \ {op.new}) \cup {n}) \ {op.other} /\ journal' = NoJournal /\ UNCHANGED faults
                      \/ native' = (native \ {op.new}) \cup {n} /\ Fault /\ journal' \in {journal, NoJournal}
        <4>1. PICK n \in Passwords :
                 \/ native' = ((native \ {op.new}) \cup {n}) \ {op.other} /\ journal' = NoJournal /\ UNCHANGED faults
                 \/ native' = (native \ {op.new}) \cup {n} /\ Fault /\ journal' \in {journal, NoJournal}
          BY <3>2, FreshIs
        <4>2. native' \subseteq Ids /\ \A id \in OnRecord : id \in Recs => id \in native'
          BY <1>0, <2>1, <4>1 DEF Ids, Recs
        <4>3. journal' \in Journals  BY <1>0, <4>1, Empty DEF Typed
        <4>4. faults' \in 0..MaxFaults  BY <1>0, <4>1, Failed
        <4>. QED  BY <4>2, <4>3, <4>4
      <3>. QED  BY <1>2, <3>1, <3>2 DEF Restore
    <2>5. Working' /\ op'.pc \notin Upgrading  BY <2>3 DEF Working, Upgrading, Undoing
    <2>. QED  BY <1>0, <2>1, <2>2, <2>3, <2>4, <2>5, PortableFrame DEF Typed
  <1>3. CASE Unescrow
    <2>1. /\ op.pc = "unescrow" /\ op.new \in Passwords /\ op.other \notin OnRecord
          /\ UNCHANGED <<container, unlocked, layout, journal, creds, active, pend, upgrade>>
      BY <1>0, <1>3 DEF Unescrow, Working, files, memory
    <2>2. container /\ pend.state \notin {"layout", "release"}
      BY <2>1, Under
    <2>3. /\ native' \in {native, native \ {op.other}} /\ faults' \in 0..MaxFaults
          /\ op' \in Ops /\ (op'.pc = "idle" \/ (op'.pc = "change layout" /\ op'.new = op.new))
      <3>1. CASE Advance("unescrow", "change layout") /\ native' = native \ {op.other} /\ UNCHANGED faults
        <4>1. "change layout" \in Steps  BY DEF Steps
        <4>. QED  BY <1>0, <3>1, <4>1, Advanced
      <3>2. CASE Return /\ Fault /\ UNCHANGED native
        <4>1. op' \in Ops /\ op'.pc = "idle"  BY <3>2, Returned
        <4>2. faults' \in 0..MaxFaults  BY <1>0, <3>2, Failed
        <4>. QED  BY <3>2, <4>1, <4>2
      <3>. QED  BY <1>3, <3>1, <3>2 DEF Unescrow
    <2>4. native' \subseteq Ids /\ \A id \in OnRecord : id \in Recs => id \in native'
      BY <1>0, <2>1, <2>3 DEF Recs
    <2>5. Working' /\ op'.pc \notin Upgrading
      BY <2>1, <2>3 DEF Working, Upgrading, Undoing
    <2>. QED  BY <1>0, <2>1, <2>2, <2>3, <2>4, <2>5, PortableFrame DEF Typed
  <1>4. CASE ChangeLayout
    <2>1. /\ op.pc = "change layout" /\ op.new \in Passwords
          /\ UNCHANGED <<container, native, unlocked, journal, creds, active, pend, upgrade>>
      BY <1>0, <1>4 DEF ChangeLayout, Working, vault, memory
    <2>2. container /\ pend.state \notin {"layout", "release"}
      BY <2>1, Under
    <2>3. /\ layout' \in Layouts /\ layout'.on = layout.on /\ layout'.daily = layout.daily
          /\ layout'.glass = layout.glass /\ faults' \in 0..MaxFaults
          /\ op' \in Ops /\ (op'.pc = "idle" \/ (op'.pc = "change done" /\ op'.new = op.new))
      <3>1. CASE Portable(op.new) /\ Advance("change layout", "change done") /\ UNCHANGED faults
        <4>1. "change done" \in Steps /\ op.new \in MaybeId  BY <2>1 DEF Steps, MaybeId, Ids
        <4>2. /\ layout' \in Layouts /\ layout'.on = layout.on /\ layout'.daily = layout.daily
              /\ layout'.glass = layout.glass
          BY <1>0, <3>1, <4>1, Renamed
        <4>3. op' \in Ops /\ op'.pc = "change done" /\ op'.new = op.new
          BY <1>0, <3>1, <4>1, Advanced
        <4>. QED  BY <1>0, <3>1, <4>2, <4>3
      <3>2. CASE Return /\ Fault /\ UNCHANGED layout
        <4>1. op' \in Ops /\ op'.pc = "idle"  BY <3>2, Returned
        <4>2. faults' \in 0..MaxFaults  BY <1>0, <3>2, Failed
        <4>. QED  BY <1>0, <3>2, <4>1, <4>2
      <3>. QED  BY <1>4, <3>1, <3>2 DEF ChangeLayout
    <2>4. Working' /\ op'.pc \notin Upgrading
      BY <2>1, <2>3 DEF Working, Upgrading, Undoing
    <2>. QED  BY <1>0, <2>1, <2>2, <2>3, <2>4, PortableFrame DEF Typed, Recs
  <1>5. CASE ChangeDone  BY <1>5, CompleteHolds DEF ChangeDone
  <1>. QED  BY <1>1, <1>2, <1>3, <1>4, <1>5

\* A removal: the protector goes, then the name in the layout.
LEMMA RemoveHolds ==
    ASSUME KeysInv, RemoveBegin \/ RemoveNative \/ RemoveLayout \/ RemoveDone
    PROVE  KeysInv'
  <1>. USE KeyConstants
  <1>0. /\ Typed /\ Routes /\ Working /\ NoVault /\ layout \in Layouts /\ op \in Ops
        /\ faults \in 0..MaxFaults /\ native \subseteq Ids
        /\ \A id \in Passwords : id \notin Recs
        /\ OnRecord \cap Recs \subseteq native
    BY DEF KeysInv, Typed, Recs
  <1>1. CASE RemoveBegin
    <2>1. /\ container /\ pend.state \notin {"layout", "release"}
          /\ UNCHANGED <<container, native, unlocked, layout, creds, active, pend, upgrade, faults>>
          /\ journal' = [on |-> TRUE, old |-> layout.portable]
          /\ op' = [Idle EXCEPT !.pc = "remove", !.old = layout.portable]
      BY <1>1 DEF RemoveBegin, Settled, memory, vault
    <2>2. layout.portable \in MaybeId  BY <1>0 DEF Layouts
    <2>3. journal' \in Journals  BY <2>1, <2>2 DEF Journals
    <2>4. op' \in Ops /\ op'.pc = "remove"  BY <2>1, <2>2, Empty DEF Ops, Steps
    <2>5. Working' /\ op'.pc \notin Upgrading  BY <2>4 DEF Working, Upgrading, Undoing
    <2>. QED  BY <1>0, <2>1, <2>3, <2>4, <2>5, PortableFrame DEF Typed, Recs
  <1>2. CASE RemoveNative
    <2>1. /\ op.pc = "remove"
          /\ UNCHANGED <<container, unlocked, layout, journal, creds, active, pend, upgrade>>
      BY <1>2 DEF RemoveNative, files, memory
    <2>2. container /\ pend.state \notin {"layout", "release"}
      BY <2>1, Under
    <2>3. native' = native \/ \E old \in Passwords : native' = native \ {old}
      <3>1. Expected(op.old) \subseteq Passwords  BY DEF Expected, Pwds
      <3>. QED  BY <1>2, <3>1 DEF RemoveNative
    <2>4. native' \subseteq Ids /\ \A id \in OnRecord : id \in Recs => id \in native'
      BY <1>0, <2>3 DEF Recs
    <2>5. op' \in Ops /\ op'.pc \in {"idle", "remove layout"} /\ faults' \in 0..MaxFaults
      <3>1. "remove layout" \in Steps  BY DEF Steps
      <3>2. CASE Advance("remove", "remove layout") /\ UNCHANGED faults
        BY <1>0, <3>1, <3>2, Advanced
      <3>3. CASE Return /\ UNCHANGED faults
        BY <1>0, <3>3, Returned
      <3>4. CASE Return /\ Fault
        <4>1. op' \in Ops /\ op'.pc = "idle"  BY <3>4, Returned
        <4>2. faults' \in 0..MaxFaults  BY <1>0, <3>4, Failed
        <4>. QED  BY <4>1, <4>2
      <3>. QED  BY <1>2, <3>2, <3>3, <3>4 DEF RemoveNative
    <2>6. Working' /\ op'.pc \notin Upgrading  BY <2>5 DEF Working, Upgrading, Undoing
    <2>. QED  BY <1>0, <2>1, <2>2, <2>4, <2>5, <2>6, PortableFrame DEF Typed
  <1>3. CASE RemoveLayout
    <2>1. /\ op.pc = "remove layout"
          /\ UNCHANGED <<container, native, unlocked, journal, creds, active, pend, upgrade>>
      BY <1>3 DEF RemoveLayout, vault, memory
    <2>2. container /\ pend.state \notin {"layout", "release"}
      BY <2>1, Under
    <2>3. /\ layout' \in Layouts /\ layout'.on = layout.on /\ layout'.daily = layout.daily
          /\ layout'.glass = layout.glass /\ faults' \in 0..MaxFaults
          /\ op' \in Ops /\ op'.pc \in {"idle", "remove done"}
      <3>1. CASE Portable(None) /\ Advance("remove layout", "remove done") /\ UNCHANGED faults
        <4>1. "remove done" \in Steps /\ None \in MaybeId  BY DEF Steps, MaybeId
        <4>2. /\ layout' \in Layouts /\ layout'.on = layout.on /\ layout'.daily = layout.daily
              /\ layout'.glass = layout.glass
          BY <1>0, <3>1, <4>1, Renamed
        <4>3. op' \in Ops /\ op'.pc = "remove done"
          BY <1>0, <3>1, <4>1, Advanced
        <4>. QED  BY <1>0, <3>1, <4>2, <4>3
      <3>2. CASE Return /\ UNCHANGED <<layout, faults>>
        BY <1>0, <3>2, Returned
      <3>3. CASE Return /\ Fault /\ UNCHANGED layout
        <4>1. op' \in Ops /\ op'.pc = "idle"  BY <3>3, Returned
        <4>2. faults' \in 0..MaxFaults  BY <1>0, <3>3, Failed
        <4>. QED  BY <1>0, <3>3, <4>1, <4>2
      <3>. QED  BY <1>3, <3>1, <3>2, <3>3 DEF RemoveLayout
    <2>4. Working' /\ op'.pc \notin Upgrading  BY <2>3 DEF Working, Upgrading, Undoing
    <2>. QED  BY <1>0, <2>1, <2>2, <2>3, <2>4, PortableFrame DEF Typed, Recs
  <1>4. CASE RemoveDone  BY <1>4, CompleteHolds DEF RemoveDone
  <1>. QED  BY <1>1, <1>2, <1>3, <1>4

-----------------------------------------------------------------------------
\* The upgrade meets no enrolment under way.
LEMMA NotWaiting ==
    ASSUME pend.state \notin {"await", "rollback", "layout", "release"}, UNCHANGED pend,
           Typed', NoVault', Routes', Working'
    PROVE  KeysInv'
  BY DEF KeysInv, Waiting

LEMMA UnderUpgrade ==
    ASSUME KeysInv, op.pc \in Upgrading
    PROVE  /\ container /\ pend.state \notin {"await", "rollback", "layout", "release"}
           /\ op.old \in Passwords /\ op.new \in Recs /\ op.other \in Recs
           /\ op.pc \in Undoing => op.new \notin OnRecord
  <1>1. op.pc # "idle"  BY DEF Upgrading, Undoing
  <1>. QED  BY <1>1, Under DEF KeysInv, Waiting, Working, Route

\* An enrolled key means that no first enrolment waits for its answer.
LEMMA Enrolled ==
    ASSUME KeysInv, Settled, creds # {}
    PROVE  pend.state \notin {"await", "rollback", "layout", "release"}
  BY DEF KeysInv, Waiting, Settled

\* What the completion of an upgrade starts from.
LEMMA Finishing ==
    ASSUME KeysInv, upgrade.on,
           op' = [Idle EXCEPT !.pc = "finish old", !.old = upgrade.old, !.new = upgrade.new,
                              !.other = upgrade.glass, !.flag = upgrade.wanted],
           UNCHANGED native
    PROVE  op' \in Ops /\ Working'
  <1>1. /\ upgrade.old \in Passwords /\ upgrade.new \in Recs /\ upgrade.glass \in Recs
        /\ upgrade.wanted \in BOOLEAN
    BY DEF KeysInv, Routes, Route, Typed, Upgrades
  <1>2. upgrade.old \in MaybeId /\ upgrade.new \in MaybeId /\ upgrade.glass \in MaybeId
    BY <1>1 DEF MaybeId, Ids, Recs
  <1>3. "finish old" \in Steps  BY DEF Steps
  <1>4. /\ op' \in Ops /\ op'.pc = "finish old" /\ op'.old = upgrade.old /\ op'.new = upgrade.new
        /\ op'.other = upgrade.glass
    BY <1>1, <1>2, <1>3, Empty DEF Ops
  <1>5. Working'  BY <1>1, <1>4 DEF Working, Route, Recs, Undoing
  <1>. QED  BY <1>4, <1>5

\* The new protector and the new enrolment, and what takes them back.
LEMMA UpgradeHolds ==
    ASSUME KeysInv, (\E port \in BOOLEAN : Upgrade(port)) \/ UpgradeKey \/ UpgradeSwitch \/ UndoKey \/ UndoNative
    PROVE  KeysInv'
  <1>. USE KeyConstants
  <1>0. /\ Typed /\ Routes /\ Working /\ NoVault /\ op \in Ops /\ creds \subseteq Keys
        /\ faults \in 0..MaxFaults /\ native \subseteq Ids /\ active \in Gens
        /\ OnRecord \cap Recs \subseteq native
    BY DEF KeysInv, Typed, Recs
  <1>1. ASSUME NEW port \in BOOLEAN, Upgrade(port) PROVE KeysInv'
    <2>1. /\ unlocked /\ creds # {} /\ Settled /\ NewGen \in Gens
          /\ UNCHANGED <<container, unlocked, layout, journal, creds, active, pend, upgrade, faults>>
      BY <1>1 DEF Upgrade, files, memory
    <2>2. pend.state \notin {"await", "rollback", "layout", "release"}
      BY <2>1, Enrolled
    <2>3. (CHOOSE p \in Pwds : TRUE) \in Pwds /\ (CHOOSE r \in Recs : TRUE) \in Recs
      <3>1. Cardinality(Pwds) = 1 /\ Cardinality(Recs) = 1  BY <1>1 DEF Upgrade
      <3>2. Pwds # {} /\ Recs # {}  BY <3>1, FS_EmptySet
      <3>. QED  BY <3>2
    <2>4. Fresh(Recoveries) \in Recoveries /\ Fresh(Recoveries) \notin OnRecord
      BY <1>1, FreshIs DEF Upgrade
    <2>5. PICK p \in Pwds, r \in Recs, new \in Recoveries :
            /\ new \notin OnRecord /\ native' = native \cup {new}
            /\ op' = [Idle EXCEPT !.pc = "upgrade key", !.flag = port, !.new = new, !.old = p, !.other = r]
      BY <1>1, <2>3, <2>4 DEF Upgrade
    <2>6. p \in MaybeId /\ r \in MaybeId /\ new \in MaybeId /\ "upgrade key" \in Steps
      BY DEF Pwds, Recs, MaybeId, Ids, Steps
    <2>7. op' \in Ops /\ op'.pc = "upgrade key" /\ op'.old = p /\ op'.new = new /\ op'.other = r
      BY <2>5, <2>6, Empty DEF Ops
    <2>8. Typed'  BY <1>0, <2>1, <2>5, <2>7 DEF Typed, Ids
    <2>9. NoVault'  BY <1>0, <2>1 DEF NoVault
    <2>10. Routes'  BY <1>0, <2>1, <2>5 DEF Routes, Route, Recs
    <2>11. OnRecord' = OnRecord /\ NewGen' = NewGen  BY <2>1 DEF OnRecord, NewGen
    <2>12. p \in Passwords /\ r \in Recs' /\ new \in Recs'
      BY <2>5 DEF Pwds, Recs
    <2>13. Working'
      BY <2>1, <2>5, <2>7, <2>11, <2>12 DEF Working, Route, Upgrading, Undoing
    <2>. QED  BY <2>1, <2>2, <2>8, <2>9, <2>10, <2>13, NotWaiting
  <1>2. CASE UpgradeKey
    <2>1. /\ op.pc = "upgrade key"
          /\ UNCHANGED <<container, native, unlocked, layout, journal, active, pend, upgrade>>
      BY <1>2 DEF UpgradeKey, vault, memory
    <2>2. /\ container /\ pend.state \notin {"await", "rollback", "layout", "release"}
          /\ op.old \in Passwords /\ op.new \in Recs /\ op.other \in Recs /\ op.new \notin OnRecord
          /\ NewGen \in Gens
      BY <1>0, <2>1, UnderUpgrade DEF Upgrading, Undoing, Working
    <2>3. /\ creds' \subseteq Keys /\ faults' \in 0..MaxFaults
          /\ op' \in Ops /\ op'.pc \in {"upgrade switch", "undo native"}
          /\ op'.old = op.old /\ op'.new = op.new /\ op'.other = op.other
      <3>1. "upgrade switch" \in Steps /\ "undo native" \in Steps /\ op.new \in Ids
        BY <2>2 DEF Steps, Ids, Recs
      <3>2. CASE AddKey(NewGen, op.new) /\ Advance("upgrade key", "upgrade switch") /\ UNCHANGED faults
        <4>1. creds' \subseteq Keys  BY <1>0, <2>2, <3>1, <3>2, Added
        <4>2. /\ op' \in Ops /\ op'.pc = "upgrade switch"
              /\ op'.old = op.old /\ op'.new = op.new /\ op'.other = op.other
          BY <1>0, <3>1, <3>2, Advanced
        <4>. QED  BY <1>0, <3>2, <4>1, <4>2
      <3>3. CASE Advance("upgrade key", "undo native") /\ Fault /\ UNCHANGED creds
        <4>1. faults' \in 0..MaxFaults  BY <1>0, <3>3, Failed
        <4>2. /\ op' \in Ops /\ op'.pc = "undo native"
              /\ op'.old = op.old /\ op'.new = op.new /\ op'.other = op.other
          BY <1>0, <3>1, <3>3, Advanced
        <4>. QED  BY <1>0, <3>3, <4>1, <4>2
      <3>. QED  BY <1>2, <3>2, <3>3 DEF UpgradeKey
    <2>4. Typed'  BY <1>0, <2>1, <2>3 DEF Typed
    <2>5. NoVault'  BY <2>1, <2>2 DEF NoVault
    <2>6. Routes'  BY <1>0, <2>1 DEF Routes, Route, Recs
    <2>7. OnRecord' = OnRecord /\ NewGen' = NewGen /\ Recs' = Recs  BY <2>1 DEF OnRecord, NewGen, Recs
    <2>8. Working'
      BY <2>2, <2>3, <2>7 DEF Working, Route, Upgrading, Undoing
    <2>. QED  BY <2>1, <2>2, <2>4, <2>5, <2>6, <2>8, NotWaiting
  <1>3. CASE UpgradeSwitch
    <2>1. /\ op.pc = "upgrade switch"
          /\ UNCHANGED <<container, native, unlocked, layout, journal, creds, pend>>
      BY <1>3 DEF UpgradeSwitch, vault
    <2>2. /\ container /\ pend.state \notin {"await", "rollback", "layout", "release"}
          /\ op.old \in Passwords /\ op.new \in Recs /\ op.other \in Recs /\ op.new \notin OnRecord
          /\ NewGen \in Gens
      BY <1>0, <2>1, UnderUpgrade DEF Upgrading, Undoing, Working
    <2>3. Recs' = Recs /\ op.old \in MaybeId /\ op.new \in MaybeId /\ op.other \in MaybeId /\ op.flag \in BOOLEAN
      BY <1>0, <2>1, <2>2 DEF Recs, MaybeId, Ids, Ops
    <2>4. CASE /\ active' = NewGen /\ UNCHANGED faults /\ Return
               /\ upgrade' = [on |-> TRUE, secret |-> TRUE, old |-> op.old, new |-> op.new,
                              glass |-> op.other, gen |-> NewGen, wanted |-> op.flag]
      <3>2. /\ upgrade' \in Upgrades
            /\ upgrade'.old = op.old /\ upgrade'.new = op.new /\ upgrade'.glass = op.other /\ upgrade'.on
        BY <2>2, <2>3, <2>4 DEF Upgrades
      <3>3. op' \in Ops /\ op'.pc = "idle"  BY <2>4, Returned
      <3>4. Typed'  BY <1>0, <2>1, <2>2, <2>4, <3>2, <3>3 DEF Typed
      <3>5. NoVault'  BY <2>1, <2>2 DEF NoVault
      <3>6. Routes'  BY <1>0, <2>1, <2>2, <2>3, <3>2 DEF Routes, Route
      <3>7. Working'  BY <3>3 DEF Working, Upgrading, Undoing
      <3>. QED  BY <2>1, <2>2, <3>4, <3>5, <3>6, <3>7, NotWaiting
    <2>5. CASE active' \in {active, NewGen} /\ UNCHANGED upgrade /\ faults' \in 0..MaxFaults
               /\ op' \in Ops /\ op'.pc \in {"finish old", "undo key"}
               /\ op'.old = op.old /\ op'.new = op.new /\ op'.other = op.other
      <3>1. Typed'  BY <1>0, <2>1, <2>2, <2>5 DEF Typed
      <3>2. NoVault'  BY <2>1, <2>2 DEF NoVault
      <3>3. Routes'  BY <1>0, <2>1, <2>3, <2>5 DEF Routes, Route
      <3>4. OnRecord' = OnRecord  BY <2>1, <2>5 DEF OnRecord
      <3>5. Working'  BY <2>2, <2>3, <2>5, <3>4 DEF Working, Route, Upgrading, Undoing
      <3>. QED  BY <2>1, <2>2, <3>1, <3>2, <3>3, <3>5, NotWaiting
    <2>6. CASE active' = NewGen /\ UNCHANGED <<upgrade, faults>> /\ Advance("upgrade switch", "finish old")
      <3>1. "finish old" \in Steps  BY DEF Steps
      <3>2. /\ op' \in Ops /\ op'.pc = "finish old"
            /\ op'.old = op.old /\ op'.new = op.new /\ op'.other = op.other
        BY <1>0, <2>6, <3>1, Advanced
      <3>. QED  BY <1>0, <2>5, <2>6, <3>2
    <2>7. CASE Advance("upgrade switch", "undo key") /\ Fault /\ UNCHANGED <<active, upgrade>>
      <3>1. "undo key" \in Steps  BY DEF Steps
      <3>2. /\ op' \in Ops /\ op'.pc = "undo key"
            /\ op'.old = op.old /\ op'.new = op.new /\ op'.other = op.other
        BY <1>0, <2>7, <3>1, Advanced
      <3>3. faults' \in 0..MaxFaults  BY <1>0, <2>7, Failed
      <3>. QED  BY <2>5, <2>7, <3>2, <3>3
    <2>. QED  BY <1>3, <2>4, <2>6, <2>7 DEF UpgradeSwitch
  <1>4. CASE UndoKey
    <2>1. /\ op.pc = "undo key" /\ Advance("undo key", "undo native")
          /\ UNCHANGED <<container, native, unlocked, layout, journal, active, pend, upgrade>>
      BY <1>4 DEF UndoKey, vault, memory
    <2>2. /\ container /\ pend.state \notin {"await", "rollback", "layout", "release"}
          /\ op.old \in Passwords /\ op.new \in Recs /\ op.other \in Recs /\ op.new \notin OnRecord
      BY <2>1, UnderUpgrade DEF Upgrading, Undoing
    <2>3. "undo native" \in Steps  BY DEF Steps
    <2>4. /\ op' \in Ops /\ op'.pc = "undo native"
          /\ op'.old = op.old /\ op'.new = op.new /\ op'.other = op.other
      BY <1>0, <2>1, <2>3, Advanced
    <2>5. creds' \subseteq Keys /\ faults' \in 0..MaxFaults
      <3>1. CASE creds' \subseteq creds /\ UNCHANGED faults  BY <1>0, <3>1
      <3>2. CASE Fault /\ UNCHANGED creds
        <4>1. faults' \in 0..MaxFaults  BY <1>0, <3>2, Failed
        <4>. QED  BY <1>0, <3>2, <4>1
      <3>. QED  BY <1>4, <3>1, <3>2 DEF UndoKey
    <2>6. Typed'  BY <1>0, <2>1, <2>4, <2>5 DEF Typed
    <2>7. NoVault'  BY <2>1, <2>2 DEF NoVault
    <2>8. Routes'  BY <1>0, <2>1 DEF Routes, Route, Recs
    <2>9. OnRecord' = OnRecord /\ Recs' = Recs  BY <2>1 DEF OnRecord, Recs
    <2>10. Working'
      BY <2>2, <2>4, <2>9 DEF Working, Route, Upgrading, Undoing
    <2>. QED  BY <2>1, <2>2, <2>6, <2>7, <2>8, <2>10, NotWaiting
  <1>5. CASE UndoNative
    <2>1. /\ op.pc = "undo native" /\ Discard(op.new) /\ Return
          /\ UNCHANGED <<container, unlocked, layout, journal, creds, active, pend, upgrade>>
      BY <1>5 DEF UndoNative, files, memory
    <2>2. /\ container /\ pend.state \notin {"await", "rollback", "layout", "release"}
          /\ op.new \notin OnRecord
      BY <2>1, UnderUpgrade DEF Upgrading, Undoing
    <2>3. op' \in Ops /\ op'.pc = "idle"  BY <2>1, Returned
    <2>4. faults' \in 0..MaxFaults /\ native' \subseteq Ids /\ native' \in {native, native \ {op.new}}
      BY <1>0, <2>1, Thrown
    <2>5. Typed'  BY <1>0, <2>1, <2>3, <2>4 DEF Typed
    <2>6. NoVault'  BY <2>1, <2>2 DEF NoVault
    <2>7. Routes'  BY <1>0, <2>1, <2>2, <2>4 DEF Routes, Route, Recs, OnRecord
    <2>8. Working'  BY <2>3 DEF Working, Upgrading, Undoing
    <2>. QED  BY <2>1, <2>2, <2>5, <2>6, <2>7, <2>8, NotWaiting
  <1>. QED  BY <1>1, <1>2, <1>3, <1>4, <1>5

\* The next key of an upgrade, and keys that go.
LEMMA EnrolledHolds ==
    ASSUME KeysInv, AddAnother \/ Migrate \/ \E c \in creds : Remove(c) \/ Retire(c)
    PROVE  KeysInv'
  <1>. USE KeyConstants
  <1>0. /\ Typed /\ Routes /\ Working /\ NoVault /\ op \in Ops /\ creds \subseteq Keys
        /\ active \in Gens /\ upgrade \in Upgrades
    BY DEF KeysInv, Typed
  <1>1. CASE AddAnother
    <2>1. PICK c \in creds : AddKey(1, c.wraps)  BY <1>1 DEF AddAnother, Usable
    <2>2. /\ Settled /\ UNCHANGED <<container, native, unlocked, layout, journal, active, pend, upgrade, op, faults>>
      BY <1>1 DEF AddAnother, vault, memory
    <2>3. pend.state \notin {"await", "rollback", "layout", "release"}
      BY <2>1, <2>2, Enrolled
    <2>4. creds' \subseteq Keys /\ \A d \in creds' : d \in creds \/ d.gen = 1
      <3>1. c.wraps \in Ids /\ 1 \in Gens  BY <1>0 DEF Keys, Gens
      <3>. QED  BY <1>0, <2>1, <3>1, Added
    <2>5. Typed'  BY <1>0, <2>2, <2>4 DEF Typed
    <2>6. NoVault'  BY <1>0, <2>2, <2>4 DEF NoVault
    <2>7. Routes'  BY <1>0, <2>2 DEF Routes, Route, Recs
    <2>8. Working'  BY <1>0, <2>2 DEF Working, Route, Recs, OnRecord, NewGen
    <2>. QED  BY <2>2, <2>3, <2>5, <2>6, <2>7, <2>8, NotWaiting
  <1>2. CASE Migrate
    <2>1. /\ Settled /\ upgrade.on /\ AddKey(upgrade.gen, upgrade.new)
          /\ UNCHANGED <<container, native, unlocked, layout, journal, pend, upgrade, faults>>
      BY <1>0, <1>2 DEF Migrate, Routes, vault, memory
    <2>2. container /\ pend.state \notin {"await", "rollback", "layout", "release"}
      BY <2>1 DEF KeysInv, NoVault, Waiting, Settled
    <2>3. creds' \subseteq Keys
      <3>1. upgrade.new \in Ids /\ upgrade.gen \in Gens  BY <1>0, <2>1 DEF Routes, Route, Recs, Ids, Upgrades
      <3>. QED  BY <1>0, <2>1, <3>1, Added
    <2>4. active' \in Gens /\ op' \in Ops /\ Working'
      <3>1. upgrade.gen \in Gens  BY <1>0 DEF Upgrades
      <3>2. CASE /\ active' = upgrade.gen
                 /\ op' = [Idle EXCEPT !.pc = "finish old", !.old = upgrade.old, !.new = upgrade.new,
                                       !.other = upgrade.glass, !.flag = upgrade.wanted]
        BY <2>1, <3>1, <3>2, Finishing
      <3>3. CASE UNCHANGED <<active, op>>
        <4>1. op'.pc = "idle"  BY <2>1, <3>3 DEF Settled
        <4>. QED  BY <1>0, <3>3, <4>1 DEF Working, Upgrading, Undoing
      <3>. QED  BY <1>2, <3>2, <3>3 DEF Migrate
    <2>5. Typed'  BY <1>0, <2>1, <2>3, <2>4 DEF Typed
    <2>6. NoVault'  BY <2>1, <2>2 DEF NoVault
    <2>7. Routes'  BY <1>0, <2>1 DEF Routes, Route, Recs
    <2>. QED  BY <2>1, <2>2, <2>4, <2>5, <2>6, <2>7, NotWaiting
  <1>3. ASSUME NEW c \in creds, Remove(c) \/ Retire(c) PROVE KeysInv'
    <2>1. /\ Settled /\ creds' \subseteq creds
          /\ UNCHANGED <<container, native, unlocked, layout, journal, active, pend, upgrade, faults>>
      BY <1>3 DEF Remove, Retire, DropKey, vault, memory
    <2>2. pend.state \notin {"await", "rollback", "layout", "release"}
      BY <2>1, Enrolled
    <2>3. op' \in Ops /\ Working' /\ (op' = op \/ upgrade.on)
      <3>1. CASE UNCHANGED op
        <4>1. op'.pc = "idle"  BY <2>1, <3>1 DEF Settled
        <4>. QED  BY <1>0, <3>1, <4>1 DEF Working, Upgrading, Undoing
      <3>2. CASE /\ upgrade.on
                 /\ op' = [Idle EXCEPT !.pc = "finish old", !.old = upgrade.old, !.new = upgrade.new,
                                       !.other = upgrade.glass, !.flag = upgrade.wanted]
        BY <2>1, <3>2, Finishing
      <3>. QED  BY <1>3, <3>1, <3>2 DEF Remove, Retire, memory
    <2>4. Typed'  BY <1>0, <2>1, <2>3 DEF Typed
    <2>5. NoVault'  BY <1>0, <2>1, <2>3 DEF NoVault
    <2>6. Routes'  BY <1>0, <2>1 DEF Routes, Route, Recs
    <2>. QED  BY <2>1, <2>2, <2>3, <2>4, <2>5, <2>6, NotWaiting
  <1>. QED  BY <1>1, <1>2, <1>3

\* The end of an upgrade: the old password goes and the layout is written.
LEMMA FinishHolds ==
    ASSUME KeysInv, FinishOld \/ FinishPortable \/ FinishLayout
    PROVE  KeysInv'
  <1>. USE KeyConstants
  <1>0. /\ Typed /\ Routes /\ Working /\ op \in Ops /\ faults \in 0..MaxFaults /\ native \subseteq Ids
        /\ layout \in Layouts /\ upgrade \in Upgrades /\ Passwords \cap Recs = {}
    BY DEF KeysInv, Typed, Recs
  <1>1. /\ op.pc \in {"finish old", "finish portable", "finish layout"}
        /\ UNCHANGED <<container, unlocked, journal, creds, active, pend>>
    BY DEF FinishOld, FinishPortable, FinishLayout, files, memory, vault
  <1>2. /\ container /\ pend.state \notin {"await", "rollback", "layout", "release"}
        /\ op.old \in Passwords /\ op.new \in Recs /\ op.other \in Recs
    BY <1>1, UnderUpgrade DEF Upgrading
  <1>3. NoVault'  BY <1>1, <1>2 DEF NoVault
  <1>4. ASSUME UNCHANGED <<layout, upgrade>>, native' \subseteq Ids, Recs \subseteq native',
               faults' \in 0..MaxFaults, op' \in Ops,
               \/ op'.pc = "idle"
               \/ /\ op'.pc \in {"finish portable", "finish layout"}
                  /\ op'.old = op.old /\ op'.new = op.new /\ op'.other = op.other
        PROVE  KeysInv'
    <2>1. Typed'  BY <1>0, <1>1, <1>4 DEF Typed
    <2>2. Routes'  BY <1>0, <1>1, <1>4 DEF Routes, Route, Recs
    <2>3. Working'  BY <1>2, <1>4 DEF Working, Route, Recs, Upgrading, Undoing
    <2>. QED  BY <1>1, <1>2, <1>3, <2>1, <2>2, <2>3, NotWaiting
  <1>5. CASE FinishOld
    <2>1. UNCHANGED <<layout, upgrade>>  BY <1>5 DEF FinishOld, files, memory
    <2>2. CASE /\ native' = native \ {op.old} /\ UNCHANGED faults
               /\ Advance("finish old", IF op.flag THEN "finish portable" ELSE "finish layout")
      <3>1. PICK to \in {"finish portable", "finish layout"} : Advance("finish old", to)
        BY <2>2
      <3>2. to \in Steps  BY DEF Steps
      <3>3. /\ op' \in Ops /\ op'.pc = to
            /\ op'.old = op.old /\ op'.new = op.new /\ op'.other = op.other
        BY <1>0, <3>1, <3>2, Advanced
      <3>4. native' \subseteq Ids /\ Recs \subseteq native' /\ faults' \in 0..MaxFaults
        BY <1>0, <1>2, <2>2 DEF Recs
      <3>. QED  BY <1>4, <2>1, <3>3, <3>4
    <2>3. CASE Return /\ (IF unlocked /\ op.old \in native THEN Fault ELSE UNCHANGED faults) /\ UNCHANGED native
      <3>1. op' \in Ops /\ op'.pc = "idle"  BY <2>3, Returned
      <3>2. faults' \in 0..MaxFaults  BY <1>0, <2>3, Failed
      <3>3. native' \subseteq Ids /\ Recs \subseteq native'  BY <1>0, <2>3 DEF Recs
      <3>. QED  BY <1>4, <2>1, <3>1, <3>2, <3>3
    <2>. QED  BY <1>5, <2>2, <2>3 DEF FinishOld
  <1>6. CASE FinishPortable
    <2>1. UNCHANGED <<layout, upgrade>>  BY <1>6 DEF FinishPortable, files, memory
    <2>2. CASE /\ Room(Passwords, 1) /\ native' = native \cup {Fresh(Passwords)} /\ UNCHANGED faults
               /\ op' = [op EXCEPT !.pc = "finish layout", !.port = Fresh(Passwords)]
      <3>1. Fresh(Passwords) \in Passwords  BY <2>2, FreshIs
      <3>2. Fresh(Passwords) \in MaybeId /\ "finish layout" \in Steps  BY <3>1 DEF MaybeId, Ids, Steps
      <3>3. /\ op' \in Ops /\ op'.pc = "finish layout"
            /\ op'.old = op.old /\ op'.new = op.new /\ op'.other = op.other
        BY <1>0, <2>2, <3>2 DEF Ops
      <3>4. native' \subseteq Ids /\ Recs \subseteq native' /\ faults' \in 0..MaxFaults
        BY <1>0, <2>2, <3>1 DEF Recs, Ids
      <3>. QED  BY <1>4, <2>1, <3>3, <3>4
    <2>3. CASE Return /\ (IF unlocked THEN Fault ELSE UNCHANGED faults) /\ UNCHANGED native
      <3>1. op' \in Ops /\ op'.pc = "idle"  BY <2>3, Returned
      <3>2. faults' \in 0..MaxFaults  BY <1>0, <2>3, Failed
      <3>3. native' \subseteq Ids /\ Recs \subseteq native'  BY <1>0, <2>3 DEF Recs
      <3>. QED  BY <1>4, <2>1, <3>1, <3>2, <3>3
    <2>. QED  BY <1>6, <2>2, <2>3 DEF FinishPortable
  <1>7. CASE FinishLayout
    <2>1. Return /\ UNCHANGED native  BY <1>7 DEF FinishLayout, vault
    <2>2. op' \in Ops /\ op'.pc = "idle"  BY <2>1, Returned
    <2>3. CASE Fault /\ UNCHANGED <<layout, upgrade>>
      <3>1. faults' \in 0..MaxFaults  BY <1>0, <2>3, Failed
      <3>2. native' \subseteq Ids /\ Recs \subseteq native'  BY <1>0, <2>1 DEF Recs
      <3>. QED  BY <1>4, <2>2, <2>3, <3>1, <3>2
    <2>4. CASE /\ layout' = [on |-> TRUE, daily |-> op.new, glass |-> op.other, portable |-> op.port]
               /\ upgrade' = [upgrade EXCEPT !.secret = FALSE] /\ UNCHANGED faults
      <3>1. op.new \in MaybeId /\ op.other \in MaybeId /\ op.port \in MaybeId  BY <1>0 DEF Ops
      <3>2. layout' \in Layouts /\ layout'.daily = op.new /\ layout'.glass = op.other
        BY <2>4, <3>1 DEF Layouts
      <3>3. /\ upgrade' \in Upgrades /\ ~upgrade'.secret /\ upgrade'.on = upgrade.on
            /\ upgrade'.old = upgrade.old /\ upgrade'.new = upgrade.new /\ upgrade'.glass = upgrade.glass
        BY <1>0, <2>4 DEF Upgrades
      <3>4. Typed'  BY <1>0, <1>1, <2>1, <2>2, <2>4, <3>2, <3>3 DEF Typed
      <3>5. Routes'  BY <1>0, <1>1, <1>2, <2>1, <3>2, <3>3 DEF Routes, Route, Recs
      <3>6. Working'  BY <2>2 DEF Working, Upgrading, Undoing
      <3>. QED  BY <1>1, <1>2, <1>3, <3>4, <3>5, <3>6, NotWaiting
    <2>. QED  BY <1>7, <2>3, <2>4 DEF FinishLayout
  <1>. QED  BY <1>5, <1>6, <1>7

-----------------------------------------------------------------------------
LEMMA HandHolds ==
    ASSUME KeysInv, OpenByHand \/ CloseByHand \/ UNCHANGED vars
    PROVE  KeysInv'
  <1>1. /\ UNCHANGED <<container, native, layout, journal, creds, active, pend, upgrade, op, faults>>
        /\ unlocked' = unlocked \/ (unlocked' = TRUE /\ native # {}) \/ unlocked' = FALSE
    BY DEF OpenByHand, CloseByHand, vars, vault, files, memory
  <1>2. Typed'  BY <1>1 DEF KeysInv, Typed
  <1>3. NoVault'  BY <1>1 DEF KeysInv, NoVault
  <1>4. Waiting' /\ Routes'  BY <1>1 DEF KeysInv, Waiting, Routes, Route, Recs
  <1>5. Working'  BY <1>1 DEF KeysInv, Working, Route, Recs, OnRecord, NewGen
  <1>. QED  BY <1>2, <1>3, <1>4, <1>5 DEF KeysInv

\* Whatever the broker had in memory, what is on disk stands by itself.
LEMMA DieHolds ==
    ASSUME KeysInv, Die
    PROVE  KeysInv'
  <1>. USE KeyConstants
  <1>1. /\ UNCHANGED <<container, native, unlocked, layout, journal, creds, active>>
        /\ pend' = NoPend /\ upgrade' = NoUpgrade /\ op' = Idle
    BY DEF Die, vault, files
  <1>2. faults' \in 0..MaxFaults  BY Failed DEF Die, KeysInv, Typed
  <1>3. Typed'  BY <1>1, <1>2, Empty DEF KeysInv, Typed
  <1>4. NoVault'  BY <1>1, Empty DEF KeysInv, NoVault
  <1>5. Waiting'  BY <1>1, Empty DEF Waiting
  <1>6. Routes'  BY <1>1, Empty DEF KeysInv, Routes, Route, Recs
  <1>7. Working'  BY <1>1, Empty DEF Working, Upgrading, Undoing
  <1>. QED  BY <1>3, <1>4, <1>5, <1>6, <1>7 DEF KeysInv

LEMMA KeysNext == KeysInv /\ [Next]_vars => KeysInv'
  <1>. SUFFICES ASSUME KeysInv, [Next]_vars PROVE KeysInv'
    OBVIOUS
  <1>1. CASE EnrollStep
    BY <1>1, BeginHolds, AcceptHolds, TakeBackHolds DEF EnrollStep
  <1>2. CASE AddAnother \/ \E c \in creds : Remove(c) \/ Retire(c)
    BY <1>2, EnrolledHolds
  <1>3. CASE PortableStep
    BY <1>3, AddHolds, ChangeHolds, RotationHolds, RemoveHolds DEF PortableStep
  <1>4. CASE UpgradeStep
    BY <1>4, UpgradeHolds, EnrolledHolds, FinishHolds DEF UpgradeStep
  <1>5. CASE OpenByHand \/ CloseByHand \/ Die \/ UNCHANGED vars
    BY <1>5, HandHolds, DieHolds
  <1>. QED  BY <1>1, <1>2, <1>3, <1>4, <1>5 DEF Next

\* The invariant holds of every behaviour.
THEOREM Inductive == Spec => []KeysInv
  <1>. QED  BY KeysInit, KeysNext, PTL DEF Spec

\* Every variable keeps its type, whichever operation fails or is cut short.
THEOREM TypeCorrect == Spec => []TypeOK
  <1>1. KeysInv => TypeOK
    BY DEF KeysInv, Typed, TypeOK, Layouts, Journals, Keys, Pends, Upgrades, Ops
  <1>. QED  BY <1>1, Inductive, PTL

\* Through every failed, interrupted or reconciled enrolment, rotation, removal and
\* upgrade the daily and the break-glass protector the layout names stay in the volume.
THEOREM RouteStays == Spec => []RecoveryRouteStays
  <1>1. KeysInv => RecoveryRouteStays
    BY DEF KeysInv, Routes, Route, Recs, RecoveryRouteStays
  <1>. QED  BY <1>1, Inductive, PTL


-----------------------------------------------------------------------------
(* The processes of an application. *)

Process == [birth : 1..MaxBirths, parent : Pid \cup {0}, ours : BOOLEAN, kin : BOOLEAN]
Tables == [Pid -> Process \cup {NoProcess}]

\* The system: births are told apart, and whoever is below one of the kin is of the kin.
Table ==
    /\ births \in 0..MaxBirths /\ launched \in 0..births /\ table \in Tables
    /\ \A p \in Pid : table[p] # NoProcess =>
          table[p].birth <= births /\ (table[p].ours => table[p].kin)
    /\ \A p, q \in Pid : table[p] # NoProcess /\ table[p].birth = table[q].birth => p = q
    /\ \A p, q \in Present(table) :
          table[p].parent = q /\ table[q].kin /\ table[p].birth >= launched => table[p].kin

\* What has been born, and is dead or of the kin and not older than the launch.
Mine(S) ==
    \A m \in S : /\ m \in Member /\ m.birth <= births
                 /\ Lives(m) => table[m.pid].kin /\ table[m.pid].birth >= launched

Supervisor ==
    /\ root \in Pid \cup {0} /\ (root = 0 => family = {})
    /\ Mine(family) /\ Mine(victims) /\ Mine(survey.left) /\ Mine(survey.of)
    /\ \A m \in survey.of : Lives(m) => Mine(survey.list)
    /\ seen \subseteq Member /\ \A m \in seen : m.birth <= births /\ (Lives(m) => m \in family)
    /\ survey.pc # "rest" => root # 0
    /\ survey.pc = "seed" /\ root \in Present(table) => table[root].birth >= launched
    /\ survey \in [pc : {"rest", "seed", "begin", "list", "merge"}, left : SUBSET Member,
                   of : SUBSET Member, list : SUBSET Member]
    /\ survey.pc = "rest" => survey.left = {} /\ survey.of = {}

IInv == Table /\ Supervisor /\ (\A m, n \in pin : m = n) /\ "stranger" \notin struck

-----------------------------------------------------------------------------
\* No process that was born before begins to live again, and the kin stay so.
NoRevival ==
    /\ births <= births'
    /\ \A p \in Pid, n \in 1..births :
          table'[p].birth = n => table[p].birth = n /\ (table[p].kin => table'[p].kin)

LEMMA NotAProcess ==
    NoProcess.birth = 0 /\ NoProcess \notin Process
  BY FamilyConstants DEF NoProcess, Process

LEMMA ExitTable ==
    ASSUME Table, NEW p \in Pid,
           table' = [table EXCEPT ![p] = NoProcess], births' = births, launched' = launched
    PROVE  Table' /\ NoRevival
  <1>. USE NotAProcess
  <1>1. table' \in Tables  BY DEF Table, Tables
  <1>2. \A q \in Pid : table'[q] = table[q] \/ table'[q] = NoProcess  BY DEF Table, Tables
  <1>3. Table'  BY <1>1, <1>2, FamilyConstants DEF Table, Tables, Process, Present
  <1>4. NoRevival  BY <1>2, FamilyConstants DEF Table, NoRevival
  <1>. QED  BY <1>3, <1>4

\* Beneath is closed, and marking it as kin changes nothing else.
LEMMA KinMarks ==
    ASSUME NEW t \in Tables, NEW p \in Present(t), NEW first
    PROVE  /\ Kin(t, p, first) \in Tables /\ Present(Kin(t, p, first)) = Present(t)
           /\ \A c \in Pid : Kin(t, p, first)[c].birth = t[c].birth
           /\ \A c \in Present(t) :
                 /\ Kin(t, p, first)[c].parent = t[c].parent /\ Kin(t, p, first)[c].ours = t[c].ours
                 /\ Kin(t, p, first)[c].kin <=> t[c].kin \/ c \in Beneath(t, p, first)
           /\ p \in Beneath(t, p, first)
           /\ \A c, q \in Present(t) :
                 t[c].parent = q /\ t[c].birth >= first /\ q \in Beneath(t, p, first)
                   => c \in Beneath(t, p, first)
  <1>. USE NotAProcess
  <1>. DEFINE B == Beneath(t, p, first)
              k == Kin(t, p, first)
  <1>1. B \subseteq Present(t) /\ p \in B
    BY DEF Beneath
  <1>2. ASSUME NEW c \in Present(t), NEW q \in B, t[c].parent = q, t[c].birth >= first
        PROVE  c \in B
    <2>. SUFFICES ASSUME NEW S \in SUBSET Present(t), p \in S, Closed(t, S, first)
                  PROVE  c \in S
      BY DEF Beneath
    <2>1. q \in S  BY DEF Beneath
    <2>. QED  BY <1>2, <2>1 DEF Closed
  <1>3. \A c \in Pid : k[c] = IF c \in B THEN [t[c] EXCEPT !.kin = TRUE] ELSE t[c]
    BY DEF Kin
  <1>4. \A c \in Present(t) : t[c] \in Process
    BY DEF Present, Tables
  <1>. HIDE DEF B
  <1>5. \A c \in Present(t) :
           /\ k[c] \in Process /\ k[c].birth = t[c].birth
           /\ k[c].parent = t[c].parent /\ k[c].ours = t[c].ours
           /\ k[c].kin <=> t[c].kin \/ c \in B
    <2>. SUFFICES ASSUME NEW c \in Present(t)
                  PROVE  /\ k[c] \in Process /\ k[c].birth = t[c].birth
                         /\ k[c].parent = t[c].parent /\ k[c].ours = t[c].ours
                         /\ k[c].kin <=> t[c].kin \/ c \in B
      OBVIOUS
    <2>1. t[c] \in Process /\ c \in Pid  BY <1>4 DEF Present
    <2>2. CASE c \in B
      <3>1. k[c] = [t[c] EXCEPT !.kin = TRUE]  BY <1>3, <2>1, <2>2
      <3>. HIDE DEF k
      <3>. QED  BY <2>1, <2>2, <3>1 DEF Process
    <2>3. CASE c \notin B
      <3>1. k[c] = t[c]  BY <1>3, <2>1, <2>3
      <3>. QED  BY <2>1, <2>3, <3>1
    <2>. QED  BY <2>2, <2>3
  <1>6. \A c \in Pid : c \notin Present(t) => k[c] = NoProcess /\ t[c] = NoProcess
    BY <1>1, <1>3 DEF Present
  <1>7. k \in Tables
    <2>1. k = [c \in Pid |-> k[c]]  BY DEF Kin
    <2>2. \A c \in Pid : k[c] \in Process \cup {NoProcess}  BY <1>5, <1>6 DEF Present
    <2>. HIDE DEF k
    <2>. QED  BY <2>1, <2>2 DEF Tables
  <1>8. Present(k) = Present(t)
    <2>. HIDE DEF k
    <2>. QED  BY <1>5, <1>6 DEF Present
  <1>. QED  BY <1>1, <1>2, <1>5, <1>6, <1>7, <1>8 DEF B

LEMMA BornTable ==
    ASSUME Table, NEW p \in Pid, NEW parent \in Pid \cup {0}, parent # p,
           NEW ours \in BOOLEAN, NEW kin \in BOOLEAN, ours => kin,
           NEW first \in launched..(births + 1), launched' = first,
           Born(p, parent, ours, kin, first),
           parent \in Present(table) /\ table[parent].kin => kin
    PROVE  /\ Table' /\ NoRevival /\ births' = births + 1
           /\ table'[p].birth = births + 1
  <1>. USE NotAProcess
  <1>. DEFINE new == [birth |-> births + 1, parent |-> parent, ours |-> ours, kin |-> kin]
              t == [table EXCEPT ![p] = new]
              B == Beneath(t, p, first)
  <1>1. /\ births \in Nat /\ births < MaxBirths /\ births' = births + 1 /\ births + 1 \in 1..MaxBirths
        /\ births' \in 0..MaxBirths /\ launched \in Nat /\ first \in Nat /\ launched <= first
        /\ launched' \in 0..births'
    BY FamilyConstants DEF Table, Born
  <1>2. new \in Process
    BY <1>1, FamilyConstants DEF Process
  <1>3. new # NoProcess /\ new.birth = births + 1 /\ new.parent = parent /\ new.ours = ours
        /\ new.kin = kin
    BY <1>2
  <1>4. table[p] = NoProcess /\ table' = IF kin THEN Kin(t, p, first) ELSE t
    BY DEF Born, FreeNumber
  <1>. HIDE DEF new
  <1>5. /\ t \in Tables /\ t[p] = new /\ \A q \in Pid : q # p => t[q] = table[q]
        /\ Present(t) = Present(table) \cup {p} /\ p \notin Present(table)
    BY <1>2, <1>3, <1>4 DEF Table, Tables, Present
  <1>. HIDE DEF t
  <1>6. /\ table' \in Tables /\ Present(table') = Present(t)
        /\ \A c \in Pid : table'[c].birth = t[c].birth
        /\ \A c \in Present(t) :
              /\ table'[c].parent = t[c].parent /\ table'[c].ours = t[c].ours
              /\ table'[c].kin <=> t[c].kin \/ (kin /\ c \in B)
        /\ kin => p \in B
        /\ \A c, q \in Present(t) : t[c].parent = q /\ t[c].birth >= first /\ q \in B => c \in B
    BY <1>4, <1>5, KinMarks
  <1>. HIDE DEF B
  <1>7. \A q \in Present(table) :
           /\ table[q] \in Process /\ table[q].birth \in 1..births /\ q \in Pid
           /\ table[q].ours => table[q].kin
    BY FamilyConstants DEF Table, Tables, Process, Present
  <1>8. \A q \in Pid : table'[q] # NoProcess =>
           table'[q].birth <= births' /\ (table'[q].ours => table'[q].kin)
    <2>. SUFFICES ASSUME NEW q \in Present(t)
                  PROVE  table'[q].birth <= births' /\ (table'[q].ours => table'[q].kin)
      BY <1>6 DEF Present
    <2>1. CASE q = p  BY <1>1, <1>3, <1>5, <1>6, <2>1
    <2>2. CASE q # p
      <3>1. q \in Present(table) /\ t[q] = table[q]  BY <1>5, <1>7, <2>2
      <3>2. table'[q].birth = table[q].birth /\ table[q].birth \in 1..births
            /\ table'[q].ours = table[q].ours /\ (table[q].kin => table'[q].kin)
        BY <1>6, <1>7, <3>1
      <3>. QED  BY <1>1, <1>7, <3>1, <3>2
    <2>. QED  BY <2>1, <2>2
  <1>9. \A q, r \in Pid : table'[q] # NoProcess /\ table'[q].birth = table'[r].birth => q = r
    <2>. SUFFICES ASSUME NEW q \in Present(t), NEW r \in Pid, t[q].birth = t[r].birth
                  PROVE  q = r
      BY <1>6 DEF Present
    <2>1. \A c \in Pid : table[c].birth \in 0..births
      BY <1>1, <1>7, FamilyConstants DEF Present
    <2>2. q \in Pid  BY DEF Present
    <2>3. CASE q = p \/ r = p  BY <1>1, <1>3, <1>5, <2>1, <2>2, <2>3
    <2>4. CASE q # p /\ r # p  BY <1>5, <2>2, <2>4 DEF Table, Present
    <2>. QED  BY <2>3, <2>4
  <1>10. ASSUME NEW c \in Present(table'), NEW q \in Present(table'),
                table'[c].parent = q, table'[q].kin, table'[c].birth >= launched'
         PROVE  table'[c].kin
    <2>1. c \in Present(t) /\ q \in Present(t) /\ t[c].parent = q /\ t[c].birth >= first
      BY <1>6, <1>10 DEF Present
    <2>2. CASE kin /\ q \in B
      BY <1>6, <2>1, <2>2
    <2>3. CASE t[q].kin /\ c = p
      <3>1. q = parent /\ q # p  BY <1>3, <1>5, <2>1, <2>3
      <3>2. q \in Present(table) /\ table[q].kin  BY <1>5, <1>7, <2>1, <2>3, <3>1
      <3>. QED  BY <1>3, <1>5, <1>6, <2>1, <2>3, <3>1, <3>2
    <2>4. CASE t[q].kin /\ c # p /\ q = p
      <3>1. kin  BY <1>3, <1>5, <2>4
      <3>2. q \in B  BY <1>6, <2>4, <3>1
      <3>. QED  BY <2>2, <3>1, <3>2
    <2>5. CASE t[q].kin /\ c # p /\ q # p
      <3>1. c \in Present(table) /\ q \in Present(table) /\ t[c] = table[c] /\ t[q] = table[q]
        BY <1>5, <1>7, <2>1, <2>5
      <3>2. table[c].birth >= launched
        BY <1>1, <1>7, <2>1, <3>1
      <3>3. table[c].kin  BY <2>1, <2>5, <3>1, <3>2 DEF Table
      <3>. QED  BY <1>6, <2>1, <3>1, <3>3
    <2>. QED  BY <1>6, <1>10, <2>1, <2>2, <2>3, <2>4, <2>5
  <1>11. Table'  BY <1>1, <1>6, <1>8, <1>9, <1>10 DEF Table
  <1>12. NoRevival
    <2>1. ASSUME NEW q \in Pid, NEW n \in 1..births, table'[q].birth = n
          PROVE  table[q].birth = n /\ (table[q].kin => table'[q].kin)
      <3>1. t[q].birth = n  BY <1>6, <2>1
      <3>2. q # p  BY <1>1, <1>3, <1>5, <3>1
      <3>3. t[q] = table[q]  BY <1>5, <3>2
      <3>4. q \in Present(t)  BY <3>1 DEF Present
      <3>. QED  BY <1>6, <3>1, <3>3, <3>4
    <2>. QED  BY <1>1, <2>1 DEF NoRevival
  <1>. QED  BY <1>1, <1>3, <1>5, <1>6, <1>11, <1>12

\* What is of the kin stays so.
LEMMA StaysMine ==
    ASSUME Table, NoRevival, Table', launched' = launched, NEW S, Mine(S)
    PROVE  Mine(S)'
  <1>. SUFFICES ASSUME NEW m \in S
                PROVE  /\ m \in Member /\ m.birth <= births'
                       /\ table'[m.pid].birth = m.birth
                            => table'[m.pid].kin /\ table'[m.pid].birth >= launched
    BY DEF Mine, Lives
  <1>1. /\ m \in Member /\ m.birth <= births
        /\ Lives(m) => table[m.pid].kin /\ table[m.pid].birth >= launched
    BY DEF Mine
  <1>2. m.pid \in Pid /\ m.birth \in 1..births
    BY <1>1, FamilyConstants DEF Member, Table
  <1>3. m.birth <= births'
    BY <1>1, <1>2, FamilyConstants DEF NoRevival, Table
  <1>4. table'[m.pid].birth = m.birth
          => table[m.pid].birth = m.birth /\ (table[m.pid].kin => table'[m.pid].kin)
    BY <1>2 DEF NoRevival
  <1>. QED  BY <1>1, <1>3, <1>4 DEF Lives

\* What the supervisor holds keeps its worth while processes are born and die.
LEMMA StaysHeld ==
    ASSUME Table, Supervisor, NoRevival, Table', launched' = launched,
           UNCHANGED <<root, family, survey, seen>>, victims' \subseteq victims
    PROVE  Supervisor'
  <1>1. Mine(family)' /\ Mine(victims)' /\ Mine(survey.left)' /\ Mine(survey.of)'
    <2>1. \A S : Mine(S) => Mine(S)'  BY StaysMine
    <2>. QED  BY <2>1 DEF Supervisor, Mine, Lives
  <1>2. ASSUME NEW m \in Member, m.birth <= births
        PROVE  m.birth <= births' /\ (table'[m.pid].birth = m.birth => Lives(m))
    <2>1. m.pid \in Pid /\ m.birth \in 1..births /\ births \in Nat /\ births' \in Nat
      BY <1>2, FamilyConstants DEF Member, Table
    <2>2. table'[m.pid].birth = m.birth => table[m.pid].birth = m.birth
      BY <2>1 DEF NoRevival
    <2>. QED  BY <2>1, <2>2 DEF NoRevival, Lives
  <1>3. (\A m \in survey.of : Lives(m) => Mine(survey.list))'
    <2>. SUFFICES ASSUME NEW m \in survey.of, table'[m.pid].birth = m.birth
                  PROVE  Mine(survey.list)'
      BY DEF Lives
    <2>1. Lives(m)  BY <1>2 DEF Supervisor, Mine
    <2>. QED  BY <2>1, StaysMine DEF Supervisor
  <1>4. (seen \subseteq Member /\ \A m \in seen : m.birth <= births /\ (Lives(m) => m \in family))'
    BY <1>2 DEF Supervisor, Lives
  <1>5. (survey.pc = "seed" /\ root \in Present(table) => table[root].birth >= launched)'
    <2>. SUFFICES ASSUME survey.pc = "seed", root \in Present(table')
                  PROVE  table'[root].birth >= launched
      BY DEF Present
    <2>1. /\ table'[root] \in Process /\ table'[root].birth <= births' /\ births' \in Nat
          /\ root \in Pid /\ births \in Nat /\ launched \in 0..births
      BY FamilyConstants DEF Table, Tables, Present
    <2>2. table'[root].birth \in 1..MaxBirths /\ table'[root].birth \in Nat
      BY <2>1, FamilyConstants DEF Process
    <2>3. CASE table'[root].birth <= births
      <3>1. table[root].birth = table'[root].birth
        BY <2>1, <2>2, <2>3 DEF NoRevival
      <3>2. root \in Present(table)
        BY <2>1, <2>2, <3>1, NotAProcess DEF Present
      <3>. QED  BY <3>1, <3>2 DEF Supervisor
    <2>4. CASE ~(table'[root].birth <= births)
      BY <2>1, <2>2, <2>4
    <2>. QED  BY <2>3, <2>4
  <1>. QED  BY <1>1, <1>3, <1>4, <1>5 DEF Supervisor

LEMMA InitHolds == FamilyInit => IInv
  <1>. SUFFICES ASSUME FamilyInit PROVE IInv
    OBVIOUS
  <1>1. Table  BY NotAProcess, FamilyConstants DEF FamilyInit, Table, Tables, Present
  <1>2. Supervisor  BY DEF FamilyInit, Supervisor, Mine, Resting
  <1>. QED  BY <1>1, <1>2 DEF FamilyInit, IInv

\* Births and deaths of processes.
LEMMA SystemHolds ==
    ASSUME IInv, NEW p \in Pid, NEW q \in Pid,
           Fork(q, p) \/ Stranger(p) \/ Exit(p)
    PROVE  IInv'
  <1>. USE DEF IInv
  <1>0. launched \in launched..(births + 1)
    BY FamilyConstants DEF Table
  <1>1. Table' /\ NoRevival
    <2>1. CASE Fork(q, p)
      <3>1. /\ q \in Present(table) /\ table[q] \in Process /\ q # p
            /\ table[q].ours => table[q].kin
        BY <2>1 DEF Fork, Table, Tables, Present, Born, FreeNumber
      <3>2. table[q].ours \in BOOLEAN /\ table[q].kin \in BOOLEAN
        BY <3>1 DEF Process
      <3>3. Table /\ Born(p, q, table[q].ours, table[q].kin, launched) /\ launched' = launched
        BY <2>1 DEF Fork
      <3>. QED
        <4>. HIDE DEF IInv
        <4>. QED  BY <1>0, <3>1, <3>2, <3>3, BornTable
    <2>2. CASE Stranger(p)
      <3>1. /\ 0 # p /\ 0 \notin Present(table) /\ launched' = launched
            /\ Born(p, 0, FALSE, FALSE, launched)
        BY <2>2, FamilyConstants DEF Present, Stranger
      <3>. QED  BY <1>0, <3>1, BornTable
    <2>3. CASE Exit(p)
      BY <2>3, ExitTable DEF Exit
    <2>. QED  BY <2>1, <2>2, <2>3
  <1>2. UNCHANGED <<launched, supervisorVars>>
    BY DEF Fork, Stranger, Exit
  <1>. QED  BY <1>1, <1>2, StaysHeld DEF supervisorVars

\* A launch begins with nothing: nothing of the last one is known to live.
LEMMA LaunchHolds ==
    ASSUME IInv, NEW p \in Pid, Launch(p)
    PROVE  IInv'
  <1>. USE DEF IInv
  <1>1. /\ Table' /\ births' = births + 1 /\ table'[p].birth = births + 1
        /\ launched' = births + 1
    <2>1. 0 # p /\ 0 \notin Present(table) /\ births + 1 \in launched..(births + 1)
      BY FamilyConstants DEF Table, Present
    <2>. QED  BY <2>1, BornTable DEF Launch
  <1>2. /\ root' = p /\ family' = {} /\ seen' = {} /\ victims' = {}
        /\ survey' = [Resting EXCEPT !.pc = "seed"] /\ UNCHANGED <<pin, struck>>
    BY DEF Launch
  <1>3. births + 1 >= births + 1 /\ p # 0
    BY FamilyConstants DEF Table
  <1>4. Supervisor'
    BY <1>1, <1>2, <1>3 DEF Supervisor, Resting, Mine
  <1>. QED  BY <1>1, <1>2, <1>4

\* Whoever has the launched number is the first member.
LEMMA SeedHolds ==
    ASSUME IInv, Seed
    PROVE  IInv'
  <1>. USE DEF IInv
  <1>1. /\ root \in Pid /\ survey.pc = "seed"
        /\ survey' = [Resting EXCEPT !.pc = "begin"]
        /\ family' = At(root) /\ seen' = At(root)
        /\ UNCHANGED <<births, launched, root, victims, pin, struck>>
    BY DEF Seed, Supervisor
  <1>2. CASE root \notin Present(table)
    <2>1. At(root) = {} /\ table' = table  BY <1>1, <1>2 DEF At, Present, Seed
    <2>2. Table'  BY <1>1, <2>1 DEF Table
    <2>3. Supervisor'  BY <1>1, <2>1 DEF Supervisor, Mine, Lives, Resting
    <2>. QED  BY <1>1, <2>2, <2>3
  <1>3. CASE root \in Present(table)
    <2>. DEFINE first == [pid |-> root, birth |-> table[root].birth]
    <2>1. At(root) = {first} /\ table' = Kin(table, root, launched)
      BY <1>1, <1>3 DEF At, Present, Seed
    <2>2. /\ table' \in Tables /\ Present(table') = Present(table)
          /\ \A c \in Pid : table'[c].birth = table[c].birth
          /\ \A c \in Present(table) :
                /\ table'[c].parent = table[c].parent /\ table'[c].ours = table[c].ours
                /\ table'[c].kin <=> table[c].kin \/ c \in Beneath(table, root, launched)
          /\ root \in Beneath(table, root, launched)
          /\ \A c, q \in Present(table) :
                table[c].parent = q /\ table[c].birth >= launched
                  /\ q \in Beneath(table, root, launched)
                  => c \in Beneath(table, root, launched)
      <3>1. table \in Tables  BY DEF Table
      <3>2. \A t \in Tables : t = table => root \in Present(t)  BY <1>3
      <3>. QED  BY <1>3, <2>1, <3>1, KinMarks
    <2>3. Table'
      <3>1. \A c \in Pid : table'[c] # NoProcess =>
               table'[c].birth <= births /\ (table'[c].ours => table'[c].kin)
        BY <2>2 DEF Table, Present
      <3>2. \A c, q \in Pid : table'[c] # NoProcess /\ table'[c].birth = table'[q].birth => c = q
        BY <2>2 DEF Table, Present
      <3>3. \A c, q \in Present(table') :
               table'[c].parent = q /\ table'[q].kin /\ table'[c].birth >= launched => table'[c].kin
        BY <2>2 DEF Table, Present
      <3>. QED  BY <1>1, <2>2, <3>1, <3>2, <3>3 DEF Table
    <2>4. NoRevival
      <3>1. \A c \in Pid, n \in 1..births : table[c].birth = n => c \in Present(table)
        BY NotAProcess, FamilyConstants DEF Present, Table
      <3>. QED  BY <1>1, <2>2, <3>1, FamilyConstants DEF NoRevival, Table
    <2>5. first \in Member /\ first.birth <= births /\ first.pid = root /\ table'[root].kin
          /\ table'[root].birth >= launched
      BY <1>1, <1>3, <2>2 DEF Table, Tables, Process, Member, Present, Supervisor
    <2>6. Mine(family)' /\ Mine(victims)'
      <3>1. Mine(victims)'  BY <1>1, <2>3, <2>4, StaysMine DEF Supervisor, Mine, Lives
      <3>. QED  BY <1>1, <2>1, <2>5, <3>1 DEF Mine, Lives
    <2>7. Supervisor'
      BY <1>1, <2>1, <2>5, <2>6, FamilyConstants DEF Supervisor, Resting, Mine, Lives
    <2>. QED  BY <1>1, <2>3, <2>7
  <1>. QED  BY <1>2, <1>3

\* The listing that begins at one of the kin is of the kin.
LEMMA TreeIsMine ==
    ASSUME Table, NEW m \in Member, Lives(m), table[m.pid].kin, table[m.pid].birth >= launched
    PROVE  Mine(Tree(m.pid))
  <1>. DEFINE S == {c \in Present(table) : table[c].kin /\ table[c].birth >= launched}
              first == table[m.pid].birth
  <1>1. m.pid \in Pid /\ m.birth # 0
    BY FamilyConstants DEF Member
  <1>2. m.pid \in Present(table)
    BY <1>1, NotAProcess DEF Lives, Present
  <1>3. \A c \in Present(table) : c \in Pid /\ table[c] \in Process /\ table[c].birth <= births
    BY DEF Table, Tables, Present
  <1>4. Closed(table, S, first)
    <2>. SUFFICES ASSUME NEW c \in Present(table), table[c].parent \in S, table[c].birth >= first
                  PROVE  c \in S
      BY DEF Closed
    <2>1. table[c].birth >= launched
      BY <1>2, <1>3, FamilyConstants DEF Table, Process
    <2>. QED  BY <2>1 DEF Table
  <1>5. Beneath(table, m.pid, first) \subseteq S
    BY <1>2, <1>4 DEF Beneath
  <1>6. Tree(m.pid) = UNION {At(c) : c \in Beneath(table, m.pid, first)}
    BY <1>2 DEF Tree, Present
  <1>. SUFFICES ASSUME NEW n \in Tree(m.pid)
                PROVE  /\ n \in Member /\ n.birth <= births
                       /\ table[n.pid].kin /\ table[n.pid].birth >= launched
    BY DEF Mine
  <1>7. PICK c \in S : n \in At(c)
    BY <1>5, <1>6
  <1>8. n = [pid |-> c, birth |-> table[c].birth] /\ c \in Present(table)
    BY <1>7 DEF At
  <1>. QED  BY <1>3, <1>7, <1>8 DEF Member, Process

\* A survey: what has no process of its birth goes, what a living member's listing gives
\* comes in, and what is left is looked at again.
LEMMA SurveyHolds ==
    ASSUME IInv,
           Prune \/ Surveyed \/ Unreadable \/ \E m \in Member : List(m) \/ Merge(m)
    PROVE  IInv'
  <1>. USE DEF IInv
  <1>0. /\ root \in Pid \cup {0} /\ (root = 0 => family = {})
        /\ Mine(family) /\ Mine(victims) /\ Mine(survey.left)
        /\ survey.left \subseteq Member /\ family \subseteq Member
    BY DEF Supervisor, Mine
  <1>1. CASE Prune
    <2>1. /\ Pruned(family) \subseteq family /\ Roots(Pruned(family)) \subseteq Pruned(family)
          /\ \A m \in family : Lives(m) => m \in Pruned(family)
      BY DEF Pruned, Roots
    <2>2. /\ family' = Pruned(family) /\ survey' = [Resting EXCEPT !.pc = "list", !.left = Roots(Pruned(family))]
          /\ root # 0 /\ UNCHANGED <<table, births, launched, root, victims, pin, seen, struck>>
      BY <1>1 DEF Prune, system
    <2>3. Table'  BY <2>2 DEF Table
    <2>4. Supervisor'
      BY <1>0, <2>1, <2>2 DEF Supervisor, Mine, Lives, Resting
    <2>. QED  BY <2>2, <2>3, <2>4
  <1>2. CASE Surveyed
    <2>1. /\ Pruned(family) \subseteq family
          /\ \A m \in family : Lives(m) => m \in Pruned(family)
      BY DEF Pruned
    <2>2. /\ family' = Pruned(family) /\ victims' \subseteq Pruned(family) /\ survey' = Resting
          /\ root' \in {root, 0} /\ (root' = 0 => root = 0 \/ family' = {})
          /\ UNCHANGED <<table, births, launched, pin, seen, struck>>
      BY <1>2 DEF Surveyed, system
    <2>3. Table'  BY <2>2 DEF Table
    <2>4. Supervisor'
      BY <1>0, <2>1, <2>2 DEF Supervisor, Mine, Lives, Resting
    <2>. QED  BY <2>2, <2>3, <2>4
  <1>3. CASE Unreadable
    <2>1. survey' = Resting
          /\ UNCHANGED <<table, births, launched, root, family, victims, pin, seen, struck>>
      BY <1>3 DEF Unreadable, system
    <2>2. Table'  BY <2>1 DEF Table
    <2>3. Supervisor'
      BY <2>1 DEF Supervisor, Mine, Lives, Resting
    <2>. QED  BY <2>1, <2>2, <2>3
  <1>4. ASSUME NEW m \in Member, List(m) PROVE IInv'
    <2>1. /\ m \in survey.left /\ root # 0
          /\ survey' = [pc |-> "merge", left |-> survey.left \ {m}, of |-> {m}, list |-> Tree(m.pid)]
          /\ UNCHANGED <<table, births, launched, root, family, victims, pin, seen, struck>>
      BY <1>4 DEF List, Supervisor, system
    <2>2. Table'  BY <2>1 DEF Table
    <2>3. Lives(m) => Mine(Tree(m.pid))
      BY <1>0, <2>1, TreeIsMine DEF Mine
    <2>4. Tree(m.pid) \subseteq Member
      <3>1. ASSUME NEW c \in Present(table) PROVE At(c) \subseteq Member
        BY DEF At, Table, Tables, Present, Process, Member
      <3>. QED  BY <3>1 DEF Tree, Beneath
    <2>5. Supervisor'
      BY <1>0, <2>1, <2>3, <2>4 DEF Supervisor, Mine, Lives
    <2>. QED  BY <2>1, <2>2, <2>5
  <1>5. ASSUME NEW m \in Member, Merge(m) PROVE IInv'
    <2>1. /\ m \in survey.of /\ family' = family \cup Kept(m) /\ seen' = seen \cup family'
          /\ survey' = [Resting EXCEPT !.pc = "list", !.left = survey.left]
          /\ root' = root /\ UNCHANGED <<table, births, launched, victims, pin, struck>>
      BY <1>5 DEF Merge, system
    <2>2. Table'  BY <2>1 DEF Table
    <2>3. Mine(Kept(m)) /\ Kept(m) \subseteq Member
      BY <2>1 DEF Kept, Supervisor, Mine
    <2>4. Mine(family)' /\ family' \subseteq Member
      BY <1>0, <2>1, <2>3 DEF Mine, Lives
    <2>5. root' # 0
      BY <1>5, <2>1 DEF Merge, Supervisor
    <2>6. Supervisor'
      BY <1>0, <2>1, <2>3, <2>4, <2>5 DEF Supervisor, Mine, Lives, Resting
    <2>. QED  BY <2>1, <2>2, <2>6
  <1>. QED  BY <1>1, <1>2, <1>3, <1>4, <1>5

\* The turns of the clocks change nothing that is held, or drop a family that is dead.
LEMMA TurnHolds ==
    ASSUME IInv,
           Watch \/ TickForgets \/ CloseBegins \/ Waits \/ TimeIsUp
    PROVE  IInv'
  <1>1. /\ survey' = survey \/ survey' = [Resting EXCEPT !.pc = "begin"]
        /\ UNCHANGED <<table, births, launched, victims, pin, seen, struck>>
    BY DEF Watch, TickForgets, CloseBegins, Waits, TimeIsUp, Looks, system
  <1>2. \/ root' = root /\ root # 0 /\ family' = family
        \/ root' = 0 /\ family' = {} /\ survey' = survey /\ Pruned(family) = {}
             /\ survey.pc = "rest"
    BY DEF Watch, TickForgets, CloseBegins, Waits, TimeIsUp, Quiet
  <1>3. Pruned(family) = {} => \A m \in family : ~Lives(m)
    BY DEF Pruned
  <1>4. Table'  BY <1>1 DEF IInv, Table
  <1>5. Supervisor'
    <2>1. CASE root' = root /\ root # 0 /\ family' = family
      BY <1>1, <2>1 DEF IInv, Supervisor, Mine, Lives, Resting
    <2>2. CASE root' = 0 /\ family' = {} /\ survey' = survey /\ Pruned(family) = {}
                 /\ survey.pc = "rest"
      BY <1>1, <1>3, <2>2 DEF IInv, Supervisor, Mine, Lives
    <2>. QED  BY <1>2, <2>1, <2>2
  <1>. QED  BY <1>1, <1>4, <1>5 DEF IInv

\* A member is held by a handle, and asked or killed if what is held is the member.
LEMMA BlowHolds ==
    ASSUME IInv, NEW m \in Member, Open(m) \/ Strike(m)
    PROVE  IInv'
  <1>. USE DEF IInv
  <1>1. CASE Open(m)
    <2>1. /\ pin = {} /\ victims' \subseteq victims /\ (pin' = pin \/ pin' = At(m.pid))
          /\ UNCHANGED <<table, births, launched, root, family, survey, seen, struck>>
      BY <1>1 DEF Open, system
    <2>2. Table'  BY <2>1 DEF Table
    <2>3. Supervisor'  BY <2>1 DEF Supervisor, Mine, Lives
    <2>4. \A x, y \in pin' : x = y  BY <2>1 DEF At
    <2>. QED  BY <2>1, <2>2, <2>3, <2>4
  <1>2. CASE Strike(m)
    <2>1. /\ m \in victims /\ victims' = victims \ {m} /\ pin' = {}
          /\ UNCHANGED <<births, launched, root, family, survey, seen>>
      BY <1>2 DEF Strike
    <2>2. /\ table' = table \/ table' = [table EXCEPT ![m.pid] = NoProcess]
          /\ "stranger" \notin struck'
      <3>1. CASE PinnedIsMember(m)
        <4>1. \A n \in pin : n = m  BY <3>1 DEF PinnedIsMember
        <4>2. table[m.pid].kin  BY <2>1, <3>1 DEF PinnedIsMember, Supervisor, Mine
        <4>3. "stranger" \notin Others(pin)  BY <4>1, <4>2 DEF Others
        <4>. QED  BY <1>2, <3>1, <4>3 DEF Strike
      <3>2. CASE ~PinnedIsMember(m)  BY <1>2, <3>2 DEF Strike
      <3>. QED  BY <3>1, <3>2
    <2>4. Table' /\ NoRevival
      <3>1. CASE table' = table
        BY <2>1, <3>1, FamilyConstants DEF Table, NoRevival
      <3>2. CASE table' = [table EXCEPT ![m.pid] = NoProcess]
        BY <2>1, <3>2, ExitTable DEF Member
      <3>. QED  BY <2>2, <3>1, <3>2
    <2>5. Supervisor'  BY <2>1, <2>4, StaysHeld
    <2>. QED  BY <2>1, <2>2, <2>4, <2>5
  <1>. QED  BY <1>1, <1>2

LEMMA NextHolds == IInv /\ [FamilyNext]_familyVars => IInv'
  <1>. SUFFICES ASSUME IInv, [FamilyNext]_familyVars PROVE IInv'
    OBVIOUS
  <1>1. ASSUME NEW p \in Pid, Launch(p) \/ Stranger(p) \/ Exit(p) \/ \E q \in Pid : Fork(q, p)
        PROVE  IInv'
    BY <1>1, LaunchHolds, SystemHolds
  <1>2. CASE Seed \/ Prune \/ Surveyed \/ Unreadable \/ \E m \in Member : List(m) \/ Merge(m)
    BY <1>2, SeedHolds, SurveyHolds
  <1>3. CASE Watch \/ TickForgets \/ CloseBegins \/ Waits \/ TimeIsUp
    BY <1>3, TurnHolds
  <1>4. ASSUME NEW m \in Member, Open(m) \/ Strike(m) PROVE IInv'
    BY <1>4, BlowHolds
  <1>5. CASE UNCHANGED familyVars
    <2>1. UNCHANGED <<table, births, launched, root, family, survey, victims, pin, seen, struck>>
      BY <1>5 DEF familyVars, supervisorVars
    <2>2. Table'  BY <2>1 DEF IInv, Table
    <2>3. Supervisor'  BY <2>1 DEF IInv, Supervisor, Mine, Lives
    <2>. QED  BY <2>1, <2>2, <2>3 DEF IInv
  <1>. QED  BY <1>1, <1>2, <1>3, <1>4, <1>5 DEF FamilyNext

-----------------------------------------------------------------------------
\* Who is asked to close or killed is the application's or looks like it by the parents'
\* numbers: not older than the launch, and below the launched number or below a member's.
\* Nobody is struck for what number he has by the time of the blow, whatever dies between
\* the look-up, the listing, the opening of a handle and the blow (_seed_root,
\* surviving_family, request_close, terminate_pids).
THEOREM StrangersStaySpared == FamilySpec => []StrangersAreSpared
  <1>1. IInv => StrangersAreSpared  BY DEF IInv, StrangersAreSpared
  <1>. QED  BY <1>1, InitHolds, NextHolds, PTL DEF FamilySpec

\* When the supervisor has forgotten its application no process it has ever seen of it
\* lives, the children of dead parents included; what a launch started and could not look
\* up it has not seen (_seed_root, wait_for_exit, forget).
THEOREM ForgottenIsGone == FamilySpec => []ExitIsReal
  <1>1. IInv => ExitIsReal  BY DEF IInv, Supervisor, ExitIsReal
  <1>. QED  BY <1>1, InitHolds, NextHolds, PTL DEF FamilySpec

-----------------------------------------------------------------------------
\* KnownGoodStays.  An import that has the names to itself knows at every step where the
\* application that was whole is: at its place until the copy is whole, then at the one
\* name it was moved to, until the copy is whole at the place.

Trees == {I!Absent} \cup {I!Tree(s) : s \in SUBSET I!Parts}
Whole(tree) == tree.parts = I!Parts
Stages == {"off", "settle", "restore", "check", "copy", "unstage", "park", "swap", "verify",
           "undo", "undo staging", "undo name", "clean", "end"}
ImportRecord == [pc : Stages, staged : SUBSET Imports, backups : SUBSET Imports,
                 from : SUBSET I!Parts, parked : BOOLEAN]
Import == {i \in ImportRecord : i.pc = "restore" => \E u : i.backups = {u}}

ImportTypes ==
    /\ app \in Trees /\ staging \in [Imports -> Trees] /\ previous \in [Imports -> Trees]
    /\ import \in [Imports -> Import] /\ had \in BOOLEAN /\ overlapped \in BOOLEAN

\* What import t has made sure of by each of its stages.
Knows(t) ==
    /\ import[t].pc \in {"off", "settle", "restore", "check"} => staging[t] = I!Absent
    /\ import[t].pc \in {"off", "settle", "restore", "check", "copy", "park"} =>
         previous[t] = I!Absent /\ ~import[t].parked
    /\ import[t].pc \in {"settle", "restore"} =>
         import[t].backups = {u \in Imports : previous[u].there}
    /\ import[t].pc \in {"settle", "restore", "check"} =>
         import[t].from \in {I!Parts, I!Parts \ {"exe"}}
    /\ import[t].pc \in {"check", "copy", "park"} => \A u \in Imports : previous[u] = I!Absent
    /\ import[t].pc = "copy" => staging[t].parts = I!Parts \ import[t].from
    /\ import[t].pc \in {"park", "swap"} => Whole(staging[t])
    /\ import[t].pc \in {"swap", "undo"} => app = I!Absent
    /\ import[t].pc \in {"verify", "clean"} => Whole(app)

Safe == Whole(app) \/ \E t \in Imports : Whole(previous[t])

Undisturbed ==
    /\ \A t, u \in I!Active : t = u
    /\ \A t \in Imports : Knows(t)
    /\ had => Safe

ImportInv == ImportTypes /\ (~overlapped => Undisturbed)

\* A tree that is not there has no parts; a whole one is there.
LEMMA TreesAre ==
    /\ I!Absent \in Trees /\ \A s \in SUBSET I!Parts : I!Tree(s) \in Trees
    /\ \A x \in Trees : x.there \in BOOLEAN /\ x.parts \subseteq I!Parts /\ (~x.there => x = I!Absent)
    /\ \A s : I!Tree(s).parts = s /\ I!Tree(s).there
    /\ I!Absent.parts = {} /\ ~I!Absent.there /\ I!Parts = {"exe", "lib"}
  <1>1. I!Absent.parts = {} /\ I!Absent.there = FALSE /\ I!Parts = {"exe", "lib"}
    BY DEF I!Absent, I!Parts
  <1>2. \A s : I!Tree(s).parts = s /\ I!Tree(s).there = TRUE
    BY DEF I!Tree
  <1>3. ASSUME NEW x \in Trees
        PROVE  x.there \in BOOLEAN /\ x.parts \subseteq I!Parts /\ (~x.there => x = I!Absent)
    <2>1. CASE x = I!Absent
      BY <1>1, <2>1
    <2>2. ASSUME NEW s \in SUBSET I!Parts, x = I!Tree(s)
          PROVE  x.there \in BOOLEAN /\ x.parts \subseteq I!Parts /\ (~x.there => x = I!Absent)
      BY <1>2, <2>2
    <2>. QED  BY <2>1, <2>2 DEF Trees
  <1>. QED  BY <1>1, <1>2, <1>3 DEF Trees

\* An import that begins.
LEMMA NewIs ==
    /\ I!New \in Import /\ I!New.pc = "off" /\ ~I!New.parked
  BY DEF I!New, Import, ImportRecord, Stages

\* An import goes on to a stage, and takes with it what it knows unless it ends.
LEMMA GoesIs ==
    ASSUME ImportTypes, NEW t \in Imports, NEW pc_ \in Stages, I!Goes(t, pc_),
           pc_ = "restore" => \E u : import[t].backups = {u}
    PROVE  /\ import' \in [Imports -> Import] /\ import'[t].pc = pc_
           /\ \A u \in Imports \ {t} : import'[u] = import[u]
           /\ pc_ # "end" => /\ import'[t].staged = import[t].staged
                             /\ import'[t].backups = import[t].backups
                             /\ import'[t].from = import[t].from
                             /\ import'[t].parked = import[t].parked
  <1>. DEFINE to == IF pc_ = "end" THEN [I!New EXCEPT !.pc = pc_] ELSE [import[t] EXCEPT !.pc = pc_]
  <1>1. import' = [import EXCEPT ![t] = to]
    BY DEF I!Goes, ImportTypes
  <1>2. import[t] \in Import
    BY DEF ImportTypes
  <1>3. to \in Import /\ to.pc = pc_
    BY <1>2, NewIs DEF Import, ImportRecord
  <1>4. pc_ # "end" => /\ to.staged = import[t].staged /\ to.backups = import[t].backups
                       /\ to.from = import[t].from /\ to.parked = import[t].parked
    BY <1>2 DEF Import, ImportRecord
  <1>. HIDE DEF to
  <1>. QED  BY <1>1, <1>3, <1>4 DEF ImportTypes

\* What is left of a tree is a part of it.
LEMMA RemovedIs ==
    ASSUME NEW x \in Trees, NEW left \in {I!Absent} \cup {I!Tree(s) : s \in SUBSET I!Parts},
           I!Removed(x, left)
    PROVE  left \in Trees /\ (x = I!Absent => left = I!Absent)
  BY TreesAre DEF I!Removed, Trees

\* The imports that do not move know what they knew: they have not begun, or have ended.
LEMMA OthersKnow ==
    ASSUME NEW t \in Imports, import[t].pc \notin {"off", "end"}, Undisturbed,
           \A u \in Imports \ {t} : import'[u] = import[u],
           \A u \in Imports \ {t} : staging[u] = I!Absent => staging'[u] = I!Absent,
           \A u \in Imports \ {t} : previous[u] = I!Absent => previous'[u] = I!Absent
    PROVE  /\ \A u \in Imports \ {t} : Knows(u)'
           /\ \A v, w \in I!Active' : v = w
  <1>1. ASSUME NEW u \in Imports \ {t}  PROVE Knows(u)' /\ import[u].pc \in {"off", "end"}
    <2>1. import[u].pc \in {"off", "end"}
      BY DEF Undisturbed, I!Active
    <2>2. import'[u] = import[u]
      OBVIOUS
    <2>. QED  BY <2>1, <2>2 DEF Undisturbed, Knows
  <1>2. \A v \in I!Active' : v = t
    BY <1>1 DEF I!Active
  <1>. QED  BY <1>1, <1>2

\* A step of an import that is alone: what has to be shown.
LEMMA ImportMove ==
    ASSUME ImportInv, NEW t \in Imports, import[t].pc \notin {"off", "end"}, ImportTypes',
           overlapped' = overlapped,
           \A u \in Imports \ {t} : import'[u] = import[u],
           \A u \in Imports \ {t} : staging[u] = I!Absent => staging'[u] = I!Absent,
           \A u \in Imports \ {t} : previous[u] = I!Absent => previous'[u] = I!Absent,
           Undisturbed => Knows(t)',
           Undisturbed => (had' => Safe')
    PROVE  ImportInv'
  <1>1. CASE overlapped
    BY <1>1 DEF ImportInv
  <1>2. CASE ~overlapped
    <2>1. Undisturbed
      BY <1>2 DEF ImportInv
    <2>. QED  BY <2>1, OthersKnow DEF ImportInv, Undisturbed
  <1>. QED  BY <1>1, <1>2 DEF ImportInv, ImportTypes

\* An import begins, alone or beside another.
LEMMA ImportBegins ==
    ASSUME ImportInv, NEW t \in Imports, I!Begin(t)
    PROVE  ImportInv'
  <1>1. PICK from \in {I!Parts, I!Parts \ {"exe"}} :
           import' = [import EXCEPT ![t] = [@ EXCEPT !.pc = "settle", !.from = from,
                        !.staged = {u \in Imports : staging[u].there},
                        !.backups = {u \in Imports : previous[u].there}]]
    BY DEF I!Begin
  <1>. DEFINE to == [import[t] EXCEPT !.pc = "settle", !.from = from,
                        !.staged = {u \in Imports : staging[u].there},
                        !.backups = {u \in Imports : previous[u].there}]
  <1>2. import[t] \in Import /\ import[t].pc = "off" /\ UNCHANGED <<app, staging, previous, had>>
    BY DEF ImportInv, ImportTypes, I!Begin, I!At, I!dirs
  <1>3. to \in Import /\ to.pc = "settle" /\ to.from = from /\ to.parked = import[t].parked
        /\ to.backups = {u \in Imports : previous[u].there}
    BY <1>2 DEF Import, ImportRecord, Stages
  <1>4. import' = [import EXCEPT ![t] = to]
    BY <1>1
  <1>. HIDE DEF to
  <1>5. import' \in [Imports -> Import] /\ import'[t] = to /\ \A u \in Imports \ {t} : import'[u] = import[u]
    BY <1>3, <1>4 DEF ImportInv, ImportTypes
  <1>6. ImportTypes'
    <2>1. overlapped' \in BOOLEAN
      BY DEF I!Begin, ImportInv, ImportTypes
    <2>. QED  BY <1>2, <1>5, <2>1 DEF ImportInv, ImportTypes
  <1>7. ASSUME ~overlapped'  PROVE Undisturbed'
    <2>1. I!Active = {} /\ Undisturbed
      BY <1>7 DEF I!Begin, ImportInv
    <2>2. \A u \in Imports \ {t} : Knows(u)' /\ u \notin I!Active'
      <3>. SUFFICES ASSUME NEW u \in Imports \ {t}  PROVE Knows(u)' /\ u \notin I!Active'
        OBVIOUS
      <3>1. import[u].pc \in {"off", "end"} /\ import'[u] = import[u]
        BY <2>1, <1>5 DEF I!Active
      <3>. QED  BY <1>2, <2>1, <3>1 DEF Undisturbed, Knows, I!Active
    <2>3. Knows(t)'
      BY <1>2, <1>3, <1>5, <2>1 DEF Undisturbed, Knows
    <2>. QED  BY <1>2, <2>1, <2>2, <2>3 DEF Undisturbed, I!Active, Safe
  <1>. QED  BY <1>6, <1>7 DEF ImportInv

\* What was interrupted is settled: a copy is dropped, one backup comes back.
LEMMA ImportSettles ==
    ASSUME ImportInv, NEW t \in Imports,
           (\E u \in Imports : I!DropStaging(t, u)) \/ I!Settle(t) \/ I!Restore(t)
    PROVE  ImportInv'
  <1>. ImportTypes /\ import[t] \in Import
    BY DEF ImportInv, ImportTypes
  <1>1. ASSUME NEW u \in Imports, I!DropStaging(t, u)  PROVE ImportInv'
    <2>1. /\ import[t].pc = "settle" /\ UNCHANGED <<app, previous, had, overlapped>>
          /\ import' = [import EXCEPT ![t].staged = @ \ {u}]
      BY <1>1 DEF I!DropStaging, I!At
    <2>2. PICK left \in {I!Absent} \cup {I!Tree(s) : s \in SUBSET I!Parts} :
             I!Removed(staging[u], left) /\ staging' = [staging EXCEPT ![u] = left]
      BY <1>1 DEF I!DropStaging
    <2>3. left \in Trees /\ (staging[u] = I!Absent => left = I!Absent)
      BY <2>2, RemovedIs DEF ImportTypes
    <2>4. /\ staging' \in [Imports -> Trees]
          /\ \A w \in Imports : staging[w] = I!Absent => staging'[w] = I!Absent
      BY <2>2, <2>3 DEF ImportTypes
    <2>5. /\ import' \in [Imports -> Import] /\ \A w \in Imports \ {t} : import'[w] = import[w]
          /\ import'[t].pc = import[t].pc /\ import'[t].from = import[t].from
          /\ import'[t].backups = import[t].backups /\ import'[t].parked = import[t].parked
      BY <2>1 DEF ImportTypes, Import, ImportRecord
    <2>6. ImportTypes'
      BY <2>1, <2>4, <2>5 DEF ImportTypes
    <2>7. Undisturbed => Knows(t)' /\ (had' => Safe')
      BY <2>1, <2>4, <2>5 DEF Undisturbed, Knows, Safe
    <2>. QED  BY <2>1, <2>4, <2>5, <2>6, <2>7, ImportMove
  <1>2. CASE I!Settle(t)
    <2>1. /\ import[t].pc = "settle" /\ UNCHANGED <<app, staging, previous, had, overlapped>>
      BY <1>2 DEF I!Settle, I!At, I!dirs
    <2>0. I!Cardinality(import[t].backups) = Cardinality(import[t].backups)
      BY DEF Cardinality, I!Cardinality
    <2>2. PICK to \in {"check", "restore", "end"} :
             /\ I!Goes(t, to) /\ (to = "check" => import[t].backups = {})
             /\ to = "restore" => Cardinality(import[t].backups) = 1
      <3>1. CASE import[t].backups = {}
        BY <1>2, <3>1 DEF I!Settle
      <3>2. CASE import[t].backups # {} /\ app.parts = {} /\ I!Cardinality(import[t].backups) = 1
        BY <1>2, <2>0, <3>2 DEF I!Settle
      <3>3. CASE import[t].backups # {} /\ ~(app.parts = {} /\ I!Cardinality(import[t].backups) = 1)
        <4>1. I!Goes(t, "end")
          BY Zenon, <1>2, <3>3 DEF I!Settle
        <4>. QED  BY <4>1
      <3>. QED  BY <3>1, <3>2, <3>3
    <2>3. to \in Stages
      BY DEF Stages
    <2>6. to = "restore" => \E u : import[t].backups = {u}
      <3>1. IsFiniteSet(import[t].backups)
        BY OwnerConstants, FS_Subset DEF Import, ImportRecord
      <3>. QED  BY <2>2, <3>1, FS_Singleton
    <2>4. /\ import' \in [Imports -> Import] /\ import'[t].pc = to
          /\ \A u \in Imports \ {t} : import'[u] = import[u]
          /\ to # "end" => /\ import'[t].backups = import[t].backups
                           /\ import'[t].from = import[t].from
                           /\ import'[t].parked = import[t].parked
      BY <2>2, <2>3, <2>6, GoesIs
    <2>5. ImportTypes'
      BY <2>1, <2>4 DEF ImportTypes
    <2>7. ASSUME Undisturbed, to = "check"  PROVE \A u \in Imports : previous[u] = I!Absent
      <3>1. \A u \in Imports : ~previous[u].there
        BY <2>1, <2>2, <2>7 DEF Undisturbed, Knows
      <3>. QED  BY <3>1, TreesAre DEF ImportTypes
    <2>8. Undisturbed => Knows(t)' /\ (had' => Safe')
      BY <2>1, <2>4, <2>6, <2>7 DEF Undisturbed, Knows, Safe
    <2>. QED  BY <2>1, <2>4, <2>5, <2>8, ImportMove
  <1>3. CASE I!Restore(t)
    <2>. DEFINE u == CHOOSE u \in import[t].backups : TRUE
    <2>1. import[t].pc = "restore" /\ UNCHANGED <<staging, overlapped>> /\ had' = (had \/ Whole(app'))
      BY <1>3 DEF I!Restore, I!At, I!Ghosts, Whole
    <2>2. \/ /\ app.parts = {} /\ previous[u].there
             /\ app' = previous[u] /\ previous' = [previous EXCEPT ![u] = I!Absent]
             /\ I!Goes(t, "check")
          \/ /\ app' \in {app, IF app.parts = {} THEN I!Absent ELSE app}
             /\ I!Goes(t, "end") /\ UNCHANGED previous
      BY <1>3 DEF I!Restore
    <2>. HIDE DEF u
    <2>9. u \in Imports
      BY <2>1 DEF u, Import, ImportRecord
    <2>3. CASE /\ app' \in {app, IF app.parts = {} THEN I!Absent ELSE app}
               /\ I!Goes(t, "end") /\ UNCHANGED previous
      <3>1. "end" \in Stages
        BY DEF Stages
      <3>2. /\ import' \in [Imports -> Import] /\ import'[t].pc = "end"
            /\ \A w \in Imports \ {t} : import'[w] = import[w]
        BY <2>3, <3>1, GoesIs
      <3>3. app' \in Trees /\ (Whole(app) => app' = app) /\ (Whole(app') => Whole(app))
        BY <2>3, TreesAre DEF ImportTypes, Whole
      <3>4. ImportTypes'
        BY <2>1, <2>3, <3>2, <3>3 DEF ImportTypes
      <3>5. Undisturbed => Knows(t)' /\ (had' => Safe')
        BY <2>1, <2>3, <3>2, <3>3 DEF Undisturbed, Knows, Safe
      <3>. QED  BY <2>1, <2>3, <3>2, <3>4, <3>5, ImportMove
    <2>4. CASE /\ app.parts = {} /\ previous[u].there
               /\ app' = previous[u] /\ previous' = [previous EXCEPT ![u] = I!Absent]
               /\ I!Goes(t, "check")
      <3>1. "check" \in Stages
        BY DEF Stages
      <3>2. /\ import' \in [Imports -> Import] /\ import'[t].pc = "check"
            /\ \A w \in Imports \ {t} : import'[w] = import[w]
            /\ import'[t].from = import[t].from /\ import'[t].parked = import[t].parked
        BY <2>4, <3>1, GoesIs
      <3>4. previous' \in [Imports -> Trees] /\ \A w \in Imports : previous[w] = I!Absent => previous'[w] = I!Absent
        BY <2>4, TreesAre DEF ImportTypes
      <3>5. ASSUME Undisturbed
            PROVE  Knows(t)' /\ (had' => Safe')
        <4>1. PICK v : import[t].backups = {v}
          BY <2>1 DEF Import
        <4>2. u = v /\ u \in Imports
          BY <4>1, <2>9 DEF u
        <4>3. \A w \in Imports \ {u} : ~previous[w].there
          BY <3>5, <2>1, <4>1, <4>2 DEF Undisturbed, Knows
        <4>4. \A w \in Imports : previous'[w] = I!Absent
          BY <2>4, <4>2, <4>3, TreesAre DEF ImportTypes
        <4>5. had' => Whole(app')
          <5>1. had => Safe
            BY <3>5 DEF Undisturbed
          <5>2. \A w \in Imports : Whole(previous[w]) => w = u
            BY <4>3, TreesAre DEF ImportTypes, Whole
          <5>3. ~Whole(app)
            BY <2>4, TreesAre DEF Whole
          <5>. QED  BY <2>1, <2>4, <5>1, <5>2, <5>3 DEF Safe
        <4>. QED  BY <3>5, <2>1, <3>2, <4>4, <4>5 DEF Undisturbed, Knows, Safe
      <3>6. app' \in Trees
        BY <2>4, <2>9 DEF ImportTypes
      <3>7. ImportTypes'
        BY <2>1, <3>2, <3>4, <3>6 DEF ImportTypes
      <3>. QED  BY <2>1, <3>2, <3>4, <3>5, <3>7, ImportMove
    <2>. QED  BY <2>2, <2>3, <2>4
  <1>. QED  BY <1>1, <1>2, <1>3

\* The copy is made beside the application, and dropped when it fails.
LEMMA ImportCopies ==
    ASSUME ImportInv, NEW t \in Imports, I!Check(t) \/ I!Copy(t) \/ I!Unstage(t)
    PROVE  ImportInv'
  <1>. ImportTypes /\ import[t] \in Import /\ import[t] \in ImportRecord
    BY DEF ImportInv, ImportTypes, Import
  <1>0. {"copy", "unstage", "park", "end"} \subseteq Stages
    BY DEF Stages
  <1>1. CASE I!Check(t)
    <2>1. /\ import[t].pc = "check" /\ UNCHANGED <<app, staging, previous, had, overlapped>>
      BY <1>1 DEF I!Check, I!At, I!dirs
    <2>2. PICK to \in {"copy", "end"} : I!Goes(t, to) /\ (to = "copy" => "exe" \in import[t].from)
      BY <1>1 DEF I!Check
    <2>3. /\ import' \in [Imports -> Import] /\ import'[t].pc = to
          /\ \A u \in Imports \ {t} : import'[u] = import[u]
          /\ to # "end" => /\ import'[t].from = import[t].from
                           /\ import'[t].parked = import[t].parked
      BY <2>2, <1>0, GoesIs
    <2>4. ImportTypes'
      BY <2>1, <2>3 DEF ImportTypes
    <2>5. Undisturbed /\ to = "copy" => import[t].from = I!Parts
      BY <2>1, <2>2 DEF Undisturbed, Knows
    <2>6. Undisturbed => Knows(t)' /\ (had' => Safe')
      BY <2>1, <2>2, <2>3, <2>5, TreesAre DEF Undisturbed, Knows, Safe
    <2>. QED  BY <2>1, <2>3, <2>4, <2>6, ImportMove
  <1>2. CASE I!Copy(t)
    <2>1. /\ import[t].pc = "copy" /\ UNCHANGED <<app, previous, had, overlapped>>
      BY <1>2 DEF I!Copy, I!At
    <2>2. ASSUME NEW p \in import[t].from,
                 staging' = [staging EXCEPT ![t] = I!Tree(@.parts \cup {p})],
                 import' = [import EXCEPT ![t].from = @ \ {p}]
          PROVE  ImportInv'
      <3>1. /\ import' \in [Imports -> Import] /\ import'[t].pc = import[t].pc
            /\ \A u \in Imports \ {t} : import'[u] = import[u]
            /\ import'[t].from = import[t].from \ {p} /\ import'[t].parked = import[t].parked
        BY <2>2 DEF ImportTypes, Import, ImportRecord
      <3>2. staging[t].parts \cup {p} \in SUBSET I!Parts
        BY TreesAre DEF ImportTypes, ImportRecord
      <3>3. /\ staging' \in [Imports -> Trees] /\ \A u \in Imports \ {t} : staging'[u] = staging[u]
            /\ staging'[t].parts = staging[t].parts \cup {p}
        BY <2>2, <3>2, TreesAre DEF ImportTypes
      <3>4. ImportTypes'
        BY <2>1, <3>1, <3>3 DEF ImportTypes
      <3>5. import[t].from \subseteq I!Parts
        BY DEF ImportRecord
      <3>6. Undisturbed => Knows(t)' /\ (had' => Safe')
        BY <2>1, <3>1, <3>3, <3>5 DEF Undisturbed, Knows, Safe
      <3>. QED  BY <2>1, <3>1, <3>3, <3>4, <3>6, ImportMove
    <2>3. ASSUME NEW to \in {"park", "unstage"}, I!Goes(t, to), UNCHANGED staging,
                 to = "park" => import[t].from = {}
          PROVE  ImportInv'
      <3>1. /\ import' \in [Imports -> Import] /\ import'[t].pc = to
            /\ \A u \in Imports \ {t} : import'[u] = import[u]
            /\ import'[t].parked = import[t].parked
        BY <2>3, <1>0, GoesIs
      <3>2. ImportTypes'
        BY <2>1, <2>3, <3>1 DEF ImportTypes
      <3>3. Undisturbed /\ to = "park" => Whole(staging[t])
        <4>1. I!Parts \ {} = I!Parts
          OBVIOUS
        <4>. QED  BY <2>1, <2>3, <4>1 DEF Undisturbed, Knows, Whole
      <3>4. Undisturbed => Knows(t)' /\ (had' => Safe')
        BY <2>1, <2>3, <3>1, <3>3 DEF Undisturbed, Knows, Safe
      <3>. QED  BY <2>1, <2>3, <3>1, <3>2, <3>4, ImportMove
    <2>. QED
      <3>1. CASE I!Goes(t, "unstage") /\ UNCHANGED staging
        BY <2>3, <3>1
      <3>2. CASE /\ import[t].from = {} /\ UNCHANGED staging
                 /\ I!Goes(t, IF "exe" \in staging[t].parts THEN "park" ELSE "unstage")
        BY <2>3, <3>2
      <3>. QED  BY <1>2, <2>2, <3>1, <3>2 DEF I!Copy
  <1>3. CASE I!Unstage(t)
    <2>1. /\ import[t].pc = "unstage" /\ UNCHANGED <<app, previous, had, overlapped>> /\ I!Goes(t, "end")
      BY <1>3 DEF I!Unstage, I!At
    <2>2. PICK left \in {I!Absent} \cup {I!Tree(s) : s \in SUBSET I!Parts} :
             I!Removed(staging[t], left) /\ staging' = [staging EXCEPT ![t] = left]
      BY <1>3 DEF I!Unstage
    <2>3. left \in Trees
      BY <2>2, RemovedIs DEF ImportTypes
    <2>4. staging' \in [Imports -> Trees] /\ \A u \in Imports \ {t} : staging'[u] = staging[u]
      BY <2>2, <2>3 DEF ImportTypes
    <2>5. /\ import' \in [Imports -> Import] /\ import'[t].pc = "end"
          /\ \A u \in Imports \ {t} : import'[u] = import[u]
      BY <2>1, <1>0, GoesIs
    <2>6. ImportTypes'
      BY <2>1, <2>4, <2>5 DEF ImportTypes
    <2>7. Undisturbed => Knows(t)' /\ (had' => Safe')
      BY <2>1, <2>5 DEF Undisturbed, Knows, Safe
    <2>. QED  BY <2>1, <2>4, <2>5, <2>6, <2>7, ImportMove
  <1>. QED  BY <1>1, <1>2, <1>3

\* The application steps aside, and the whole copy takes its name.
LEMMA ImportSwaps ==
    ASSUME ImportInv, NEW t \in Imports, I!Park(t) \/ I!Swap(t) \/ I!Verify(t)
    PROVE  ImportInv'
  <1>. ImportTypes /\ import[t] \in Import /\ import[t] \in ImportRecord
    BY DEF ImportInv, ImportTypes, Import
  <1>0. {"swap", "unstage", "verify", "undo", "clean"} \subseteq Stages
    BY DEF Stages
  <1>1. CASE I!Park(t)
    <2>1. import[t].pc = "park" /\ UNCHANGED <<staging, had, overlapped>>
      BY <1>1 DEF I!Park, I!At
    <2>2. ASSUME NEW to \in {"swap", "unstage"}, I!Goes(t, to), UNCHANGED <<app, previous>>,
                 to = "swap" => ~app.there
          PROVE  ImportInv'
      <3>1. /\ import' \in [Imports -> Import] /\ import'[t].pc = to
            /\ \A u \in Imports \ {t} : import'[u] = import[u]
        BY <2>2, <1>0, GoesIs
      <3>2. ImportTypes'
        BY <2>1, <2>2, <3>1 DEF ImportTypes
      <3>3. Undisturbed => Knows(t)' /\ (had' => Safe')
        BY <2>1, <2>2, <3>1, TreesAre DEF Undisturbed, Knows, Safe, ImportTypes
      <3>. QED  BY <2>1, <2>2, <3>1, <3>2, <3>3, ImportMove
    <2>3. CASE /\ app' = I!Absent /\ previous' = [previous EXCEPT ![t] = app]
               /\ import' = [import EXCEPT ![t].pc = "swap", ![t].parked = TRUE]
      <3>1. /\ import' \in [Imports -> Import] /\ import'[t].pc = "swap"
            /\ \A u \in Imports \ {t} : import'[u] = import[u]
        <4>. DEFINE to == [[import[t] EXCEPT !.pc = "swap"] EXCEPT !.parked = TRUE]
        <4>1. import' = [import EXCEPT ![t] = to]
          BY <2>3 DEF ImportTypes
        <4>2. to \in Import /\ to.pc = "swap"
          BY <1>0 DEF Import, ImportRecord
        <4>. HIDE DEF to
        <4>. QED  BY <4>1, <4>2 DEF ImportTypes
      <3>2. /\ previous' \in [Imports -> Trees] /\ previous'[t] = app
            /\ \A u \in Imports \ {t} : previous'[u] = previous[u]
        BY <2>3 DEF ImportTypes
      <3>3. ImportTypes'
        BY <2>1, <2>3, <3>1, <3>2, TreesAre DEF ImportTypes
      <3>4. ASSUME Undisturbed  PROVE Knows(t)' /\ (had' => Safe')
        <4>1. \A u \in Imports : ~Whole(previous[u])
          BY <2>1, <3>4, TreesAre DEF Undisturbed, Knows, Whole
        <4>. QED  BY <2>1, <2>3, <3>1, <3>2, <3>4, <4>1 DEF Undisturbed, Knows, Safe
      <3>. QED  BY <2>1, <3>1, <3>2, <3>3, <3>4, ImportMove
    <2>. QED
      <3>1. CASE ~app.there /\ I!Goes(t, "swap") /\ UNCHANGED <<app, previous>>
        BY <2>2, <3>1
      <3>2. CASE I!Goes(t, "unstage") /\ UNCHANGED <<app, previous>>
        BY <2>2, <3>2
      <3>. QED  BY <1>1, <2>3, <3>1, <3>2 DEF I!Park
  <1>2. CASE I!Swap(t)
    <2>1. /\ import[t].pc = "swap" /\ UNCHANGED <<previous, overlapped>> /\ had' = (had \/ Whole(app'))
      BY <1>2 DEF I!Swap, I!At, I!Ghosts, Whole
    <2>2. CASE I!Goes(t, "verify") /\ app' = staging[t] /\ staging' = [staging EXCEPT ![t] = I!Absent]
      <3>1. /\ import' \in [Imports -> Import] /\ import'[t].pc = "verify"
            /\ \A u \in Imports \ {t} : import'[u] = import[u]
        BY <2>2, <1>0, GoesIs
      <3>2. app' \in Trees /\ staging' \in [Imports -> Trees]
            /\ \A u \in Imports \ {t} : staging'[u] = staging[u]
        BY <2>2, TreesAre DEF ImportTypes
      <3>3. ImportTypes'
        BY <2>1, <3>1, <3>2 DEF ImportTypes
      <3>4. Undisturbed => Knows(t)' /\ (had' => Safe')
        BY <2>1, <2>2, <3>1 DEF Undisturbed, Knows, Safe
      <3>. QED  BY <2>1, <3>1, <3>2, <3>3, <3>4, ImportMove
    <2>3. CASE I!Goes(t, "undo") /\ UNCHANGED <<app, staging>>
      <3>1. /\ import' \in [Imports -> Import] /\ import'[t].pc = "undo"
            /\ \A u \in Imports \ {t} : import'[u] = import[u]
        BY <2>3, <1>0, GoesIs
      <3>2. ImportTypes'
        BY <2>1, <2>3, <3>1 DEF ImportTypes
      <3>3. Undisturbed => Knows(t)' /\ (had' => Safe')
        BY <2>1, <2>3, <3>1, TreesAre DEF Undisturbed, Knows, Safe
      <3>. QED  BY <2>1, <2>3, <3>1, <3>2, <3>3, ImportMove
    <2>. QED  BY <1>2, <2>2, <2>3 DEF I!Swap
  <1>3. CASE I!Verify(t)
    <2>1. import[t].pc = "verify" /\ UNCHANGED <<app, staging, previous, had, overlapped>>
      BY <1>3 DEF I!Verify, I!At, I!dirs
    <2>2. PICK to \in {"clean", "undo"} : I!Goes(t, to) /\ (to = "undo" => "exe" \notin app.parts)
      BY <1>3 DEF I!Verify
    <2>3. /\ import' \in [Imports -> Import] /\ import'[t].pc = to
          /\ \A u \in Imports \ {t} : import'[u] = import[u]
      BY <2>2, <1>0, GoesIs
    <2>4. ImportTypes'
      BY <2>1, <2>3 DEF ImportTypes
    <2>5. Undisturbed => Whole(app) /\ to = "clean"
      BY <2>1, <2>2, TreesAre DEF Undisturbed, Knows, Whole
    <2>6. Undisturbed => Knows(t)' /\ (had' => Safe')
      BY <2>1, <2>3, <2>5 DEF Undisturbed, Knows, Safe
    <2>. QED  BY <2>1, <2>3, <2>4, <2>6, ImportMove
  <1>. QED  BY <1>1, <1>2, <1>3

\* What a failed swap leaves is undone, and a good one tidied up.
LEMMA ImportEnds ==
    ASSUME ImportInv, NEW t \in Imports,
           I!UndoTree(t) \/ I!UndoStaging(t) \/ I!UndoName(t) \/ I!Clean(t) \/ I!Die(t)
    PROVE  ImportInv'
  <1>. ImportTypes /\ import[t] \in Import /\ import[t] \in ImportRecord
    BY DEF ImportInv, ImportTypes, Import
  <1>0. {"undo staging", "undo name", "end"} \subseteq Stages
    BY DEF Stages
  <1>1. CASE I!UndoTree(t)
    <2>1. /\ import[t].pc = "undo" /\ UNCHANGED <<staging, previous, had, overlapped>>
          /\ I!Goes(t, "undo staging")
      BY <1>1 DEF I!UndoTree, I!At
    <2>2. /\ import' \in [Imports -> Import] /\ import'[t].pc = "undo staging"
          /\ \A u \in Imports \ {t} : import'[u] = import[u]
      BY <2>1, <1>0, GoesIs
    <2>3. app' \in Trees /\ (~app.there => app' = app)
      <3>1. CASE app.there /\ ~staging[t].there
        <4>1. PICK left \in {I!Absent} \cup {I!Tree(s) : s \in SUBSET I!Parts} :
                I!Removed(app, left) /\ app' = left
          BY <1>1, <3>1 DEF I!UndoTree
        <4>. QED  BY <3>1, <4>1, RemovedIs DEF ImportTypes
      <3>2. CASE ~(app.there /\ ~staging[t].there)
        BY <1>1, <3>2 DEF I!UndoTree, ImportTypes
      <3>. QED  BY <3>1, <3>2
    <2>4. ImportTypes'
      BY <2>1, <2>2, <2>3 DEF ImportTypes
    <2>5. Undisturbed => app' = app
      BY <2>1, <2>3, TreesAre DEF Undisturbed, Knows
    <2>6. Undisturbed => Knows(t)' /\ (had' => Safe')
      BY <2>1, <2>2, <2>5 DEF Undisturbed, Knows, Safe
    <2>. QED  BY <2>1, <2>2, <2>4, <2>6, ImportMove
  <1>2. CASE I!UndoStaging(t)
    <2>1. /\ import[t].pc = "undo staging" /\ UNCHANGED <<app, previous, had, overlapped>>
          /\ I!Goes(t, "undo name")
      BY <1>2 DEF I!UndoStaging, I!At
    <2>2. PICK left \in {I!Absent} \cup {I!Tree(s) : s \in SUBSET I!Parts} :
             I!Removed(staging[t], left) /\ staging' = [staging EXCEPT ![t] = left]
      BY <1>2 DEF I!UndoStaging
    <2>3. staging' \in [Imports -> Trees] /\ \A u \in Imports \ {t} : staging'[u] = staging[u]
      BY <2>2, RemovedIs DEF ImportTypes
    <2>4. /\ import' \in [Imports -> Import] /\ import'[t].pc = "undo name"
          /\ \A u \in Imports \ {t} : import'[u] = import[u]
      BY <2>1, <1>0, GoesIs
    <2>5. ImportTypes'
      BY <2>1, <2>3, <2>4 DEF ImportTypes
    <2>6. Undisturbed => Knows(t)' /\ (had' => Safe')
      BY <2>1, <2>4 DEF Undisturbed, Knows, Safe
    <2>. QED  BY <2>1, <2>3, <2>4, <2>5, <2>6, ImportMove
  <1>3. CASE I!UndoName(t)
    <2>1. /\ import[t].pc = "undo name" /\ UNCHANGED <<staging, overlapped>> /\ I!Goes(t, "end")
          /\ had' = (had \/ Whole(app'))
      BY <1>3 DEF I!UndoName, I!At, I!Ghosts, Whole
    <2>2. \/ UNCHANGED <<app, previous>>
          \/ ~app.there /\ app' = previous[t] /\ previous' = [previous EXCEPT ![t] = I!Absent]
      BY <1>3 DEF I!UndoName
    <2>3. /\ import' \in [Imports -> Import] /\ import'[t].pc = "end"
          /\ \A u \in Imports \ {t} : import'[u] = import[u]
      BY <2>1, <1>0, GoesIs
    <2>4. /\ app' \in Trees /\ previous' \in [Imports -> Trees]
          /\ \A u \in Imports \ {t} : previous'[u] = previous[u]
      BY <2>2, TreesAre DEF ImportTypes
    <2>5. ImportTypes'
      BY <2>1, <2>3, <2>4 DEF ImportTypes
    <2>6. Safe => Safe'
      BY <2>2, <2>4, TreesAre DEF Safe, Whole, ImportTypes
    <2>7. Undisturbed => Knows(t)' /\ (had' => Safe')
      BY <2>1, <2>3, <2>6 DEF Undisturbed, Knows, Safe
    <2>. QED  BY <2>1, <2>3, <2>4, <2>5, <2>7, ImportMove
  <1>4. CASE I!Clean(t)
    <2>1. /\ import[t].pc = "clean" /\ UNCHANGED <<app, staging, had, overlapped>> /\ I!Goes(t, "end")
      BY <1>4 DEF I!Clean, I!At
    <2>2. previous' \in [Imports -> Trees] /\ \A u \in Imports \ {t} : previous'[u] = previous[u]
      <3>1. CASE import[t].parked
        <4>1. PICK left \in {I!Absent} \cup {I!Tree(s) : s \in SUBSET I!Parts} :
                I!Removed(previous[t], left) /\ previous' = [previous EXCEPT ![t] = left]
          BY <1>4, <3>1 DEF I!Clean
        <4>. QED  BY <4>1, RemovedIs DEF ImportTypes
      <3>2. CASE ~import[t].parked
        BY <1>4, <3>2 DEF I!Clean, ImportTypes
      <3>. QED  BY <3>1, <3>2
    <2>3. /\ import' \in [Imports -> Import] /\ import'[t].pc = "end"
          /\ \A u \in Imports \ {t} : import'[u] = import[u]
      BY <2>1, <1>0, GoesIs
    <2>4. ImportTypes'
      BY <2>1, <2>2, <2>3 DEF ImportTypes
    <2>5. Undisturbed => Knows(t)' /\ (had' => Safe')
      BY <2>1, <2>3 DEF Undisturbed, Knows, Safe
    <2>. QED  BY <2>1, <2>2, <2>3, <2>4, <2>5, ImportMove
  <1>5. CASE I!Die(t)
    <2>1. /\ import[t].pc \notin {"off", "end"} /\ I!Goes(t, "end")
          /\ UNCHANGED <<app, staging, previous, had, overlapped>>
      BY <1>5 DEF I!Die, I!Active, I!dirs
    <2>2. /\ import' \in [Imports -> Import] /\ import'[t].pc = "end"
          /\ \A u \in Imports \ {t} : import'[u] = import[u]
      BY <2>1, <1>0, GoesIs
    <2>3. ImportTypes'
      BY <2>1, <2>2 DEF ImportTypes
    <2>4. Undisturbed => Knows(t)' /\ (had' => Safe')
      BY <2>1, <2>2 DEF Undisturbed, Knows, Safe
    <2>. QED  BY <2>1, <2>2, <2>3, <2>4, ImportMove
  <1>. QED  BY <1>1, <1>2, <1>3, <1>4, <1>5

LEMMA ImportInitial == I!Init => ImportInv
  <1>. SUFFICES ASSUME I!Init  PROVE ImportInv
    OBVIOUS
  <1>1. /\ app \in Trees /\ overlapped = FALSE /\ had \in BOOLEAN /\ (had => Whole(app))
        /\ import \in [Imports -> Import] /\ \A t \in Imports : import[t] = I!New
        /\ staging \in [Imports -> Trees] /\ \A t \in Imports : staging[t] = I!Absent
        /\ previous \in [Imports -> Trees] /\ \A t \in Imports : previous[t] = I!Absent
    BY NewIs, TreesAre DEF I!Init, Whole
  <1>2. ImportTypes
    BY <1>1 DEF ImportTypes
  <1>3. \A t \in Imports : Knows(t) /\ t \notin I!Active
    BY <1>1, NewIs DEF Knows, I!Active
  <1>4. \A t, u \in I!Active : t = u
    BY <1>3 DEF I!Active
  <1>. QED  BY <1>1, <1>2, <1>3, <1>4 DEF ImportInv, Undisturbed, Safe

LEMMA ImportRests == ImportInv /\ UNCHANGED importVars => ImportInv'
  <1>. SUFFICES ASSUME ImportInv, UNCHANGED importVars  PROVE ImportInv'
    OBVIOUS
  <1>1. UNCHANGED <<app, staging, previous, import, had, overlapped>>
    BY DEF importVars
  <1>2. ImportTypes'
    BY <1>1 DEF ImportInv, ImportTypes
  <1>3. Undisturbed => Undisturbed'
    BY <1>1 DEF Undisturbed, Knows, Safe, I!Active
  <1>. QED  BY <1>1, <1>2, <1>3 DEF ImportInv

\* Wherever an import fails or its process dies, in the import that settles what it left
\* too, an application that was whole is whole at its place or under a name the next
\* import finds, as long as no two imports run side by side (import_application,
\* _settle_interrupted_import).
THEOREM KnownGoodIsKept == AllSpec => []KnownGoodStays
  <1>1. AllInit => ImportInv
    BY ImportInitial DEF AllInit
  <1>2. ImportInv /\ [AllNext]_<<part, keyVars, unlockVars, roundVars, familyVars, importVars>> => ImportInv'
    <2>. SUFFICES ASSUME ImportInv, I!Next \/ UNCHANGED importVars
                  PROVE  ImportInv'
      BY DEF AllNext
    <2>1. ASSUME I!Next  PROVE ImportInv'
      BY <2>1, ImportBegins, ImportSettles, ImportCopies, ImportSwaps, ImportEnds DEF I!Next
    <2>. QED  BY <2>1, ImportRests
  <1>3. ImportInv => KnownGoodStays
    BY DEF ImportInv, Undisturbed, Safe, Whole, KnownGoodStays, I!KnownGoodStays
  <1>. QED  BY <1>1, <1>2, <1>3, PTL DEF AllSpec

-----------------------------------------------------------------------------
\* ApprovalIsForThisQuestion.  A question, its dialog and its slot have one number, so a
\* late answer is left in a slot that nobody empties again.

Asks == 0..MaxAsked
Questions == {m \in [kind : {"question"}, who : W!Asker, n : Asks, at : Asks] : m.n = m.at}
Messages == {[kind |-> "ack"], [kind |-> "done"]} \cup Questions
Answers(n) == {<<>>, W!Note(TRUE, n), W!Note(FALSE, n)}

RoundInv ==
    /\ mail \in Seq(Messages) /\ dialogs \in Seq(Questions)
    /\ asker \in [W!Asker -> [pc : {"idle", "asking", "waiting", "leaving"}, asked : Asks]]
    /\ \A a \in W!Asker : asker[a].pc \in {"asking", "waiting"} => asker[a].asked # 0
    /\ slot \in [W!Asker -> [W!Number -> UNION {Answers(n) : n \in W!Number}]]
    /\ \A a \in W!Asker, n \in W!Number : slot[a][n] \in Answers(n)
    /\ \A a \in W!Asker : taken[a] \in Answers(asker[a].asked)
    /\ taken = [a \in W!Asker |-> taken[a]]

\* What is told to the window is told of itself.
LEMMA TellIs ==
    ASSUME mail \in Seq(Messages), NEW m \in Messages, W!Tell(m)
    PROVE  mail' \in Seq(Messages)
  BY DEF W!Tell

LEMMA NoticesAre ==
    [kind |-> "ack"] \in Messages /\ [kind |-> "done"] \in Messages
  BY DEF Messages

\* A message that asks is a question.
LEMMA QuestionIs ==
    ASSUME NEW m \in Messages, m.kind = "question"
    PROVE  m \in Questions
  <1>1. [kind |-> "ack"].kind = "ack" /\ [kind |-> "done"].kind = "done"
    OBVIOUS
  <1>. QED  BY <1>1 DEF Messages

LEMMA AnswersAre ==
    ASSUME NEW n
    PROVE  /\ <<>> \in Answers(n)
           /\ \A said \in BOOLEAN : W!Note(said, n) \in Answers(n)
  BY DEF Answers

\* A slot that is filled or emptied.
LEMMA SlotMoves ==
    ASSUME RoundInv, NEW a \in W!Asker, NEW k, NEW x,
           slot' = [slot EXCEPT ![a][k] = x], k \in W!Number => x \in Answers(k)
    PROVE  /\ slot' \in [W!Asker -> [W!Number -> UNION {Answers(n) : n \in W!Number}]]
           /\ \A b \in W!Asker, n \in W!Number : slot'[b][n] \in Answers(n)
  <1>. DEFINE All == UNION {Answers(n) : n \in W!Number}
  <1>1. k \in W!Number => x \in All
    OBVIOUS
  <1>2. slot \in [W!Asker -> [W!Number -> All]]
    BY DEF RoundInv
  <1>. HIDE DEF All
  <1>3. slot' \in [W!Asker -> [W!Number -> All]]
    <2>1. [slot[a] EXCEPT ![k] = x] \in [W!Number -> All]
      BY <1>1, <1>2
    <2>. QED  BY <1>2, <2>1
  <1>4. ASSUME NEW b \in W!Asker, NEW n \in W!Number  PROVE slot'[b][n] \in Answers(n)
    <2>1. slot[b] \in [W!Number -> All] /\ slot[b][n] \in Answers(n)
      BY <1>2 DEF RoundInv
    <2>2. CASE b = a /\ n = k
      <3>1. slot'[b][n] = x
        BY <1>2, <2>1, <2>2
      <3>. QED  BY <2>2, <3>1
    <2>3. CASE ~(b = a /\ n = k)
      <3>1. slot'[b][n] = slot[b][n]
        BY <1>2, <2>1, <2>3
      <3>. QED  BY <2>1, <3>1
    <2>. QED  BY <2>2, <2>3
  <1>. QED  BY <1>3, <1>4 DEF All

\* Ticks and operations ask nothing.
LEMMA TicksKeep ==
    ASSUME RoundInv,
           W!Timer \/ W!RefreshTick \/ W!Operate \/ W!Begin \/ W!TickEnds \/ W!OpEnds
    PROVE  RoundInv'
  <1>1. UNCHANGED <<asker, slot, dialogs, taken>>
    BY DEF W!Timer, W!RefreshTick, W!Operate, W!Begin, W!TickEnds, W!OpEnds, W!askVars
  <1>2. mail' = mail \/ W!Tell([kind |-> "ack"]) \/ W!Tell([kind |-> "done"])
    BY DEF W!Timer, W!RefreshTick, W!Operate, W!Begin, W!TickEnds, W!OpEnds
  <1>3. mail' \in Seq(Messages)
    BY <1>2, TellIs, NoticesAre DEF RoundInv
  <1>. QED  BY <1>1, <1>3 DEF RoundInv

\* An asker asks, takes what its own slot holds, and is done.
LEMMA AskerKeeps ==
    ASSUME RoundInv, NEW a \in W!Asker, W!Ask(a) \/ W!Emit(a) \/ W!Get(a) \/ W!Leave(a)
    PROVE  RoundInv'
  <1>0. MaxAsked \in Nat
    BY OwnerConstants
  <1>1. CASE W!Ask(a)
    <2>1. /\ UNCHANGED <<mail, slot, dialogs>> /\ asker[a].asked < MaxAsked
          /\ asker' = [asker EXCEPT ![a] = [pc |-> "asking", asked |-> asker[a].asked + 1]]
          /\ taken' = [taken EXCEPT ![a] = <<>>]
      BY <1>1 DEF W!Ask
    <2>2. asker[a].asked + 1 \in Asks /\ asker[a].asked + 1 # 0
      BY <1>0, <2>1 DEF RoundInv, Asks
    <2>3. /\ asker' \in [W!Asker -> [pc : {"idle", "asking", "waiting", "leaving"}, asked : Asks]]
          /\ asker'[a].asked # 0 /\ \A b \in W!Asker \ {a} : asker'[b] = asker[b]
      BY <2>1, <2>2 DEF RoundInv
    <2>4. /\ taken'[a] = <<>> /\ \A b \in W!Asker \ {a} : taken'[b] = taken[b]
          /\ taken' = [b \in W!Asker |-> taken'[b]]
      BY <2>1 DEF RoundInv
    <2>5. \A b \in W!Asker : taken'[b] \in Answers(asker'[b].asked)
      BY <2>3, <2>4, AnswersAre DEF RoundInv
    <2>. QED  BY <2>1, <2>3, <2>4, <2>5 DEF RoundInv
  <1>2. CASE W!Emit(a)
    <2>. DEFINE m == [kind |-> "question", who |-> a, n |-> asker[a].asked, at |-> asker[a].asked]
    <2>1. /\ UNCHANGED <<slot, dialogs, taken>> /\ asker[a].pc = "asking" /\ W!Tell(m)
          /\ asker' = [asker EXCEPT ![a].pc = "waiting"]
      BY <1>2 DEF W!Emit, W!Place
    <2>2. m \in Messages
      BY DEF RoundInv, Messages, Questions
    <2>3. mail' \in Seq(Messages)
      BY <2>1, <2>2, TellIs DEF RoundInv
    <2>4. /\ asker' \in [W!Asker -> [pc : {"idle", "asking", "waiting", "leaving"}, asked : Asks]]
          /\ \A b \in W!Asker : asker'[b].asked = asker[b].asked
          /\ \A b \in W!Asker \ {a} : asker'[b] = asker[b]
      BY <2>1 DEF RoundInv
    <2>. QED  BY <2>1, <2>3, <2>4 DEF RoundInv
  <1>3. CASE W!Get(a)
    <2>. DEFINE k == asker[a].asked
    <2>1. /\ UNCHANGED <<mail, dialogs>> /\ asker[a].pc = "waiting"
          /\ slot' = [slot EXCEPT ![a][k] = <<>>]
          /\ asker' = [asker EXCEPT ![a].pc = "leaving"]
          /\ taken' = [taken EXCEPT ![a] = taken'[a]]
          /\ taken'[a] \in {<<>>, slot[a][k]}
      <3>1. \A x : [taken EXCEPT ![a] = x][a] = x
        BY DEF RoundInv
      <3>. QED  BY <1>3, <3>1 DEF W!Get, W!Place
    <2>2. k \in W!Number
      BY <1>0, <2>1 DEF RoundInv, Asks, W!Number
    <2>3. taken'[a] \in Answers(k)
      BY <2>1, <2>2, AnswersAre DEF RoundInv
    <2>4. /\ asker' \in [W!Asker -> [pc : {"idle", "asking", "waiting", "leaving"}, asked : Asks]]
          /\ asker'[a].pc = "leaving"
          /\ \A b \in W!Asker : asker'[b].asked = asker[b].asked
          /\ \A b \in W!Asker \ {a} : asker'[b] = asker[b]
      BY <2>1 DEF RoundInv
    <2>5. /\ \A b \in W!Asker \ {a} : taken'[b] = taken[b]
          /\ taken' = [b \in W!Asker |-> taken'[b]]
      BY <2>1 DEF RoundInv
    <2>6. /\ slot' \in [W!Asker -> [W!Number -> UNION {Answers(n) : n \in W!Number}]]
          /\ \A b \in W!Asker, n \in W!Number : slot'[b][n] \in Answers(n)
      BY <2>1, SlotMoves, AnswersAre
    <2>. QED  BY <2>1, <2>3, <2>4, <2>5, <2>6 DEF RoundInv
  <1>4. CASE W!Leave(a)
    <2>1. /\ UNCHANGED <<mail, slot, dialogs, taken>>
          /\ asker' = [asker EXCEPT ![a].pc = "idle"]
      BY <1>4 DEF W!Leave
    <2>2. /\ asker' \in [W!Asker -> [pc : {"idle", "asking", "waiting", "leaving"}, asked : Asks]]
          /\ asker'[a].pc = "idle"
          /\ \A b \in W!Asker : asker'[b].asked = asker[b].asked
          /\ \A b \in W!Asker \ {a} : asker'[b] = asker[b]
      BY <2>1 DEF RoundInv
    <2>. QED  BY <2>1, <2>2 DEF RoundInv
  <1>. QED  BY <1>1, <1>2, <1>3, <1>4

\* The window shows a question, answers the innermost dialog, or is closed.
LEMMA WindowKeeps ==
    ASSUME RoundInv, W!Handle \/ W!Cancel \/ \E said \in BOOLEAN : W!Reply(said)
    PROVE  RoundInv'
  <1>1. CASE W!Handle
    <2>1. /\ mail # <<>> /\ mail' = Tail(mail) /\ UNCHANGED <<asker, slot, taken>>
      BY <1>1 DEF W!Handle
    <2>2. Head(mail) \in Messages /\ mail' \in Seq(Messages)
      BY <2>1, HeadTailProperties DEF RoundInv
    <2>3. Head(mail).kind \in {"ack", "done", "question"}
      <3>1. [kind |-> "ack"].kind = "ack" /\ [kind |-> "done"].kind = "done"
        OBVIOUS
      <3>2. \A q \in Questions : q.kind = "question"
        BY DEF Questions
      <3>. QED  BY <2>2, <3>1, <3>2 DEF Messages
    <2>4. dialogs' \in Seq(Questions)
      <3>1. CASE Head(mail).kind # "question"
        <4>1. dialogs' = dialogs
          BY <1>1, <2>3, <3>1 DEF W!Handle
        <4>. QED  BY <4>1 DEF RoundInv
      <3>2. CASE Head(mail).kind = "question"
        <4>1. dialogs' = Append(dialogs, Head(mail))
          BY <1>1, <3>2 DEF W!Handle, W!Shown
        <4>. QED  BY <2>2, <3>2, <4>1, QuestionIs DEF RoundInv
      <3>. QED  BY <3>1, <3>2
    <2>. QED  BY <2>1, <2>2, <2>4 DEF RoundInv
  <1>2. ASSUME NEW said \in BOOLEAN, W!Reply(said)  PROVE RoundInv'
    <2>. DEFINE d == W!Last(dialogs)
    <2>1. dialogs # <<>> /\ UNCHANGED <<mail, asker, taken>>
      BY <1>2 DEF W!Reply
    <2>2. d \in Questions /\ W!Front(dialogs) \in Seq(Questions)
      <3>1. dialogs \in Seq(Questions) /\ Len(dialogs) \in Nat \ {0}
        BY <2>1, EmptySeq DEF RoundInv
      <3>2. \A i \in 1..Len(dialogs) - 1 : dialogs[i] \in Questions
        BY <3>1
      <3>. QED  BY <3>1, <3>2, SubSeqProperties DEF W!Front, W!Last
    <2>3. d.who \in W!Asker /\ d.n = d.at
      BY <2>2 DEF Questions
    <2>4. \/ UNCHANGED <<slot, dialogs>>
          \/ slot' = [slot EXCEPT ![d.who][d.at] = W!Note(said, d.n)] /\ dialogs' = W!Front(dialogs)
      BY <1>2 DEF W!Reply
    <2>. HIDE DEF d
    <2>5. /\ slot' \in [W!Asker -> [W!Number -> UNION {Answers(n) : n \in W!Number}]]
          /\ \A b \in W!Asker, n \in W!Number : slot'[b][n] \in Answers(n)
      <3>1. CASE slot' = slot
        BY <3>1 DEF RoundInv
      <3>2. CASE slot' = [slot EXCEPT ![d.who][d.at] = W!Note(said, d.n)]
        <4>1. W!Note(said, d.n) \in Answers(d.at)
          BY <2>3, AnswersAre
        <4>. QED  BY <2>3, <3>2, <4>1, SlotMoves
      <3>. QED  BY <2>4, <3>1, <3>2
    <2>. QED  BY <2>1, <2>2, <2>4, <2>5 DEF RoundInv
  <1>3. CASE W!Cancel
    <2>. DEFINE k == closing.n
                x == IF slot["run"][k] = <<>> THEN W!Note(FALSE, k) ELSE slot["run"][k]
    <2>1. /\ UNCHANGED <<mail, asker, taken, dialogs>>
          /\ slot' = slot \/ slot' = [slot EXCEPT !["run"][k] = x]
      BY <1>3 DEF W!Cancel
    <2>2. "run" \in W!Asker /\ (k \in W!Number => x \in Answers(k))
      BY AnswersAre DEF W!Asker, RoundInv
    <2>3. /\ slot' \in [W!Asker -> [W!Number -> UNION {Answers(n) : n \in W!Number}]]
          /\ \A b \in W!Asker, n \in W!Number : slot'[b][n] \in Answers(n)
      <3>. HIDE DEF x, k
      <3>1. CASE slot' = slot
        BY <3>1 DEF RoundInv
      <3>2. CASE slot' = [slot EXCEPT !["run"][k] = x]
        BY <2>2, <3>2, SlotMoves
      <3>. QED  BY <2>1, <3>1, <3>2
    <2>. QED  BY <2>1, <2>3 DEF RoundInv
  <1>. QED  BY <1>1, <1>2, <1>3

LEMMA RoundInitial == W!Init => RoundInv
  <1>. SUFFICES ASSUME W!Init  PROVE RoundInv
    OBVIOUS
  <1>1. /\ mail = <<>> /\ dialogs = <<>> /\ taken = [a \in W!Asker |-> <<>>]
        /\ asker = [a \in W!Asker |-> [pc |-> "idle", asked |-> 0]]
        /\ slot = [a \in W!Asker |-> [n \in W!Number |-> <<>>]]
    BY DEF W!Init
  <1>2. 0 \in Asks
    BY OwnerConstants DEF Asks
  <1>3. slot \in [W!Asker -> [W!Number -> UNION {Answers(n) : n \in W!Number}]]
    BY <1>1, AnswersAre
  <1>. QED  BY <1>1, <1>2, <1>3, AnswersAre DEF RoundInv

LEMMA RoundRests == RoundInv /\ UNCHANGED roundVars => RoundInv'
  BY DEF RoundInv, roundVars

\* What the acceptance run or the broker takes for the operator's approval was his answer
\* to the question it asks, whatever timed out, was cancelled, or stood open beside it
\* (_round_trip, _request_pin, cancel).
THEOREM ApprovalsAreForTheirQuestions == AllSpec => []ApprovalIsForThisQuestion
  <1>1. AllInit => RoundInv
    BY RoundInitial DEF AllInit
  <1>2. RoundInv /\ [AllNext]_<<part, keyVars, unlockVars, roundVars, familyVars, importVars>> => RoundInv'
    <2>. SUFFICES ASSUME RoundInv, W!Next \/ UNCHANGED roundVars
                  PROVE  RoundInv'
      BY DEF AllNext
    <2>1. ASSUME W!Next  PROVE RoundInv'
      BY <2>1, TicksKeep, AskerKeeps, WindowKeeps DEF W!Next
    <2>. QED  BY <2>1, RoundRests
  <1>3. RoundInv => ApprovalIsForThisQuestion
    <2>. SUFFICES ASSUME RoundInv, NEW a \in W!Asker, NEW i \in DOMAIN taken[a]
                  PROVE  taken[a][i].to = asker[a].asked
      BY DEF ApprovalIsForThisQuestion, W!ApprovalIsForThisQuestion
    <2>1. taken[a] \in Answers(asker[a].asked)
      BY DEF RoundInv
    <2>. QED  BY <2>1 DEF Answers, W!Note
  <1>. QED  BY <1>1, <1>2, <1>3, PTL DEF AllSpec

-----------------------------------------------------------------------------
\* WillingOwnerGetsIn.  While the owner refuses nothing, the call has still to come to his
\* key: in the group at hand if it is among the keys left, or in a group that follows.

Says == {"ok", "failed", "no_pin", "pin_failed", "cancelled", "wrong_credential",
         "unavailable", "capability", "open"}
Calls == [op : {"unlock", "enrol"}, at : {"resolve", "pin", "list", "device", "add"},
          groups : Seq(Salt), allowed : SUBSET Cred, phase : {"active", "older", "create", "wrap"},
          pin : Key \cup {U!NoKey}, devices : Seq(Key), last : {"failed"}]
Ends == [at : {"ended"}, op : {"unlock", "enrol"}, is : Says]

UnlockTypes ==
    /\ transport \in {"helper", "direct", "windows"}
    /\ plugged \subseteq Key /\ owner \in Key \cup {U!NoKey}
    /\ tries \in [Key -> 0..MaxTries] /\ held \in [Key -> SUBSET Cred]
    /\ rows \subseteq [cred : Cred, gen : {1, 2}, salt : Salt]
    /\ call \in Calls \cup Ends \cup {U!Idle}
    /\ call.at = "device" => call.devices # <<>>
    /\ cut \in BOOLEAN

\* A group that comes has a credential of key k.
Ahead(c, k) == \E i \in 1..Len(c.groups) : U!Group(c.groups[i]) \cap held[k] # {}
\* The group at hand has one, and the key is among those that are left.
AtHand(c, k) ==
    /\ c.phase = "active" /\ c.allowed \cap held[k] # {}
    /\ c.at = "device" => \E i \in 1..Len(c.devices) : c.devices[i] = k
Way(c, k) ==
    /\ c.phase \in {"active", "older"} /\ c.at # "add"
    /\ c.at \in {"list", "device"} /\ transport = "helper" => c.pin = k
    /\ Ahead(c, k) \/ AtHand(c, k)

\* The call that runs, or has ended, is one the owner wants to get in by.
Willing == call \in Calls \cup Ends /\ call.op = "unlock" /\ transport # "windows" /\ owner # U!NoKey
           /\ ~cut

UnlockInv ==
    /\ UnlockTypes
    /\ Willing => /\ owner \in plugged /\ tries[owner] > 0
                  /\ call \in Calls => Way(call, owner)
                  /\ call \in Ends => call.is = "open"

\* A sequence of a set has every element of it.
LEMMA SeqsAre ==
    ASSUME NEW S, IsFiniteSet(S), NEW f \in U!SetToSeqs(S)
    PROVE  f \in Seq(S) /\ \A x \in S : \E i \in 1..Len(f) : f[i] = x
  <1>. DEFINE n == Cardinality(S)
  <1>1. U!Cardinality(S) = n
    BY DEF Cardinality, U!Cardinality
  <1>2. n \in Nat
    BY FS_CardinalityType
  <1>3. f \in [1..n -> S] /\ \A i, j \in 1..n : i # j => f[i] # f[j]
    BY <1>1 DEF U!SetToSeqs
  <1>. HIDE DEF n
  <1>4. f \in Seq(S) /\ Len(f) = n
    BY <1>2, <1>3
  <1>5. ASSUME NEW x \in S, \A i \in 1..n : f[i] # x  PROVE FALSE
    <2>1. f \in [1..n -> S \ {x}]
      BY <1>3, <1>5
    <2>2. IsFiniteSet(S \ {x}) /\ Cardinality(S \ {x}) = n - 1
      BY FS_RemoveElement DEF n
    <2>3. IsFiniteSet(1..n) /\ Cardinality(1..n) = n
      BY <1>2, FS_Interval
    <2>4. Cardinality(S \ {x}) < Cardinality(1..n)
      BY <1>2, <2>2, <2>3
    <2>5. PICK i, j \in 1..n : i # j /\ f[i] = f[j]
      BY <2>1, <2>2, <2>3, <2>4, FS_PigeonHole
    <2>. QED  BY <1>3, <2>5
  <1>. QED  BY <1>4, <1>5

\* A call that ends is no call that runs.
LEMMA EndedIs ==
    ASSUME NEW c \in Calls, NEW is \in Says
    PROVE  /\ U!Ended(c, is) \in Ends /\ U!Ended(c, is) \notin Calls
           /\ U!Ended(c, is).op = c.op /\ U!Ended(c, is).is = is
           /\ U!Ended(c, is).at = "ended"
  BY DEF U!Ended, Ends, Calls

LEMMA RequestIs ==
    ASSUME NEW c \in Calls, NEW allowed \in SUBSET Cred,
           NEW phase_ \in {"active", "older", "create", "wrap"}
    PROVE  LET r == U!Request(c, allowed, phase_) IN
           /\ r \in Calls /\ r.at = "resolve" /\ r.phase = phase_ /\ r.allowed = allowed
           /\ r.groups = c.groups /\ r.op = c.op
  <1>. DEFINE r1 == [c EXCEPT !.at = "resolve", !.allowed = allowed]
              r2 == [r1 EXCEPT !.phase = phase_, !.pin = U!NoKey]
              r3 == [r2 EXCEPT !.devices = <<>>, !.last = "failed"]
  <1>1. r1 \in Calls /\ r1.at = "resolve" /\ r1.allowed = allowed /\ r1.groups = c.groups /\ r1.op = c.op
    BY DEF Calls
  <1>. HIDE DEF r1
  <1>2. r2 \in Calls /\ r2.at = "resolve" /\ r2.phase = phase_ /\ r2.allowed = allowed
        /\ r2.groups = c.groups /\ r2.op = c.op
    BY <1>1 DEF Calls
  <1>. HIDE DEF r2
  <1>3. <<>> \in Seq(Key)
    OBVIOUS
  <1>4. r3 \in Calls /\ r3.at = "resolve" /\ r3.phase = phase_ /\ r3.allowed = allowed
        /\ r3.groups = c.groups /\ r3.op = c.op
    BY <1>2, <1>3 DEF Calls
  <1>5. U!Request(c, allowed, phase_) = r3
    BY DEF U!Request, r1, r2
  <1>. QED  BY <1>4, <1>5

LEMMA GroupsAre ==
    ASSUME UnlockTypes, NEW s
    PROVE  U!Group(s) \in SUBSET Cred /\ U!OlderIds \in SUBSET Cred
  BY DEF UnlockTypes, U!Group, U!Active, U!OlderIds

LEMMA NextGroupIs ==
    ASSUME UnlockTypes, NEW c \in Calls
    PROVE  LET n == U!NextGroup(c) IN
           IF c.groups = <<>> THEN n = U!Ended(c, "failed")
           ELSE /\ n \in Calls /\ n.at = "resolve" /\ n.phase = "active" /\ n.op = c.op
                /\ n.allowed = U!Group(Head(c.groups)) /\ n.groups = Tail(c.groups)
  <1>1. CASE c.groups = <<>>
    BY <1>1 DEF U!NextGroup
  <1>2. CASE c.groups # <<>>
    <2>. DEFINE d == [c EXCEPT !.groups = Tail(@)]
    <2>1. c.groups \in Seq(Salt)
      BY DEF Calls
    <2>2. Tail(c.groups) \in Seq(Salt)
      BY <1>2, <2>1
    <2>3. d \in Calls /\ d.groups = Tail(c.groups) /\ d.op = c.op
      BY <2>2 DEF Calls
    <2>4. U!NextGroup(c) = U!Request(d, U!Group(Head(c.groups)), "active")
      BY <1>2 DEF U!NextGroup
    <2>. HIDE DEF d
    <2>5. U!Group(Head(c.groups)) \in SUBSET Cred
      BY GroupsAre
    <2>. QED  BY <1>2, <2>3, <2>4, <2>5, RequestIs
  <1>. QED  BY <1>1, <1>2

\* If a group that comes has a credential of k, so has the next group or one after it.
LEMMA NextGroupWay ==
    ASSUME UnlockTypes, NEW c \in Calls, NEW k \in Key, Ahead(c, k)
    PROVE  U!NextGroup(c) \in Calls /\ Way(U!NextGroup(c), k)
  <1>. DEFINE n == U!NextGroup(c)
  <1>1. PICK i \in 1..Len(c.groups) : U!Group(c.groups[i]) \cap held[k] # {}
    BY DEF Ahead
  <1>2. c.groups \in Seq(Salt)
    BY DEF Calls
  <1>3. c.groups # <<>>
    BY <1>1, <1>2
  <1>4. /\ n \in Calls /\ n.at = "resolve" /\ n.phase = "active" /\ n.op = c.op
        /\ n.allowed = U!Group(Head(c.groups)) /\ n.groups = Tail(c.groups)
    BY <1>3, NextGroupIs
  <1>. HIDE DEF n
  <1>5. CASE i = 1
    <2>1. Head(c.groups) = c.groups[1]
      BY <1>2, <1>3
    <2>2. AtHand(n, k)
      BY <1>1, <1>4, <1>5, <2>1 DEF AtHand
    <2>. QED  BY <1>4, <2>2 DEF Way, n
  <1>6. CASE i # 1
    <2>1. i - 1 \in 1..Len(Tail(c.groups)) /\ Tail(c.groups)[i - 1] = c.groups[i]
      BY <1>2, <1>3, <1>6
    <2>2. Ahead(n, k)
      BY <1>1, <1>4, <2>1 DEF Ahead
    <2>. QED  BY <1>4, <2>2 DEF Way, n
  <1>. QED  BY <1>5, <1>6

\* What get_key_material answers.
Replies == {"ok", "failed", "no_pin", "pin_failed", "cancelled", "wrong_credential",
            "unavailable", "capability"}

LEMMA AnsweredIs ==
    ASSUME UnlockTypes, NEW c \in Calls, NEW is \in Replies, NEW cred,
           is = "ok" => cred \in Cred /\ c.phase # "create"
    PROVE  U!Answered(c, is, cred) \in Calls \cup Ends /\ U!Answered(c, is, cred).op = c.op
           /\ U!Answered(c, is, cred).at # "device"
  <1>. DEFINE a == U!Answered(c, is, cred)
              Good(x) == x \in Calls \cup Ends /\ x.op = c.op /\ x.at # "device"
  <1>0. c.phase \in {"active", "older", "create", "wrap"} /\ is \in Says
    BY DEF Calls, Replies, Says
  <1>1. \A x \in Says : Good(U!Ended(c, x))
    BY EndedIs
  <1>2. Good(U!NextGroup(c))
    <2>1. CASE c.groups = <<>>
      BY <1>1, <2>1, NextGroupIs DEF Says
    <2>2. CASE c.groups # <<>>
      BY <2>2, NextGroupIs
    <2>. QED  BY <2>1, <2>2
  <1>3. Good(U!Request(c, U!OlderIds, "older"))
    BY GroupsAre, RequestIs
  <1>4. Good(U!Request(c, {}, "create"))
    BY RequestIs
  <1>. HIDE DEF Good
  <1>5. CASE c.phase = "wrap"
    <2>1. CASE is = "ok"
      <3>. DEFINE d == [c EXCEPT !.at = "add", !.allowed = {cred}]
      <3>1. d \in Calls /\ d.op = c.op /\ d.at = "add"
        BY <2>1 DEF Calls
      <3>2. a = d
        BY <1>5, <2>1 DEF U!Answered
      <3>. HIDE DEF d
      <3>. QED  BY <3>1, <3>2 DEF Good
    <2>2. CASE is # "ok"
      <3>1. a = U!Ended(c, is)
        BY <1>5, <2>2 DEF U!Answered
      <3>. QED  BY <1>0, <1>1, <3>1 DEF Good
    <2>. QED  BY <2>1, <2>2
  <1>6. CASE c.phase # "wrap" /\ is \in {"cancelled", "unavailable"}
    <2>1. a = U!Ended(c, is)
      BY <1>6 DEF U!Answered
    <2>. QED  BY <1>0, <1>1, <2>1 DEF Good
  <1>7. CASE c.phase = "active" /\ is = "ok"
    <2>1. a \in {U!Ended(c, "capability"), U!Ended(c, "open"), U!Request(c, {}, "create")}
      BY <1>7 DEF U!Answered
    <2>2. "capability" \in Says /\ "open" \in Says
      BY DEF Says
    <2>. QED  BY <1>1, <1>4, <2>1, <2>2 DEF Good
  <1>8. CASE c.phase = "active" /\ is \notin {"ok", "cancelled", "unavailable"}
    <2>1. a \in {U!Request(c, U!OlderIds, "older"), U!NextGroup(c)}
      BY <1>8 DEF U!Answered
    <2>. QED  BY <1>2, <1>3, <2>1 DEF Good
  <1>9. CASE c.phase = "older" /\ is \notin {"cancelled", "unavailable"}
    <2>1. a = U!NextGroup(c)
      BY <1>9 DEF U!Answered
    <2>. QED  BY <1>2, <2>1 DEF Good
  <1>10. CASE c.phase = "create" /\ is \notin {"ok", "cancelled", "unavailable"}
    <2>1. a = U!Ended(c, is)
      BY <1>10 DEF U!Answered
    <2>. QED  BY <1>0, <1>1, <2>1 DEF Good
  <1>. QED  BY <1>0, <1>5, <1>6, <1>7, <1>8, <1>9, <1>10

\* An error that is neither a refusal nor a missing key goes on to what comes.
LEMMA AnsweredWay ==
    ASSUME UnlockTypes, NEW c \in Calls, NEW k \in Key, NEW is \in Replies, NEW cred,
           c.phase \in {"active", "older"}, is \notin {"cancelled", "unavailable"},
           is = "ok" => c.phase = "older", Ahead(c, k)
    PROVE  U!Answered(c, is, cred) \in Calls /\ Way(U!Answered(c, is, cred), k)
  <1>1. U!Answered(c, is, cred) \in {U!Request(c, U!OlderIds, "older"), U!NextGroup(c)}
    <2>1. CASE c.phase = "active"
      BY <2>1 DEF U!Answered
    <2>2. CASE c.phase = "older"
      BY <2>2 DEF U!Answered
    <2>. QED  BY <2>1, <2>2
  <1>. DEFINE r == U!Request(c, U!OlderIds, "older")
  <1>2. r \in Calls /\ r.at = "resolve" /\ r.phase = "older" /\ r.groups = c.groups
    BY GroupsAre, RequestIs
  <1>. HIDE DEF r
  <1>3. r \in Calls /\ Way(r, k)
    BY <1>2 DEF Way, Ahead
  <1>. QED  BY <1>1, <1>3, NextGroupWay DEF r

\* The next key is offered what the one before failed with, while keys are left.
LEMMA FailedIs ==
    ASSUME UnlockTypes, NEW c \in Calls, NEW is \in Replies \ {"ok"}
    PROVE  LET f == U!Failed(c, is) IN
           /\ f \in Calls \cup Ends /\ f.op = c.op /\ (f.at = "device" => f.devices # <<>>)
           /\ c.devices = <<>> => f = U!Answered(c, is, U!NoKey)
           /\ c.devices # <<>> => /\ f \in Calls /\ f.at = "device" /\ f.phase = c.phase
                                  /\ f.pin = c.pin /\ f.devices = c.devices
                                  /\ f.groups = c.groups /\ f.allowed = c.allowed
  <1>1. CASE c.devices = <<>>
    <2>1. U!Failed(c, is) = U!Answered(c, is, U!NoKey)
      BY <1>1 DEF U!Failed
    <2>. QED  BY <1>1, <2>1, AnsweredIs
  <1>2. CASE c.devices # <<>>
    <2>. DEFINE d == [c EXCEPT !.at = "device"]
    <2>1. /\ d \in Calls /\ d.at = "device" /\ d.phase = c.phase /\ d.pin = c.pin
          /\ d.devices = c.devices /\ d.groups = c.groups /\ d.allowed = c.allowed /\ d.op = c.op
      BY DEF Calls
    <2>2. U!Failed(c, is) = d
      BY <1>2 DEF U!Failed
    <2>. HIDE DEF d
    <2>. QED  BY <1>2, <2>1, <2>2
  <1>. QED  BY <1>1, <1>2

\* What a key answers that checks its PIN.
LEMMA CheckedIs ==
    ASSUME UnlockTypes, NEW k \in Key, NEW allowed \in SUBSET Cred, NEW p \in Key \cup {U!NoKey},
           NEW o \in U!Checked(k, allowed, p)
    PROVE  /\ o.is \in Replies \ {"unavailable", "capability"} /\ o.tries \in 0..MaxTries
           /\ o.is = "ok" => o.cred \in allowed \cap held[k]
           /\ p # U!NoKey => o.is # "no_pin"
           /\ p \notin {k, U!NoKey} => o.is \in {"failed", "pin_failed"}
           /\ p = k /\ p # U!NoKey /\ tries[k] > 0 =>
                /\ o.tries = MaxTries
                /\ o.is # "cancelled" /\ allowed \cap held[k] # {} => o.is = "ok"
  <1>1. tries[k] \in 0..MaxTries /\ MaxTries \in Nat
    BY OwnerConstants DEF UnlockTypes
  <1>3. CASE p = U!NoKey
    <2>1. o = [is |-> "no_pin", tries |-> tries[k]]
      BY <1>3 DEF U!Checked
    <2>. QED  BY <1>1, <1>3, <2>1 DEF Replies
  <1>4. CASE p # U!NoKey /\ tries[k] = 0
    <2>1. o = [is |-> "pin_failed", tries |-> 0]
      BY <1>4 DEF U!Checked
    <2>. QED  BY <1>1, <1>4, <2>1 DEF Replies
  <1>5. CASE p # U!NoKey /\ tries[k] # 0 /\ p # k
    <2>1. o = [is |-> "pin_failed", tries |-> tries[k] - 1]
      BY <1>5 DEF U!Checked
    <2>. QED  BY <1>1, <1>5, <2>1 DEF Replies
  <1>6. CASE p # U!NoKey /\ tries[k] # 0 /\ p = k
    <2>1. \/ o = [is |-> "cancelled", tries |-> MaxTries]
          \/ allowed \cap held[k] = {} /\ o = [is |-> "wrong_credential", tries |-> MaxTries]
          \/ \E c \in allowed \cap held[k] : o = [is |-> "ok", tries |-> MaxTries, cred |-> c]
      BY <1>6 DEF U!Checked
    <2>2. CASE o = [is |-> "cancelled", tries |-> MaxTries]
      BY <1>1, <1>6, <2>2 DEF Replies
    <2>3. CASE allowed \cap held[k] = {} /\ o = [is |-> "wrong_credential", tries |-> MaxTries]
      BY <1>1, <1>6, <2>3 DEF Replies
    <2>4. CASE \E c \in allowed \cap held[k] : o = [is |-> "ok", tries |-> MaxTries, cred |-> c]
      BY <1>1, <1>6, <2>4 DEF Replies
    <2>. QED  BY <2>1, <2>2, <2>3, <2>4
  <1>. QED  BY <1>3, <1>4, <1>5, <1>6

\* What a key answers, when its PIN is given and it is touched and when it is another key.
LEMMA OutcomesAre ==
    ASSUME UnlockTypes, NEW k \in Key, NEW allowed \in SUBSET Cred, NEW p \in Key \cup {U!NoKey},
           NEW o \in U!Outcomes(k, allowed, p)
    PROVE  /\ o.is \in (Replies \cup {"half"}) \ {"unavailable", "capability"}
           /\ o.tries \in 0..MaxTries
           /\ o.is = "ok" => o.cred \in allowed \cap held[k]
           /\ p # U!NoKey => o.is # "no_pin"
           /\ p \notin {k, U!NoKey} => o.is \in {"failed", "pin_failed", "half"}
           /\ p = k /\ p # U!NoKey /\ k \in plugged /\ tries[k] > 0 /\ o.is # "half" =>
                /\ o.tries = MaxTries
                /\ o.is # "cancelled" /\ allowed \cap held[k] # {} => o.is = "ok"
           /\ o.is = "half" => o.tries = tries[k]
  <1>1. tries[k] \in 0..MaxTries
    BY DEF UnlockTypes
  <1>2. CASE o = [is |-> "half", tries |-> tries[k]]
    BY <1>1, <1>2
  <1>3. CASE o \in U!Checked(k, allowed, p)
    <2>1. o.is # "half"
      BY <1>3, CheckedIs DEF Replies
    <2>. QED  BY <1>3, <2>1, CheckedIs
  <1>4. CASE k \notin plugged
    <2>1. o = [is |-> "failed", tries |-> tries[k]]
      BY <1>4 DEF U!Outcomes
    <2>. QED  BY <1>1, <1>4, <2>1 DEF Replies
  <1>. QED  BY <1>2, <1>3, <1>4 DEF U!Outcomes

LEMMA CategoryIs ==
    ASSUME NEW is \in Replies
    PROVE  /\ U!Category(is) \in Replies
           /\ is # "no_pin" => U!Category(is) = is
           /\ is # "ok" => U!Category(is) # "ok"
  BY DEF U!Category, U!WorkerCategory, U!DirectCategory, Replies

\* Whatever is not an answer goes to Failed, or, half an answer on the helper's path,
\* straight to Answered.
LEMMA UnansweredIs ==
    ASSUME UnlockTypes, NEW c \in Calls, NEW is \in (Replies \cup {"half"}) \ {"ok"}
    PROVE  LET u == U!Unanswered(c, is)
               cat == IF is = "half" THEN "capability" ELSE U!Category(is) IN
           /\ u \in Calls \cup Ends /\ u.op = c.op /\ (u.at = "device" => u.devices # <<>>)
           /\ cat \in Replies \ {"ok"}
           /\ u \in {U!Failed(c, cat), U!Answered(c, cat, U!NoKey)}
           /\ is # "half" \/ transport = "direct" => u = U!Failed(c, cat)
  <1>. DEFINE u == U!Unanswered(c, is)
              cat == IF is = "half" THEN "capability" ELSE U!Category(is)
  <1>1. cat \in Replies \ {"ok"}
    BY CategoryIs DEF Replies
  <1>2. /\ u \in {U!Failed(c, cat), U!Answered(c, cat, U!NoKey)}
        /\ is # "half" \/ transport = "direct" => u = U!Failed(c, cat)
    BY DEF U!Unanswered, U!Halved
  <1>. HIDE DEF u, cat
  <1>3. /\ u \in Calls \cup Ends /\ u.op = c.op /\ (u.at = "device" => u.devices # <<>>)
    BY <1>1, <1>2, AnsweredIs, FailedIs
  <1>. QED  BY <1>1, <1>2, <1>3 DEF u, cat

\* What a step has to show of the call that is left.
LEMMA UnlockMoves ==
    ASSUME UnlockTypes', Willing' => /\ owner' \in plugged' /\ tries'[owner'] > 0
                                     /\ (call' \in Calls => Way(call, owner)')
                                     /\ (call' \in Ends => call'.is = "open")
    PROVE  UnlockInv'
  BY DEF UnlockInv, Calls, Ends

\* A call that runs is one in Calls, and one that asks a key is not at its end.
LEMMA Running ==
    ASSUME UnlockTypes, call.at \notin {"idle", "ended"}
    PROVE  call \in Calls /\ call \notin Ends
  BY DEF UnlockTypes, Ends, U!Idle

LEMMA CallsAreNotEnds ==
    ASSUME NEW c
    PROVE  ~(c \in Calls /\ c \in Ends)
  BY DEF Calls, Ends

LEMMA Plugs ==
    ASSUME UnlockInv, NEW k \in Key, U!Plug(k)
    PROVE  UnlockInv'
  <1>1. /\ UNCHANGED <<transport, tries, held, rows, call, cut>> /\ plugged' \subseteq Key
        /\ owner' = IF owner = k THEN U!NoKey ELSE owner
        /\ \A j \in Key \ {k} : j \in plugged => j \in plugged'
    BY DEF UnlockInv, UnlockTypes, U!Plug
  <1>2. UnlockTypes'
    BY <1>1 DEF UnlockInv, UnlockTypes, U!NoKey
  <1>3. ASSUME Willing'  PROVE Willing /\ owner' = owner /\ owner # k
    BY <1>1, <1>3 DEF Willing
  <1>4. Willing' /\ call' \in Calls => Way(call, owner)'
    BY <1>1, <1>3 DEF UnlockInv, Way, Ahead, AtHand, U!Group, U!Active
  <1>5. Willing' => owner' \in plugged' /\ tries'[owner'] > 0 /\ (call' \in Ends => call'.is = "open")
    BY <1>1, <1>3 DEF UnlockInv, UnlockTypes
  <1>. QED  BY <1>2, <1>4, <1>5, UnlockMoves

LEMMA Resolves ==
    ASSUME UnlockInv, U!Resolve
    PROVE  UnlockInv'
  <1>1. /\ call.at = "resolve" /\ UNCHANGED <<transport, plugged, tries, held, rows, owner>>
        /\ \/ cut' = TRUE /\ call' = U!Answered(call, "unavailable", U!NoKey)
           \/ /\ cut' = cut
              /\ call' = IF plugged = {} THEN U!Answered(call, "unavailable", U!NoKey)
                         ELSE [call EXCEPT !.at = IF transport = "helper" THEN "pin" ELSE "list"]
    BY DEF U!Resolve
  <1>2. UnlockTypes /\ call \in Calls
    BY <1>1, Running DEF UnlockInv
  <1>5. CASE cut' = TRUE /\ call' = U!Answered(call, "unavailable", U!NoKey)
    <2>1. call' \in Calls \cup Ends /\ call'.op = call.op /\ call'.at # "device"
      BY <1>2, <1>5, AnsweredIs DEF Replies
    <2>2. UnlockTypes' /\ ~Willing'
      BY <1>1, <1>2, <1>5, <2>1 DEF UnlockTypes, Willing
    <2>. QED  BY <2>2, UnlockMoves
  <1>3. CASE cut' = cut /\ plugged = {} /\ call' = U!Answered(call, "unavailable", U!NoKey)
    <2>1. call' \in Calls \cup Ends /\ call'.op = call.op /\ call'.at # "device"
      BY <1>1, <1>2, <1>3, AnsweredIs DEF Replies
    <2>2. UnlockTypes'
      BY <1>1, <1>2, <1>3, <2>1 DEF UnlockTypes
    <2>3. ~Willing'
      BY <1>1, <1>2, <1>3, <2>1 DEF UnlockInv, Willing
    <2>. QED  BY <2>2, <2>3, UnlockMoves
  <1>4. CASE /\ cut' = cut /\ plugged # {}
             /\ call' = [call EXCEPT !.at = IF transport = "helper" THEN "pin" ELSE "list"]
    <2>1. /\ call' \in Calls /\ call'.op = call.op /\ call'.at \in {"pin", "list"}
          /\ call'.at = "list" => transport # "helper"
          /\ call'.groups = call.groups /\ call'.allowed = call.allowed /\ call'.phase = call.phase
      BY <1>1, <1>2, <1>4 DEF Calls
    <2>2. UnlockTypes'
      BY <1>1, <1>2, <1>4, <2>1 DEF UnlockTypes
    <2>3. ASSUME Willing'  PROVE owner \in plugged /\ tries[owner] > 0 /\ Way(call, owner)
      BY <1>1, <1>2, <1>4, <2>1, <2>3 DEF UnlockInv, Willing
    <2>4. Willing' => Way(call, owner)'
      BY <1>1, <2>1, <2>3 DEF Way, Ahead, AtHand, U!Group, U!Active
    <2>. QED  BY <1>1, <2>1, <2>2, <2>3, <2>4, UnlockMoves, CallsAreNotEnds
  <1>. QED  BY <1>1, <1>3, <1>4, <1>5

LEMMA AsksForPin ==
    ASSUME UnlockInv, U!AskPin
    PROVE  UnlockInv'
  <1>1. call.at = "pin" /\ UNCHANGED <<transport, plugged, tries, held, rows, cut>>
    BY DEF U!AskPin
  <1>2. UnlockTypes /\ call \in Calls
    BY <1>1, Running DEF UnlockInv
  <1>3. PICK p \in Key \cup {U!NoKey} :
          /\ call' = [call EXCEPT !.at = "list", !.pin = p]
          /\ owner' = IF owner = p THEN owner ELSE U!NoKey
    BY DEF U!AskPin
  <1>4. /\ call' \in Calls /\ call'.op = call.op /\ call'.at = "list" /\ call'.pin = p
        /\ call'.groups = call.groups /\ call'.allowed = call.allowed /\ call'.phase = call.phase
    BY <1>2, <1>3 DEF Calls
  <1>5. UnlockTypes'
    BY <1>1, <1>2, <1>3, <1>4 DEF UnlockTypes
  <1>6. ASSUME Willing'
        PROVE  owner' = owner /\ p = owner /\ owner \in plugged /\ tries[owner] > 0 /\ Way(call, owner)
    BY <1>1, <1>2, <1>3, <1>4, <1>6 DEF UnlockInv, Willing
  <1>7. Willing' => Way(call, owner)'
    BY <1>1, <1>4, <1>6 DEF Way, Ahead, AtHand, U!Group, U!Active
  <1>. QED  BY <1>1, <1>4, <1>5, <1>6, <1>7, UnlockMoves, CallsAreNotEnds

LEMMA Lists ==
    ASSUME UnlockInv, U!List
    PROVE  UnlockInv'
  <1>1. call.at = "list" /\ UNCHANGED <<transport, plugged, tries, held, rows, owner, cut>>
    BY DEF U!List
  <1>2. UnlockTypes /\ call \in Calls
    BY <1>1, Running DEF UnlockInv
  <1>3. CASE plugged = {} /\ call' = U!Answered(call, "unavailable", U!NoKey)
    <2>1. call' \in Calls \cup Ends /\ call'.op = call.op /\ call'.at # "device"
      BY <1>2, <1>3, AnsweredIs DEF Replies
    <2>2. UnlockTypes'
      BY <1>1, <1>2, <2>1 DEF UnlockTypes
    <2>3. ~Willing'
      BY <1>1, <1>2, <1>3, <2>1 DEF UnlockInv, Willing
    <2>. QED  BY <2>2, <2>3, UnlockMoves
  <1>4. ASSUME NEW f \in Seq(Key), f # <<>>, call' = [call EXCEPT !.at = "device", !.devices = f],
               transport # "windows" => \A j \in plugged : \E i \in 1..Len(f) : f[i] = j
        PROVE  UnlockInv'
    <2>1. /\ call' \in Calls /\ call'.op = call.op /\ call'.at = "device" /\ call'.pin = call.pin
          /\ call'.groups = call.groups /\ call'.allowed = call.allowed /\ call'.phase = call.phase
          /\ call'.devices = f
      BY <1>2, <1>4 DEF Calls
    <2>2. UnlockTypes'
      BY <1>1, <1>2, <1>4, <2>1 DEF UnlockTypes
    <2>3. ASSUME Willing'
          PROVE  /\ owner \in plugged /\ tries[owner] > 0 /\ Way(call, owner)
                 /\ \E i \in 1..Len(f) : f[i] = owner
      BY <1>1, <1>2, <1>4, <2>1, <2>3 DEF UnlockInv, Willing
    <2>4. Willing' => Way(call, owner)'
      BY <1>1, <2>1, <2>3 DEF Way, Ahead, AtHand, U!Group, U!Active
    <2>. QED  BY <1>1, <2>1, <2>2, <2>3, <2>4, UnlockMoves, CallsAreNotEnds
  <1>5. CASE transport # "windows" /\ \E f \in U!SetToSeqs(plugged) :
               f # <<>> /\ call' = [call EXCEPT !.at = "device", !.devices = f]
    <2>1. PICK f \in U!SetToSeqs(plugged) :
            f # <<>> /\ call' = [call EXCEPT !.at = "device", !.devices = f]
      BY <1>5
    <2>2. plugged \subseteq Key /\ IsFiniteSet(plugged)
      BY <1>2, OwnerConstants, FS_Subset DEF UnlockTypes
    <2>3. f \in Seq(plugged) /\ \A j \in plugged : \E i \in 1..Len(f) : f[i] = j
      BY <2>2, SeqsAre
    <2>4. f \in Seq(Key)
      BY <2>2, <2>3
    <2>. QED  BY <1>4, <2>1, <2>3, <2>4
  <1>6. CASE transport = "windows" /\ \E j \in plugged :
               call' = [call EXCEPT !.at = "device", !.devices = <<j>>]
    <2>1. PICK j \in plugged : call' = [call EXCEPT !.at = "device", !.devices = <<j>>]
      BY <1>6
    <2>2. <<j>> \in Seq(Key) /\ <<j>> # <<>>
      BY <1>2 DEF UnlockTypes
    <2>. QED  BY <1>4, <1>6, <2>1, <2>2
  <1>. QED  BY <1>3, <1>5, <1>6 DEF U!List

\* A listing that fails, and does not cut the call, was of a group the owner's key has no
\* credential of, or of the probe.
LEMMA Unlists ==
    ASSUME UnlockInv, U!ListFails
    PROVE  UnlockInv'
  <1>1. call.at = "list" /\ UNCHANGED <<transport, plugged, tries, held, rows, owner>>
    BY DEF U!ListFails
  <1>2. UnlockTypes /\ call \in Calls
    BY <1>1, Running DEF UnlockInv
  <1>3. PICK is \in {"unavailable", "failed"} :
          /\ call' = U!Answered(call, is, U!NoKey)
          /\ cut' = (cut \/ is = "unavailable" \/ U!Mine)
    BY DEF U!ListFails, U!Unlisted
  <1>4. call' \in Calls \cup Ends /\ call'.op = call.op /\ call'.at # "device"
    BY <1>2, <1>3, AnsweredIs DEF Replies
  <1>5. UnlockTypes'
    BY <1>1, <1>2, <1>3, <1>4 DEF UnlockTypes
  <1>6. ASSUME Willing'
        PROVE  /\ owner \in plugged /\ tries[owner] > 0 /\ owner \in Key
               /\ call' \in Calls /\ Way(call', owner)
    <2>1. is = "failed" /\ ~U!Mine /\ Willing
      BY <1>1, <1>2, <1>3, <1>4, <1>6 DEF Willing
    <2>2. /\ owner \in plugged /\ tries[owner] > 0 /\ owner \in Key /\ owner # U!NoKey
          /\ Way(call, owner)
      BY <1>2, <2>1 DEF UnlockInv, UnlockTypes, Willing
    <2>3. call.phase \in {"active", "older"} /\ Ahead(call, owner)
      BY <2>1, <2>2 DEF Way, AtHand, U!Mine
    <2>4. is \in Replies \ {"ok", "cancelled", "unavailable"}
      BY <2>1 DEF Replies
    <2>. QED  BY <1>2, <1>3, <2>2, <2>3, <2>4, AnsweredWay
  <1>7. Willing' => Way(call, owner)'
    BY <1>1, <1>6 DEF Way, Ahead, AtHand, U!Group, U!Active
  <1>. QED  BY <1>1, <1>5, <1>6, <1>7, UnlockMoves, CallsAreNotEnds

\* The call with the first of its keys taken off.
LEMMA RestIs ==
    ASSUME NEW c \in Calls, c.devices # <<>>
    PROVE  LET r == [c EXCEPT !.devices = Tail(@)] IN
           /\ r \in Calls /\ r.op = c.op /\ r.pin = c.pin /\ r.phase = c.phase /\ r.at = c.at
           /\ r.groups = c.groups /\ r.allowed = c.allowed /\ r.devices = Tail(c.devices)
           /\ Head(c.devices) \in Key /\ Head(c.devices) = c.devices[1]
  <1>1. c.devices \in Seq(Key)
    BY DEF Calls
  <1>2. /\ Tail(c.devices) \in Seq(Key)
        /\ Head(c.devices) \in Key /\ Head(c.devices) = c.devices[1]
    BY <1>1
  <1>. QED  BY <1>2 DEF Calls

LEMMA Offers ==
    ASSUME UnlockInv, U!Device
    PROVE  UnlockInv'
  <1>. DEFINE k == Head(call.devices)
              rest == [call EXCEPT !.devices = Tail(@)]
  <1>1. /\ call.at = "device" /\ call.phase # "create" /\ UNCHANGED <<transport, plugged, held, rows>>
        /\ \E p \in IF transport = "helper" THEN {call.pin} ELSE Key \cup {U!NoKey} :
           \E o \in U!Outcomes(k, call.allowed, p) :
             /\ tries' = [tries EXCEPT ![k] = o.tries]
             /\ owner' = IF U!Refused(k, p, o.is) THEN U!NoKey ELSE owner
             /\ cut' = (cut \/ (o.is = "half" /\ transport = "helper" /\ U!Mine))
             /\ call' = IF o.is = "ok" THEN U!Answered(rest, "ok", o.cred)
                        ELSE U!Unanswered(rest, o.is)
    BY DEF U!Device
  <1>2. UnlockTypes /\ call \in Calls /\ call.devices # <<>>
    BY <1>1, Running DEF UnlockInv, UnlockTypes
  <1>3. /\ rest \in Calls /\ rest.op = call.op /\ rest.pin = call.pin /\ rest.phase = call.phase
        /\ rest.at = "device" /\ rest.groups = call.groups /\ rest.allowed = call.allowed
        /\ rest.devices = Tail(call.devices) /\ k \in Key /\ k = call.devices[1]
    BY <1>1, <1>2, RestIs
  <1>. HIDE DEF rest, k
  <1>4. /\ call.pin \in Key \cup {U!NoKey} /\ call.allowed \in SUBSET Cred
        /\ call.devices \in Seq(Key)
    BY <1>2 DEF Calls
  <1>pin. PICK p \in Key \cup {U!NoKey} :
          /\ transport = "helper" => p = call.pin
          /\ \E o \in U!Outcomes(k, call.allowed, p) :
               /\ tries' = [tries EXCEPT ![k] = o.tries]
               /\ owner' = IF U!Refused(k, p, o.is) THEN U!NoKey ELSE owner
               /\ cut' = (cut \/ (o.is = "half" /\ transport = "helper" /\ U!Mine))
               /\ call' = IF o.is = "ok" THEN U!Answered(rest, "ok", o.cred)
                          ELSE U!Unanswered(rest, o.is)
    BY <1>1, <1>4
  <1>5. PICK o \in U!Outcomes(k, call.allowed, p) :
          /\ transport = "helper" => p = call.pin
          /\ tries' = [tries EXCEPT ![k] = o.tries]
          /\ owner' = IF U!Refused(k, p, o.is) THEN U!NoKey ELSE owner
          /\ cut' = (cut \/ (o.is = "half" /\ transport = "helper" /\ U!Mine))
          /\ call' = IF o.is = "ok" THEN U!Answered(rest, "ok", o.cred)
                     ELSE U!Unanswered(rest, o.is)
    BY <1>pin
  <1>6. /\ o.is \in (Replies \cup {"half"}) \ {"unavailable", "capability"} /\ o.tries \in 0..MaxTries
        /\ o.is = "ok" => o.cred \in call.allowed \cap held[k]
        /\ p # U!NoKey => o.is # "no_pin"
        /\ p \notin {k, U!NoKey} => o.is \in {"failed", "pin_failed", "half"}
        /\ p = k /\ p # U!NoKey /\ k \in plugged /\ tries[k] > 0 /\ o.is # "half" =>
             /\ o.tries = MaxTries
             /\ o.is # "cancelled" /\ call.allowed \cap held[k] # {} => o.is = "ok"
        /\ o.is = "half" => o.tries = tries[k]
    BY <1>2, <1>3, <1>4, OutcomesAre
  <1>. DEFINE cat == IF o.is = "half" THEN "capability" ELSE U!Category(o.is)
  <1>7. /\ cat \in Replies /\ (o.is \notin {"no_pin", "half"} => cat = o.is)
        /\ (o.is # "ok" => cat # "ok") /\ (o.is = "half" => cat = "capability")
    BY <1>6, CategoryIs DEF Replies
  <1>8. o.is = "ok" => call' = U!Answered(rest, "ok", o.cred)
    BY <1>5
  <1>9. o.is # "ok" => /\ call' \in {U!Failed(rest, cat), U!Answered(rest, cat, U!NoKey)}
                       /\ o.is # "half" \/ transport = "direct" => call' = U!Failed(rest, cat)
                       /\ call' \in Calls \cup Ends /\ call'.op = rest.op
                       /\ call'.at = "device" => call'.devices # <<>>
    BY <1>2, <1>3, <1>5, <1>6, UnansweredIs
  <1>. HIDE DEF cat
  <1>10. call' \in Calls \cup Ends /\ call'.op = call.op
         /\ (call'.at = "device" => call'.devices # <<>>)
    <2>1. CASE o.is = "ok"
      <3>1. o.cred \in Cred /\ "ok" \in Replies
        BY <1>4, <1>6, <2>1 DEF Replies
      <3>. QED  BY <1>1, <1>2, <1>3, <1>8, <2>1, <3>1, AnsweredIs
    <2>2. CASE o.is # "ok"
      BY <1>3, <1>9, <2>2
    <2>. QED  BY <2>1, <2>2
  <1>11. UnlockTypes'
    <2>1. tries' \in [Key -> 0..MaxTries]
      BY <1>2, <1>3, <1>5, <1>6 DEF UnlockTypes
    <2>2. owner' \in Key \cup {U!NoKey}
      BY <1>2, <1>5 DEF UnlockTypes
    <2>3. cut' \in BOOLEAN
      BY <1>2, <1>5 DEF UnlockTypes
    <2>. QED  BY <1>1, <1>2, <1>10, <2>1, <2>2, <2>3 DEF UnlockTypes
  <1>12. ASSUME Willing'
         PROVE  /\ owner' = owner /\ owner \in Key /\ p = owner /\ o.is # "cancelled" /\ owner # U!NoKey
                /\ ~(o.is = "half" /\ k = owner) /\ ~(o.is = "half" /\ transport = "helper" /\ U!Mine)
                /\ owner \in plugged /\ tries[owner] > 0 /\ Way(call, owner)
                /\ call.op = "unlock" /\ transport # "windows"
    <2>1. owner' # U!NoKey /\ owner' = owner /\ ~U!Refused(k, p, o.is)
          /\ ~cut /\ ~(o.is = "half" /\ transport = "helper" /\ U!Mine)
      BY <1>5, <1>12 DEF Willing
    <2>2. Willing /\ call.op = "unlock" /\ transport # "windows"
      BY <1>1, <1>2, <1>10, <1>12, <2>1 DEF Willing
    <2>3. owner \in plugged /\ tries[owner] > 0 /\ Way(call, owner)
      BY <1>2, <2>2 DEF UnlockInv
    <2>4. p = owner
      BY <1>1, <1>5, <2>1, <2>3 DEF U!Refused, Way
    <2>. QED  BY <1>2, <2>1, <2>2, <2>3, <2>4 DEF UnlockTypes, U!Refused
  <1>13. ASSUME Willing'  PROVE owner' \in plugged' /\ tries'[owner'] > 0
    <2>1. CASE owner = k
      <3>1. tries'[owner] = MaxTries
        BY <1>1, <1>2, <1>3, <1>5, <1>6, <1>12, <1>13, <2>1 DEF UnlockTypes
      <3>2. tries[owner] \in 0..MaxTries /\ tries[owner] > 0 /\ MaxTries \in Nat
        BY <1>2, <1>12, <1>13, OwnerConstants DEF UnlockTypes
      <3>. QED  BY <1>1, <1>12, <1>13, <3>1, <3>2
    <2>2. CASE owner # k
      BY <1>1, <1>2, <1>3, <1>5, <1>12, <1>13, <2>2 DEF UnlockTypes
    <2>. QED  BY <2>1, <2>2
  <1>14. ASSUME Willing'
         PROVE  call' = U!Ended(rest, "open") \/ (call' \in Calls /\ Way(call', owner))
    <2>1. /\ owner \in Key /\ p = owner /\ o.is # "cancelled" /\ owner # U!NoKey
          /\ ~(o.is = "half" /\ k = owner) /\ ~(o.is = "half" /\ transport = "helper" /\ U!Mine)
          /\ owner \in plugged /\ tries[owner] > 0 /\ Way(call, owner)
          /\ call.op = "unlock" /\ transport # "windows"
      BY <1>12, <1>14
    <2>2. call.phase \in {"active", "older"} /\ (transport = "helper" => call.pin = owner)
          /\ (Ahead(call, owner) \/ AtHand(call, owner))
      BY <1>1, <2>1 DEF Way
    <2>3. CASE o.is = "ok" /\ call.phase = "active"
      BY <1>3, <1>8, <2>1, <2>3 DEF U!Answered
    <2>4. CASE AtHand(call, owner) /\ o.is # "ok"
      <3>1. call.phase = "active" /\ call.allowed \cap held[owner] # {}
            /\ \E i \in 1..Len(call.devices) : call.devices[i] = owner
        BY <1>1, <2>4 DEF AtHand
      <3>2. k # owner
        BY <1>6, <2>1, <2>4, <3>1
      <3>3. o.is \in {"failed", "pin_failed", "half"} /\ (o.is = "half" => transport = "direct")
        <4>1. U!Mine
          BY <2>1, <3>1 DEF U!Mine
        <4>. QED  BY <1>2, <1>6, <2>1, <3>2, <4>1 DEF UnlockTypes
      <3>4. PICK i \in 1..Len(call.devices) : call.devices[i] = owner
        BY <3>1
      <3>5. i # 1
        BY <1>3, <3>2, <3>4
      <3>6. i - 1 \in 1..Len(rest.devices) /\ rest.devices[i - 1] = owner
        BY <1>2, <1>3, <1>4, <3>4, <3>5
      <3>7. rest.devices # <<>>
        BY <1>2, <1>3, <1>4, <3>6
      <3>8. /\ call' \in Calls /\ call'.at = "device" /\ call'.phase = rest.phase
            /\ call'.pin = rest.pin /\ call'.devices = rest.devices
            /\ call'.groups = rest.groups /\ call'.allowed = rest.allowed
        <4>1. call' = U!Failed(rest, cat) /\ cat \in Replies \ {"ok"}
          BY <1>7, <1>9, <2>4, <3>3
        <4>. QED  BY <1>2, <1>3, <3>7, <4>1, FailedIs
      <3>. DEFINE c1 == call'
      <3>9. /\ c1 \in Calls /\ c1.at = "device" /\ c1.phase = "active" /\ c1.pin = call.pin
            /\ c1.allowed = call.allowed /\ \E j \in 1..Len(c1.devices) : c1.devices[j] = owner
        BY <1>3, <3>1, <3>6, <3>8
      <3>. HIDE DEF c1
      <3>10. Way(c1, owner)
        BY <2>2, <3>1, <3>9 DEF Way, AtHand
      <3>. QED  BY <3>9, <3>10 DEF c1
    <2>5. CASE Ahead(call, owner) /\ ~(o.is = "ok" /\ call.phase = "active")
      <3>1. Ahead(rest, owner)
        BY <1>3, <2>5 DEF Ahead
      <3>2. CASE o.is = "ok"
        <4>1. rest.phase = "older" /\ "ok" \in Replies
          BY <1>3, <2>2, <2>5, <3>2 DEF Replies
        <4>. QED  BY <1>2, <1>3, <1>8, <2>1, <3>1, <3>2, <4>1, AnsweredWay
      <3>3. CASE o.is # "ok" /\ (rest.devices = <<>> \/ call' = U!Answered(rest, cat, U!NoKey))
        <4>1. cat \in Replies \ {"ok", "cancelled", "unavailable"}
          BY <1>6, <1>7, <2>1, <3>3
        <4>2. call' = U!Answered(rest, cat, U!NoKey)
          BY <1>2, <1>3, <1>7, <1>9, <3>3, FailedIs
        <4>. QED  BY <1>2, <1>3, <2>1, <2>2, <3>1, <4>1, <4>2, AnsweredWay
      <3>4. CASE o.is # "ok" /\ rest.devices # <<>> /\ call' = U!Failed(rest, cat)
        <4>. DEFINE c1 == call'
        <4>1. /\ c1 \in Calls /\ c1.at = "device" /\ c1.phase = rest.phase
              /\ c1.pin = rest.pin /\ c1.groups = rest.groups
          <5>. DEFINE f == U!Failed(rest, cat)
          <5>1. cat \in Replies \ {"ok"}
            BY <1>7, <3>4
          <5>2. /\ f \in Calls /\ f.at = "device" /\ f.phase = rest.phase
                /\ f.pin = rest.pin /\ f.groups = rest.groups
            BY <1>2, <1>3, <3>4, <5>1, FailedIs
          <5>. QED  BY <3>4, <5>2
        <4>. HIDE DEF c1
        <4>2. Ahead(c1, owner)
          BY <3>1, <4>1 DEF Ahead
        <4>3. Way(c1, owner)
          BY <1>3, <2>2, <4>1, <4>2 DEF Way
        <4>. QED  BY <4>1, <4>3 DEF c1
      <3>. QED  BY <1>9, <3>2, <3>3, <3>4
    <2>. QED  BY <2>2, <2>3, <2>4, <2>5, <1>1, <2>1 DEF AtHand
  <1>15. CASE Willing' /\ call' = U!Ended(rest, "open")
    <2>1. call' \in Ends /\ call' \notin Calls /\ call'.is = "open"
      BY <1>3, <1>15, EndedIs DEF Says
    <2>. QED  BY <1>11, <1>13, <1>15, <2>1, UnlockMoves
  <1>16. CASE Willing' /\ call' \in Calls /\ Way(call', owner)
    <2>1. Way(call, owner)'
      BY <1>1, <1>12, <1>16 DEF Way, Ahead, AtHand, U!Group, U!Active
    <2>. QED  BY <1>11, <1>13, <1>16, <2>1, UnlockMoves, CallsAreNotEnds
  <1>17. CASE ~Willing'
    BY <1>11, <1>17, UnlockMoves
  <1>. QED  BY <1>14, <1>15, <1>16, <1>17

LEMMA Creates ==
    ASSUME UnlockInv, U!Create
    PROVE  UnlockInv'
  <1>. DEFINE k == Head(call.devices)
              rest == [call EXCEPT !.devices = Tail(@)]
  <1>1. /\ call.at = "device" /\ call.phase = "create" /\ owner' = U!NoKey
        /\ UNCHANGED <<transport, plugged, rows, cut>>
        /\ \E p \in IF transport = "helper" THEN {call.pin} ELSE Key \cup {U!NoKey} :
           \E o \in U!Creations(k, p) :
             /\ tries' = [tries EXCEPT ![k] = o.tries]
             /\ held' = IF o.is \in {"ok", "half"} THEN [held EXCEPT ![k] = @ \cup {o.cred}] ELSE held
             /\ call' = IF o.is = "ok" THEN U!Wrap(rest, o.cred) ELSE U!Unanswered(rest, o.is)
    BY DEF U!Create
  <1>2. UnlockTypes /\ call \in Calls /\ call.devices # <<>>
    BY <1>1, Running DEF UnlockInv, UnlockTypes
  <1>3. rest \in Calls /\ k \in Key
    BY <1>2, RestIs
  <1>. HIDE DEF rest, k
  <1>4. call.pin \in Key \cup {U!NoKey}
    BY <1>2 DEF Calls
  <1>pin. PICK p \in Key \cup {U!NoKey} : \E o \in U!Creations(k, p) :
             /\ tries' = [tries EXCEPT ![k] = o.tries]
             /\ held' = IF o.is \in {"ok", "half"} THEN [held EXCEPT ![k] = @ \cup {o.cred}] ELSE held
             /\ call' = IF o.is = "ok" THEN U!Wrap(rest, o.cred) ELSE U!Unanswered(rest, o.is)
    BY <1>1, <1>4
  <1>5. PICK o \in U!Creations(k, p) :
             /\ tries' = [tries EXCEPT ![k] = o.tries]
             /\ held' = IF o.is \in {"ok", "half"} THEN [held EXCEPT ![k] = @ \cup {o.cred}] ELSE held
             /\ call' = IF o.is = "ok" THEN U!Wrap(rest, o.cred) ELSE U!Unanswered(rest, o.is)
    BY <1>pin
  <1>6. /\ o.is \in Replies \cup {"half"} /\ o.tries \in 0..MaxTries
        /\ o.is \in {"ok", "half"} => o.cred \in Cred
    <2>1. \A q \in U!Outcomes(k, {}, p) : /\ q.is \in Replies \cup {"half"} /\ q.tries \in 0..MaxTries
                                          /\ q.is # "ok"
      BY <1>2, <1>3, OutcomesAre
    <2>2. CASE o \in U!Outcomes(k, {}, p) /\ o.is \notin {"wrong_credential", "half"}
      BY <2>1, <2>2
    <2>3. CASE \E q \in U!Outcomes(k, {}, p), c \in Cred :
                 o = [is |-> IF q.is = "half" THEN "half" ELSE "ok", tries |-> q.tries, cred |-> c]
      <3>1. PICK q \in U!Outcomes(k, {}, p), c \in Cred :
                 o = [is |-> IF q.is = "half" THEN "half" ELSE "ok", tries |-> q.tries, cred |-> c]
        BY <2>3
      <3>. QED  BY <2>1, <3>1 DEF Replies
    <2>. QED  BY <2>2, <2>3 DEF U!Creations
  <1>7. call' \in Calls \cup Ends /\ (call'.at = "device" => call'.devices # <<>>)
    <2>1. CASE o.is = "ok"
      BY <1>3, <1>5, <1>6, <2>1, RequestIs DEF U!Wrap
    <2>2. CASE o.is # "ok"
      BY <1>2, <1>3, <1>5, <1>6, <2>2, UnansweredIs
    <2>. QED  BY <2>1, <2>2
  <1>8. tries' \in [Key -> 0..MaxTries] /\ held' \in [Key -> SUBSET Cred]
    BY <1>2, <1>3, <1>5, <1>6 DEF UnlockTypes
  <1>9. UnlockTypes'
    BY <1>1, <1>2, <1>7, <1>8 DEF UnlockTypes
  <1>. QED  BY <1>1, <1>9, UnlockMoves DEF Willing

LEMMA Adds ==
    ASSUME UnlockInv, U!Add
    PROVE  UnlockInv'
  <1>1. /\ call.at = "add" /\ call' = U!Ended(call, "open")
        /\ UNCHANGED <<transport, plugged, tries, held, owner, cut>>
        /\ \E s \in Salt, c \in call.allowed : rows' = rows \cup {[cred |-> c, gen |-> 1, salt |-> s]}
    BY DEF U!Add
  <1>2. UnlockTypes /\ call \in Calls /\ call.allowed \in SUBSET Cred
    BY <1>1, Running DEF UnlockInv, Calls
  <1>3. call' \in Ends /\ call'.at = "ended" /\ call'.op = call.op
    BY <1>1, <1>2, EndedIs DEF Says
  <1>4. UnlockTypes'
    BY <1>1, <1>2, <1>3 DEF UnlockTypes
  <1>5. ~Willing'
    BY <1>1, <1>2, <1>3 DEF Willing, UnlockInv, Way
  <1>. QED  BY <1>4, <1>5, UnlockMoves

LEMMA Begins ==
    ASSUME UnlockInv, NEW how \in {"unlock", "enrol"}, U!Begin(how)
    PROVE  UnlockInv'
  <1>. DEFINE with == {s \in Salt : U!Group(s) # {}}
              first(f) == [op |-> how, at |-> "resolve", groups |-> f, allowed |-> {},
                           phase |-> "active", pin |-> U!NoKey, devices |-> <<>>, last |-> "failed"]
  <1>1. PICK f \in U!SetToSeqs(with) : call' = U!NextGroup(first(f))
    BY DEF U!Begin
  <1>2. /\ owner' \in {k \in plugged : U!Opens(k) /\ tries[k] > 0} \cup {U!NoKey}
        /\ UNCHANGED <<transport, plugged, tries, held, rows>> /\ cut' = FALSE
    BY DEF U!Begin
  <1>3. UnlockTypes
    BY DEF UnlockInv
  <1>4. with \subseteq Salt /\ IsFiniteSet(with)
    BY OwnerConstants, FS_Subset
  <1>5. f \in Seq(Salt) /\ \A s \in with : \E i \in 1..Len(f) : f[i] = s
    <2>1. f \in Seq(with) /\ \A s \in with : \E i \in 1..Len(f) : f[i] = s
      BY <1>1, <1>4, SeqsAre
    <2>. HIDE DEF with
    <2>. QED  BY <1>4, <2>1
  <1>. DEFINE c == first(f)
  <1>6. c \in Calls /\ c.groups = f /\ c.op = how
    <2>1. f \in Seq(Salt) /\ <<>> \in Seq(Key)
      BY <1>5
    <2>. QED  BY <2>1 DEF Calls
  <1>. HIDE DEF first, c
  <1>7. call' = U!NextGroup(c)
    BY <1>1 DEF c
  <1>8. /\ call' \in Calls \cup Ends /\ call'.at # "device"
    <2>1. CASE f = <<>>
      BY <1>3, <1>6, <1>7, <2>1, NextGroupIs, EndedIs DEF Says
    <2>2. CASE f # <<>>
      BY <1>3, <1>6, <1>7, <2>2, NextGroupIs
    <2>. QED  BY <2>1, <2>2
  <1>9. UnlockTypes'
    BY <1>2, <1>3, <1>8 DEF UnlockTypes
  <1>10. ASSUME Willing'
         PROVE  /\ owner' \in plugged /\ tries[owner'] > 0 /\ call' \in Calls /\ Way(call, owner)'
    <2>. DEFINE k == owner'
    <2>1. k \in plugged /\ k \in Key /\ U!Opens(k) /\ tries[k] > 0
      BY <1>2, <1>3, <1>10 DEF Willing, UnlockTypes
    <2>. HIDE DEF k
    <2>2. PICK r \in U!Active : r.cred \in held[k]
      BY <2>1 DEF U!Opens
    <2>3. r.salt \in Salt /\ r.cred \in U!Group(r.salt)
      BY <1>3, <2>2 DEF UnlockTypes, U!Active, U!Group
    <2>4. r.salt \in with
      BY <2>3
    <2>. HIDE DEF with
    <2>5. PICK i \in 1..Len(f) : f[i] = r.salt
      BY <1>5, <2>4
    <2>6. Ahead(c, k)
      BY <1>6, <2>2, <2>3, <2>5 DEF Ahead
    <2>7. call' \in Calls /\ Way(call', k)
      BY <1>3, <1>6, <1>7, <2>1, <2>6, NextGroupWay
    <2>8. Way(call, owner)'
      BY <1>2, <2>7 DEF Way, Ahead, AtHand, U!Group, U!Active, k
    <2>. QED  BY <2>1, <2>7, <2>8 DEF k
  <1>. QED  BY <1>2, <1>9, <1>10, UnlockMoves, CallsAreNotEnds

LEMMA UnlockInitial == U!Init => UnlockInv
  <1>. SUFFICES ASSUME U!Init  PROVE UnlockInv
    OBVIOUS
  <1>1. tries \in [Key -> 0..MaxTries]
    BY OwnerConstants DEF U!Init
  <1>2. UnlockTypes
    BY <1>1, OwnerConstants DEF U!Init, UnlockTypes, U!Idle
  <1>3. ~Willing
    BY DEF U!Init, Willing
  <1>. QED  BY <1>2, <1>3 DEF UnlockInv

LEMMA UnlockRests == UnlockInv /\ UNCHANGED unlockVars => UnlockInv'
  BY DEF unlockVars, UnlockInv, UnlockTypes, Willing, Way, Ahead, AtHand, U!Group, U!Active

\* The owner of a plugged-in key that opens the vault, who types its PIN whenever he is
\* asked and touches what blinks, gets in whatever errors the other keys answer with and
\* in whatever order groups and keys are tried (unwrap_volume_secret, get_key_material,
\* _op_hmac), unless the keys could not be listed or, with the helper, half an answer of
\* another key ended the walk before his key was asked in a group it opens.
THEOREM WillingOwnerAlwaysGetsIn == AllSpec => []WillingOwnerGetsIn
  <1>1. AllInit => UnlockInv
    BY UnlockInitial DEF AllInit
  <1>2. UnlockInv /\ [AllNext]_<<part, keyVars, unlockVars, roundVars, familyVars, importVars>> => UnlockInv'
    <2>. SUFFICES ASSUME UnlockInv, U!Next \/ UNCHANGED unlockVars
                  PROVE  UnlockInv'
      BY DEF AllNext
    <2>1. ASSUME U!Next  PROVE UnlockInv'
      BY <2>1, Plugs, Begins, Resolves, AsksForPin, Lists, Unlists, Offers, Creates, Adds
      DEF U!Next
    <2>. QED  BY <2>1, UnlockRests
  <1>3. UnlockInv => WillingOwnerGetsIn
    <2>. SUFFICES ASSUME UnlockInv, call.at = "ended", call.op = "unlock", transport # "windows",
                         call.is # "open"
                  PROVE  owner = U!NoKey \/ cut
      BY DEF WillingOwnerGetsIn, U!WillingOwnerGetsIn
    <2>1. call \in Ends
      BY DEF UnlockInv, UnlockTypes, Calls, U!Idle
    <2>. QED  BY <2>1 DEF UnlockInv, Willing
  <1>. QED  BY <1>1, <1>2, <1>3, PTL DEF AllSpec
=============================================================================
