------------------------- MODULE SecureBrokerProofs -------------------------
(***************************************************************************)
(* Proofs about SecureBroker, for every set of broker processes, every      *)
(* policy and every set of faults.                                          *)
(*                                                                          *)
(* The safety properties speak of the moment a volume is unlocked, or of    *)
(* two brokers, and are not inductive.  The invariant IInv adds what every  *)
(* runtime keeps by itself (Local: a secret is one the key paid for, or one *)
(* that is demanded again; a command without the mutex that holds one is on *)
(* its way out) and what it keeps with the shared state (Shared: who may    *)
(* mount holds the mutex; a broker about to unlock, launch or detach tracks *)
(* no application).                                                         *)
(*                                                                          *)
(* RestIsUnreadable needs more, and holds under the policy of its theorem    *)
(* only: RestInv says that a broker at rest on a comfortable word, its       *)
(* start-up reconcile behind it, has no mounted volume.  Where every process *)
(* takes the mutex one broker is up, so no other moves the volume meanwhile. *)
(*                                                                          *)
(* UncleanEndIsNoticed needs RowInv: what the state file says is what the    *)
(* last broker said, and what a new broker has read is what the dead one     *)
(* said last.                                                                *)
(***************************************************************************)
EXTENDS SecureBroker, TLAPS

\* The operations a command without the mutex comes to.
Script == {"reconcile", "manual_lock", "recover", "set_mode", "publish_backup",
           "prove", "broker_shutdown", "exit"}
\* The commands without the mutex that ask for the key, and their waits.
KeyCommands == {"backup", "credential"}
Asking == {"auth_backup", "publish", "prove", "wrap"}
\* Waits for the key, the volume or the launch.
Touching == {"auth_open", "auth_only", "unlock", "launch"}
\* Waits during which the broker owns no application.
Busy == {"auth_open", "unlock", "launch", "detach"}

\* What a runtime keeps by itself.
Local(r) ==
    /\ r.life # "up" => r.sess = "none" /\ r.pc = "idle"
    /\ r.life = "up" /\ r.cmd \notin Guarded =>
         /\ r.pc \notin Touching /\ r.todo \in Script
         /\ r.sess # "none" \/ r.pc \in Asking =>
              r.cmd \in KeyCommands /\ r.todo = "broker_shutdown"
         /\ r.todo \in {"publish_backup", "prove"} => r.cmd \in KeyCommands
    /\ r.keyed \/ r.reauth \/ r.sess = "none"
    /\ r.pc \in {"unlock", "launch"} => r.keyed /\ ~r.reauth /\ r.sess # "none"
    /\ r.pc = "unlock" /\ r.aggressive => ~r.spent

\* What it keeps with the mutex and the application.
Shared(b) ==
    /\ Up(b) /\ rt[b].cmd \in Guarded => guard = b
    /\ rt[b].pc \in Busy => app # b
    /\ app = b => rt[b].life # "new" /\ (Up(b) => guard = b)

\* Where a step may leave the program of b.
Goes(b, r) ==
    r.cmd \notin Guarded =>
        /\ r.todo \in Script
        /\ r.todo \in {"publish_backup", "prove"} => r.cmd \in KeyCommands
        /\ r.cmd \in KeyCommands /\ rt[b].todo = "broker_shutdown" =>
             r.todo = "broker_shutdown"

\* The inductive invariant.
IInv == TypeOK /\ \A b \in Broker : Local(rt[b]) /\ Shared(b)

-----------------------------------------------------------------------------
\* How a step moves the runtimes.

\* The words an operation leaves.
LEMMA Words ==
    /\ "AUTHENTICATING" \in States /\ "ERROR" \in States /\ "RUNNING" \in States
    /\ "LOCKING" \in States /\ "AUTH_REQUIRED" \in States
    /\ "UNLOCKING" \in States /\ "MOUNTED" \in States /\ "SESSION_CACHED" \in States
  BY DEF States

\* A step that keeps the row moves one runtime and no row.
LEMMA KeepMoves ==
    ASSUME TypeOK, NEW b \in Broker, NEW r \in Runtime, Keep(b, r)
    PROVE  rt' = [rt EXCEPT ![b] = r] /\ disk' \in Row
  BY DEF TypeOK, Keep

\* The row of a runtime has no part in the local invariant.
LEMMA MemUpdate ==
    ASSUME NEW r \in Runtime, NEW m \in Row
    PROVE  /\ [r EXCEPT !.mem = m] \in Runtime
           /\ Local(r) => Local([r EXCEPT !.mem = m])
           /\ [r EXCEPT !.mem = m].life = r.life
           /\ [r EXCEPT !.mem = m].cmd = r.cmd
           /\ [r EXCEPT !.mem = m].pc = r.pc
<1> DEFINE q == [r EXCEPT !.mem = m]
<1>1. q \in Runtime
  BY DEF Runtime
<1>2. /\ q.life = r.life /\ q.cmd = r.cmd /\ q.pc = r.pc /\ q.sess = r.sess
      /\ q.todo = r.todo /\ q.keyed = r.keyed /\ q.reauth = r.reauth
      /\ q.aggressive = r.aggressive /\ q.spent = r.spent
  BY DEF Runtime
<1> HIDE DEF q
<1>3. Local(r) => Local(q)
  BY <1>2 DEF Local
<1> QED BY <1>1, <1>2, <1>3 DEF q

\* A step that persists moves one runtime, up to its copy of the row.
LEMMA PersistMoves ==
    ASSUME TypeOK, NEW b \in Broker, NEW r \in Runtime, Persist(b, r)
    PROVE  \E m \in Row : rt' = [rt EXCEPT ![b] = [r EXCEPT !.mem = m]] /\ disk' \in Row
<1> DEFINE row == [state |-> r.st, by |-> b]
<1>1. row \in Row
  BY DEF Runtime, Row
<1>2. rt' = [rt EXCEPT ![b] = [r EXCEPT !.mem = row]]
  BY DEF Persist
<1>3. disk' \in Row
  BY <1>1 DEF TypeOK, Persist
<1> QED BY <1>1, <1>2, <1>3

\* The invariant survives a step that moves one runtime to a record of which
\* the local part holds, if the mutex and the application are nobody else's.
LEMMA Preserves ==
    ASSUME IInv, NEW b \in Broker, NEW r \in Runtime, Local(r),
           Keep(b, r) \/ Persist(b, r),
           vault' \in VaultStates,
           app' \in {app, b, NoBroker, Untracked}, guard' \in Broker \cup {NoBroker},
           r.life = "up" /\ r.cmd \in Guarded => guard' = b,
           r.pc \in Busy => app' # b,
           app' = b => r.life # "new" /\ (r.life = "up" => guard' = b),
           \A c \in Broker \ {b} : guard = c => guard' = c
    PROVE  IInv'
<1>1. PICK q \in Runtime : /\ rt' = [rt EXCEPT ![b] = q] /\ disk' \in Row
                           /\ Local(q) /\ q.life = r.life /\ q.cmd = r.cmd /\ q.pc = r.pc
  <2>1. CASE Keep(b, r)
    BY <2>1, KeepMoves DEF IInv
  <2>2. CASE Persist(b, r)
    <3>1. PICK m \in Row : rt' = [rt EXCEPT ![b] = [r EXCEPT !.mem = m]] /\ disk' \in Row
      BY <2>2, PersistMoves DEF IInv
    <3>2. [r EXCEPT !.mem = m] \in Runtime
      BY MemUpdate
    <3> QED BY <3>1, <3>2, MemUpdate
  <2> QED BY <2>1, <2>2
<1>2. rt'[b] = q /\ \A c \in Broker \ {b} : rt'[c] = rt[c]
  BY <1>1 DEF IInv, TypeOK
<1>3. rt' \in [Broker -> Runtime]
  BY <1>1 DEF IInv, TypeOK
<1>4. TypeOK'
  BY <1>1, <1>3 DEF IInv, TypeOK
<1>5. \A c \in Broker : Local(rt[c])'
  BY <1>1, <1>2 DEF IInv, Local
<1>6. \A c \in Broker : Shared(c)'
  <2> TAKE c \in Broker
  <2>1. CASE c = b
    BY <2>1, <1>1, <1>2 DEF Shared, Up
  <2>2. CASE c # b
    BY <2>2, <1>2, ConstantsOK DEF IInv, Shared, Up
  <2> QED BY <2>1, <2>2
<1> QED BY <1>4, <1>5, <1>6 DEF IInv

\* The invariant at one broker.
LEMMA AtBroker ==
    ASSUME IInv, NEW b \in Broker
    PROVE  rt[b] \in Runtime /\ Local(rt[b]) /\ Shared(b) /\ vault \in VaultStates
  BY DEF IInv, TypeOK

\* A step of a live broker that takes no mutex and launches nothing.
LEMMA Stays ==
    ASSUME IInv, NEW b \in Broker, Up(b), NEW r \in Runtime,
           Keep(b, r) \/ Persist(b, r),
           vault' \in VaultStates, app' \in {app, NoBroker}, UNCHANGED guard,
           r.life = "up", r.cmd = rt[b].cmd, Local(r),
           r.pc \in Busy => app # b
    PROVE  IInv'
<1>1. r.life = "up" /\ r.cmd \in Guarded => guard' = b
  BY AtBroker DEF Shared, Up
<1>2. /\ r.pc \in Busy => app' # b
      /\ app' = b => guard' = b
  BY AtBroker, ConstantsOK DEF Shared, Up
<1>3. guard' \in Broker \cup {NoBroker}
  BY DEF IInv, TypeOK
<1> QED BY <1>1, <1>2, <1>3, Preserves

\* Such a step, if it waits for no key, volume or launch and brings no secret
\* that the key did not pay for.
LEMMA Settles ==
    ASSUME IInv, NEW b \in Broker, Up(b), NEW r \in Runtime,
           Keep(b, r) \/ Persist(b, r),
           vault' \in VaultStates, app' \in {app, NoBroker}, UNCHANGED guard,
           r.life = "up", r.cmd = rt[b].cmd, Goes(b, r),
           r.pc \in {"idle", "tick", "close"},
           r.sess # "none" => rt[b].sess # "none" /\ (r.keyed \/ r.reauth)
    PROVE  IInv'
<1>1. Local(r)
  BY AtBroker DEF Local, Goes, Up, Touching, Asking
<1>2. r.pc \notin Busy
  BY DEF Busy
<1> QED BY <1>1, <1>2, Stays

\* A command that takes no mutex never leaves the scripts.
LEMMA AfterScript ==
    ASSUME NEW c \in AllCommands, NEW op
    PROVE  /\ First(c) \in Ops /\ After(c, op) \in Ops
           /\ c \notin Guarded => First(c) \in Script /\ After(c, op) \in Script
           /\ c \in KeyCommands => After(c, op) = "broker_shutdown"
           /\ c \notin Guarded /\ First(c) \in {"publish_backup", "prove"} => c \in KeyCommands
           /\ After(c, op) \notin {"publish_backup", "prove"}
  BY DEF First, After, Ops, GuiOps, PageOps, Events, FlaggedEvents, AllCommands, Guarded,
         Script, KeyCommands

\* Begun changes what the program does next and nothing else.
LEMMA BegunFits ==
    ASSUME IInv, NEW b \in Broker, NEW op \in Ops
    PROVE  LET r == Begun(b, op) IN
           /\ r \in Runtime
           /\ r.life = rt[b].life /\ r.cmd = rt[b].cmd /\ r.pc = rt[b].pc
           /\ r.sess = rt[b].sess /\ r.st = rt[b].st /\ r.keyed = rt[b].keyed
           /\ r.reauth = rt[b].reauth /\ r.spent = rt[b].spent
           /\ r.aggressive = rt[b].aggressive
           /\ Up(b) => Goes(b, r)
           /\ Up(b) /\ r.cmd \in KeyCommands => r.todo = "broker_shutdown"
<1> DEFINE o == rt[b]
           todo == IF o.todo = "any" /\ op = "reconcile" THEN "recover" ELSE After(o.cmd, op)
           r == [o EXCEPT !.todo = todo]
<1>1. o \in Runtime /\ o.cmd \in AllCommands /\ Local(o)
  BY AtBroker DEF Runtime
<1>2. todo \in Ops
  BY <1>1, AfterScript DEF Ops
<1>3. /\ o.life = "up" /\ o.cmd \notin Guarded => todo \in Script
      /\ o.life = "up" /\ o.cmd \in KeyCommands => todo = "broker_shutdown"
      /\ todo \notin {"publish_backup", "prove"}
  <2>1. CASE o.todo = "any" /\ op = "reconcile"
    BY <1>1, <2>1 DEF Local, Script, KeyCommands, Guarded
  <2>2. CASE ~(o.todo = "any" /\ op = "reconcile")
    BY <1>1, <2>2, AfterScript
  <2> QED BY <2>1, <2>2
<1>4. Begun(b, op) = r
  BY DEF Begun
<1> HIDE DEF o, todo
<1>5. /\ r \in Runtime
      /\ r.life = o.life /\ r.cmd = o.cmd /\ r.pc = o.pc
      /\ r.sess = o.sess /\ r.st = o.st /\ r.keyed = o.keyed
      /\ r.reauth = o.reauth /\ r.spent = o.spent /\ r.todo = todo
      /\ r.aggressive = o.aggressive
  BY <1>1, <1>2 DEF Runtime
<1> HIDE DEF r
<1> QED BY <1>3, <1>4, <1>5 DEF o, Up, Goes

-----------------------------------------------------------------------------
\* Processes.

\* A process that was not started.
LEMMA NewFits ==
    /\ NewRuntime \in Runtime
    /\ NewRuntime.life = "new" /\ NewRuntime.sess = "none" /\ NewRuntime.pc = "idle"
<1>1. NoRow \in Row
  BY DEF NoRow, Row, States
<1> QED BY <1>1 DEF NewRuntime, Runtime, AllCommands, Ops, States

\* A process that ended has no secret and no operation.
LEMMA GoneFits ==
    ASSUME NEW r \in Runtime
    PROVE  /\ Gone(r) \in Runtime /\ Local(Gone(r))
           /\ Gone(r).life = "gone" /\ Gone(r).pc = "idle"
<1> DEFINE q == [NewRuntime EXCEPT !.life = "gone", !.st = r.st, !.mem = r.mem]
<1>1. r.st \in States /\ r.mem \in Row
  BY DEF Runtime
<1>2. /\ q \in Runtime
      /\ q.life = "gone" /\ q.pc = "idle" /\ q.sess = "none"
  BY <1>1, NewFits DEF Runtime
<1>3. Gone(r) = q
  BY DEF Gone
<1> HIDE DEF q
<1>4. Local(q)
  BY <1>2 DEF Local
<1> QED BY <1>2, <1>3, <1>4

\* A step that may end its process and release the mutex.
LEMMA Leaves ==
    ASSUME IInv, NEW b \in Broker, Up(b), NEW r \in Runtime,
           Keep(b, r) \/ Persist(b, r), Release(b),
           vault' \in VaultStates, UNCHANGED app,
           r.life = "gone" \/ (r.life = "up" /\ r.cmd = rt[b].cmd),
           Local(r), r.pc \notin Busy
    PROVE  IInv'
<1>1. rt'[b].life = r.life
  <2>1. CASE Keep(b, r)
    BY <2>1 DEF Keep, IInv, TypeOK
  <2>2. CASE Persist(b, r)
    <3>1. PICK m \in Row : rt' = [rt EXCEPT ![b] = [r EXCEPT !.mem = m]]
      BY <2>2, PersistMoves DEF IInv
    <3> QED BY <3>1, MemUpdate DEF IInv, TypeOK
  <2> QED BY <2>1, <2>2
<1>2. /\ r.life = "up" /\ r.cmd \in Guarded => guard' = b
      /\ r.life = "up" /\ app' = b => guard' = b
  BY <1>1, AtBroker DEF Shared, Up, Release
<1>3. /\ guard' \in Broker \cup {NoBroker}
      /\ \A c \in Broker \ {b} : guard = c => guard' = c
  BY DEF Release, IInv, TypeOK
<1> QED BY <1>2, <1>3, Preserves

\* The end of a process.
LEMMA ExitStep ==
    ASSUME IInv, NEW b \in Broker, Exit(b) \/ Crash(b)
    PROVE  IInv'
<1>1. /\ Up(b) /\ Keep(b, Gone(rt[b])) /\ Release(b)
      /\ vault' = vault /\ UNCHANGED app
  BY DEF Exit, Crash, May
<1>2. Gone(rt[b]).pc \notin Busy
  BY AtBroker, GoneFits DEF Busy
<1> QED BY <1>1, <1>2, AtBroker, GoneFits, Leaves

\* The end of all of them.
LEMMA RebootStep ==
    ASSUME IInv, Reboot
    PROVE  IInv'
<1>1. \A b \in Broker : /\ rt'[b] \in Runtime /\ Local(rt'[b])
                        /\ rt'[b].life # "up" /\ rt'[b].pc = "idle"
  <2> TAKE b \in Broker
  <2>1. rt'[b] = IF Up(b) THEN Gone(rt[b]) ELSE rt[b]
    BY DEF Reboot
  <2> QED BY <2>1, AtBroker, GoneFits DEF Up, Local, Asking
<1>2. rt' \in [Broker -> Runtime]
  BY <1>1 DEF Reboot
<1>3. TypeOK'
  BY <1>2 DEF Reboot, IInv, TypeOK, VaultStates
<1>4. \A b \in Broker : Shared(b)'
  BY <1>1, ConstantsOK DEF Shared, Up, Busy, Reboot
<1> QED BY <1>1, <1>3, <1>4 DEF IInv, Local

\* A start: the mutex is free, or the command does not take it.
LEMMA StartStep ==
    ASSUME IInv, NEW b \in Broker, NEW c \in Commands, Start(b, c)
    PROVE  IInv'
<1>1. PICK row \in {disk} \cup {NoRow} :
        rt' = [rt EXCEPT ![b] = [rt[b] EXCEPT !.life = "up", !.cmd = c,
                                              !.todo = First(c), !.mem = row]]
  BY DEF Start
<1> DEFINE first == First(c)
           o == rt[b]
           q == [o EXCEPT !.life = "up", !.cmd = c, !.todo = first, !.mem = row]
<1>2. row \in Row /\ c \in AllCommands
  BY NewFits, ConstantsOK DEF IInv, TypeOK, Runtime, NewRuntime, NoRow, Row, States
<1>3. /\ first \in Ops /\ (c \notin Guarded => first \in Script)
      /\ c \notin Guarded /\ first \in {"publish_backup", "prove"} => c \in KeyCommands
  BY <1>2, AfterScript
<1>4. o \in Runtime /\ Local(o) /\ Shared(b) /\ o.life = "new"
  BY AtBroker DEF Start
<1>5. rt' = [rt EXCEPT ![b] = q]
  BY <1>1
<1> HIDE DEF first, o
<1>6. /\ q \in Runtime
      /\ q.life = "up" /\ q.cmd = c /\ q.todo = first
      /\ q.pc = o.pc /\ q.sess = o.sess
  BY <1>2, <1>3, <1>4 DEF Runtime
<1> HIDE DEF q
<1>7. Local(q) /\ q.pc \notin Busy
  BY <1>3, <1>4, <1>6 DEF Local, Touching, Busy, Asking
<1>8. rt'[b] = q /\ \A d \in Broker \ {b} : rt'[d] = rt[d]
  BY <1>5 DEF IInv, TypeOK
<1>9. TypeOK'
  BY <1>5, <1>6 DEF IInv, TypeOK, Start
<1>10. \A d \in Broker : Local(rt[d])'
  BY <1>7, <1>8 DEF IInv, Local
<1>11. \A d \in Broker : Shared(d)'
  <2> TAKE d \in Broker
  <2>1. CASE d = b
    BY <2>1, <1>4, <1>6, <1>7, <1>8 DEF Shared, Start, o
  <2>2. CASE d # b
    BY <2>2, <1>8, ConstantsOK DEF IInv, Shared, Start, Up
  <2> QED BY <2>1, <2>2
<1> QED BY <1>9, <1>10, <1>11 DEF IInv

-----------------------------------------------------------------------------
\* The clocks.

\* The session's clocks do not touch its secret.
LEMMA SessionStep ==
    ASSUME IInv, NEW b \in Broker, SessionIdles(b) \/ SessionAges(b)
    PROVE  IInv'
<1> DEFINE o == rt[b]
<1>1. PICK s \in {"idle", "aged"} :
        /\ Up(b) /\ o.sess # "none" /\ Keep(b, [o EXCEPT !.sess = s])
        /\ vault' = vault /\ app' = app /\ guard' = guard
  BY DEF SessionIdles, SessionAges
<1> DEFINE r == [o EXCEPT !.sess = s]
<1>2. o \in Runtime /\ Local(o) /\ Shared(b) /\ vault \in VaultStates
  BY AtBroker
<1> HIDE DEF o
<1>3. /\ r \in Runtime /\ r.sess = s
      /\ r.life = o.life /\ r.cmd = o.cmd /\ r.todo = o.todo /\ r.pc = o.pc
      /\ r.keyed = o.keyed /\ r.reauth = o.reauth
      /\ r.aggressive = o.aggressive /\ r.spent = o.spent
  BY <1>1, <1>2 DEF Runtime
<1>4. Keep(b, r)
  BY <1>1
<1> HIDE DEF r
<1>5. Local(r) /\ r.life = "up" /\ (r.pc \in Busy => app # b)
  BY <1>1, <1>2, <1>3 DEF Local, Shared, Up, o
<1> QED BY <1>1, <1>2, <1>3, <1>4, <1>5, Stays DEF o

\* Activity does not bring a secret back.
LEMMA RefreshStep ==
    ASSUME IInv, NEW b \in Broker, PollForeground(b) \/ NoteInteraction(b)
    PROVE  IInv'
<1> DEFINE o == rt[b]
           s == Refreshed(o.sess)
           r == [o EXCEPT !.sess = s]
<1>1. /\ Up(b) /\ o.pc = "idle" /\ Keep(b, r)
      /\ vault' = vault /\ app' = app /\ guard' = guard
  BY DEF PollForeground, NoteInteraction, May
<1>2. o \in Runtime /\ Local(o) /\ vault \in VaultStates
  BY AtBroker
<1>3. s \in {"none", "fresh", "idle", "aged"} /\ (s # "none" => o.sess # "none")
  BY <1>2 DEF Refreshed, Runtime
<1> HIDE DEF o, s
<1>4. /\ r \in Runtime /\ r.sess = s
      /\ r.life = o.life /\ r.cmd = o.cmd /\ r.todo = o.todo /\ r.pc = o.pc
      /\ r.keyed = o.keyed /\ r.reauth = o.reauth
  BY <1>2, <1>3 DEF Runtime
<1> HIDE DEF r
<1>5. /\ r.life = "up" /\ Goes(b, r)
      /\ (r.sess # "none" => o.sess # "none" /\ (r.keyed \/ r.reauth))
  BY <1>1, <1>2, <1>3, <1>4 DEF Local, Goes, Up, o
<1> QED BY <1>1, <1>2, <1>4, <1>5, Settles DEF o

\* A runtime b may move to if it is at none of the waits of Touching and Busy.
Kept(b, r) ==
    /\ r \in Runtime
    /\ r.life = "up" /\ r.cmd = rt[b].cmd
    /\ Goes(b, r)
    /\ r.sess # "none" => rt[b].sess # "none" /\ (r.keyed \/ r.reauth)

Calm(b, r) == Kept(b, r) /\ r.pc \in {"idle", "tick", "close"}

\* A calm step preserves the invariant.
LEMMA CalmStep ==
    ASSUME IInv, NEW b \in Broker, Up(b), NEW r, Calm(b, r),
           Keep(b, r) \/ Persist(b, r),
           vault' \in VaultStates, app' \in {app, NoBroker}, UNCHANGED guard
    PROVE  IInv'
  BY Settles DEF Calm, Kept

\* A calm step that releases the mutex when its process ends.
LEMMA CalmLeaves ==
    ASSUME IInv, NEW b \in Broker, Up(b), NEW r, Calm(b, r),
           Keep(b, r) \/ Persist(b, r), Release(b),
           vault' \in VaultStates, UNCHANGED app
    PROVE  IInv'
<1>1. Local(r) /\ r.pc \notin Busy
  BY AtBroker DEF Calm, Kept, Goes, Local, Up, Touching, Busy, Asking
<1> QED BY <1>1, Leaves DEF Calm, Kept

\* A broker at rest, in a tick or at a close is calm.
LEMMA CalmOwn ==
    ASSUME IInv, NEW b \in Broker, Up(b), rt[b].pc \in {"idle", "tick", "close"}
    PROVE  Calm(b, rt[b])
  BY AtBroker DEF Calm, Kept, Goes, Local, Up

\* It is calm at the start of an operation.
LEMMA CalmBegun ==
    ASSUME IInv, NEW b \in Broker, NEW op \in Ops, May(b, op)
    PROVE  Calm(b, Begun(b, op))
<1> DEFINE o == Begun(b, op)
<1>1. Up(b) /\ rt[b].pc = "idle"
  BY DEF May
<1>2. /\ o \in Runtime /\ o.life = rt[b].life /\ o.cmd = rt[b].cmd /\ o.pc = rt[b].pc
      /\ o.sess = rt[b].sess /\ o.keyed = rt[b].keyed /\ o.reauth = rt[b].reauth
      /\ Goes(b, o)
  BY <1>1, BegunFits
<1> HIDE DEF o
<1>3. Calm(b, o)
  BY <1>1, <1>2, AtBroker DEF Calm, Kept, Local, Up
<1> QED BY <1>3 DEF o

\* What is reported and remembered does not disturb the calm.
LEMMA CalmReports ==
    ASSUME NEW b \in Broker, NEW r, Calm(b, r),
           NEW st \in States, NEW f \in BOOLEAN
    PROVE  /\ Calm(b, [r EXCEPT !.st = st])
           /\ Calm(b, [r EXCEPT !.started = TRUE])
           /\ Calm(b, [r EXCEPT !.st = st, !.started = f])
           /\ Calm(b, [r EXCEPT !.st = st, !.owed = TRUE])
           /\ Calm(b, [r EXCEPT !.st = st, !.owed = FALSE])
           /\ Calm(b, [r EXCEPT !.owed = FALSE, !.st = st])
           /\ Calm(b, [r EXCEPT !.backup = f])
           /\ Calm(b, [r EXCEPT !.aggressive = f])
           /\ Calm(b, [r EXCEPT !.down = TRUE])
<1>1. r \in Runtime
  BY DEF Calm, Kept
<1> DEFINE q1 == [r EXCEPT !.st = st]
           q2 == [r EXCEPT !.started = TRUE]
           q3 == [r EXCEPT !.st = st, !.started = f]
           q4 == [r EXCEPT !.st = st, !.owed = TRUE]
           q5 == [r EXCEPT !.st = st, !.owed = FALSE]
           q6 == [r EXCEPT !.owed = FALSE, !.st = st]
           q7 == [r EXCEPT !.backup = f]
           q8 == [r EXCEPT !.aggressive = f]
           q9 == [r EXCEPT !.down = TRUE]
           Same(q) == /\ q \in Runtime
                      /\ q.life = r.life /\ q.cmd = r.cmd /\ q.todo = r.todo
                      /\ q.pc = r.pc /\ q.sess = r.sess
                      /\ q.keyed = r.keyed /\ q.reauth = r.reauth
<1>2. Same(q1) /\ Same(q2) /\ Same(q7) /\ Same(q8) /\ Same(q9)
  BY <1>1 DEF Runtime
<1>3. Same(q3) /\ Same(q4) /\ Same(q5) /\ Same(q6)
  BY <1>1 DEF Runtime
<1> HIDE DEF q1, q2, q3, q4, q5, q6, q7, q8, q9
<1>4. \A q : Same(q) => Calm(b, q)
  BY DEF Calm, Kept, Goes
<1> HIDE DEF Same
<1>5. Calm(b, q1) /\ Calm(b, q2) /\ Calm(b, q3) /\ Calm(b, q4) /\ Calm(b, q5)
      /\ Calm(b, q6) /\ Calm(b, q7) /\ Calm(b, q8) /\ Calm(b, q9)
  BY <1>2, <1>3, <1>4
<1> QED BY <1>5 DEF q1, q2, q3, q4, q5, q6, q7, q8, q9

\* Neither does a wait that touches no key and no volume.
LEMMA CalmWaits ==
    ASSUME NEW b \in Broker, NEW r, Calm(b, r),
           NEW st \in States, NEW p \in {"idle", "tick", "close"},
           NEW why \in Events \cup {"none", "idle", "recovery", "launch_failed"}
    PROVE  /\ Calm(b, [r EXCEPT !.pc = p])
           /\ Calm(b, [r EXCEPT !.st = st, !.pc = p])
           /\ Calm(b, Locking(r, why))
<1>1. r \in Runtime /\ "LOCKING" \in States
  BY DEF Calm, Kept, States
<1> DEFINE q1 == [r EXCEPT !.pc = p]
           q2 == [r EXCEPT !.st = st, !.pc = p]
           q3 == [r EXCEPT !.st = "LOCKING", !.pc = "close", !.why = why]
           Same(q) == /\ q \in Runtime
                      /\ q.life = r.life /\ q.cmd = r.cmd /\ q.todo = r.todo
                      /\ q.pc \in {"idle", "tick", "close"} /\ q.sess = r.sess
                      /\ q.keyed = r.keyed /\ q.reauth = r.reauth
<1>2. Same(q1) /\ Same(q2)
  BY <1>1 DEF Runtime
<1>3. Same(q3)
  BY <1>1 DEF Runtime
<1>4. Locking(r, why) = q3
  BY DEF Locking
<1> HIDE DEF q1, q2, q3
<1>5. \A q : Same(q) => Calm(b, q)
  BY DEF Calm, Kept, Goes
<1> HIDE DEF Same
<1>6. Calm(b, q1) /\ Calm(b, q2) /\ Calm(b, q3)
  BY <1>2, <1>3, <1>5
<1> QED BY <1>4, <1>6 DEF q1, q2

\* Neither does a dropped secret.
LEMMA CalmForgets ==
    ASSUME NEW b \in Broker, NEW r, Calm(b, r),
           NEW st \in States, NEW p \in {"idle", "tick", "close"}
    PROVE  /\ Calm(b, [r EXCEPT !.sess = "none"])
           /\ Calm(b, [r EXCEPT !.sess = "none", !.pc = p])
           /\ Calm(b, [r EXCEPT !.st = st, !.sess = "none"])
           /\ Calm(b, [r EXCEPT !.st = st, !.sess = "none", !.pc = p])
<1>1. r \in Runtime
  BY DEF Calm, Kept
<1> DEFINE q1 == [r EXCEPT !.sess = "none"]
           q2 == [r EXCEPT !.sess = "none", !.pc = p]
           q3 == [r EXCEPT !.st = st, !.sess = "none"]
           q4 == [r EXCEPT !.st = st, !.sess = "none", !.pc = p]
           Same(q) == /\ q \in Runtime
                      /\ q.life = r.life /\ q.cmd = r.cmd /\ q.todo = r.todo
                      /\ q.pc \in {"idle", "tick", "close"} /\ q.sess = "none"
<1>2. r.pc \in {"idle", "tick", "close"}
  BY DEF Calm, Kept
<1>3. Same(q1) /\ Same(q2)
  BY <1>1, <1>2 DEF Runtime
<1>4. Same(q3) /\ Same(q4)
  BY <1>1, <1>2 DEF Runtime
<1> HIDE DEF q1, q2, q3, q4
<1>5. \A q : Same(q) => Calm(b, q)
  BY DEF Calm, Kept, Goes
<1> HIDE DEF Same
<1>6. Calm(b, q1) /\ Calm(b, q2) /\ Calm(b, q3) /\ Calm(b, q4)
  BY <1>3, <1>4, <1>5
<1> QED BY <1>6 DEF q1, q2, q3, q4

\* Neither does sa_cli open that gives up.
LEMMA CalmGivenUp ==
    ASSUME NEW b \in Broker, NEW r, Calm(b, r)
    PROVE  Calm(b, GivenUp(r))
<1> DEFINE q == [r EXCEPT !.todo = "broker_shutdown"]
<1>1. r \in Runtime
  BY DEF Calm, Kept
<1>2. /\ q \in Runtime /\ q.todo = "broker_shutdown"
      /\ q.life = r.life /\ q.cmd = r.cmd /\ q.pc = r.pc /\ q.sess = r.sess
      /\ q.keyed = r.keyed /\ q.reauth = r.reauth
  BY <1>1 DEF Runtime, Ops, GuiOps, Events, FlaggedEvents
<1> HIDE DEF q
<1>3. Calm(b, q)
  BY <1>2 DEF Calm, Kept, Goes, Script
<1> QED BY <1>3 DEF GivenUp, q

\* Neither does the answer of _ensure_detached.
LEMMA CalmDetached ==
    ASSUME NEW b \in Broker, NEW r, Calm(b, r), NEW ok
    PROVE  Calm(b, Detached(r, ok))
  BY CalmReports DEF Detached, States

\* _ensure_detached leaves a container state.
LEMMA DetachLeaves ==
    ASSUME IInv, NEW d \in DetachOutcomes(vault)
    PROVE  d.left \in VaultStates
  BY DEF IInv, TypeOK, DetachOutcomes, VaultStates

-----------------------------------------------------------------------------
\* Reconcile, recover, open.

\* The tail of a lock: a broker that is calm, or a process that ended.  An
\* ending event forgets the touch and demands the key in one step.
LEMMA CalmLocked ==
    ASSUME NEW b \in Broker, NEW r, Kept(b, r), NEW ok
    PROVE  \/ Calm(b, Locked(r, ok))
           \/ \E q \in Runtime : Locked(r, ok) = Gone(q)
<1> DEFINE reauth == r.reauth \/ r.why \in Ending
           keyed == r.keyed /\ r.why \notin Ending
           st == IF ok /\ reauth /\ r.why \in Events THEN "AUTH_REQUIRED" ELSE r.st
           q == [r EXCEPT !.pc = "idle", !.why = "none", !.reauth = reauth,
                          !.keyed = keyed, !.st = st]
<1>1. r \in Runtime
  BY DEF Calm, Kept
<1>2. reauth \in BOOLEAN /\ keyed \in BOOLEAN /\ st \in States
  BY <1>1 DEF Runtime, States
<1>3. r.keyed \/ r.reauth => keyed \/ reauth
  OBVIOUS
<1>4. Locked(r, ok) = q \/ Locked(r, ok) = Gone(q)
  BY DEF Locked
<1> HIDE DEF reauth, keyed, st
<1>5. q \in Runtime
  BY <1>1, <1>2 DEF Runtime
<1>6. /\ q.life = r.life /\ q.cmd = r.cmd /\ q.todo = r.todo /\ q.pc = "idle"
      /\ q.sess = r.sess /\ q.keyed = keyed /\ q.reauth = reauth
  BY <1>1, <1>2 DEF Runtime
<1> HIDE DEF q
<1>7. Calm(b, q)
  BY <1>3, <1>5, <1>6 DEF Calm, Kept, Goes
<1> QED BY <1>4, <1>5, <1>7

\* A lock sequence that ends, however it ends, preserves the invariant.
LEMMA LockedStep ==
    ASSUME IInv, NEW b \in Broker, Up(b), NEW r, Kept(b, r), NEW ok,
           Persist(b, Locked(r, ok)), Release(b),
           vault' \in VaultStates, UNCHANGED app
    PROVE  IInv'
<1>1. CASE Calm(b, Locked(r, ok))
  BY <1>1, CalmLeaves
<1>2. CASE \E q \in Runtime : Locked(r, ok) = Gone(q)
  <2>1. PICK q \in Runtime : Locked(r, ok) = Gone(q)
    BY <1>2
  <2>2. Gone(q).pc \notin Busy
    BY GoneFits DEF Busy
  <2> QED BY <2>1, <2>2, GoneFits, Leaves
<1> QED BY <1>1, <1>2, CalmLocked

\* reconcile, with an answer of the backend or without.
LEMMA ReconcileStep ==
    ASSUME IInv, NEW b \in Broker, Reconcile(b) \/ ReconcileFails(b)
    PROVE  IInv'
<1> DEFINE r0 == Begun(b, "reconcile")
           verdict == Verdict(b, rt[b].mem)
           r == [r0 EXCEPT !.started = TRUE]
<1>1. /\ May(b, "reconcile") /\ Up(b) /\ vault' = vault /\ UNCHANGED app /\ UNCHANGED guard
      /\ vault \in VaultStates
  BY AtBroker DEF Reconcile, ReconcileFails, May
<1>2. Calm(b, r0)
  BY <1>1, CalmBegun DEF Ops, GuiOps
<1>3. CASE ReconcileFails(b)
  <2>1. rt[b].started \in BOOLEAN
    BY AtBroker DEF Runtime
  <2>2. PICK f \in {rt[b].started, TRUE} : Persist(b, [r0 EXCEPT !.st = "ERROR", !.started = f])
    BY <1>3, Zenon DEF ReconcileFails
  <2>3. f \in BOOLEAN
    BY <2>1
  <2> HIDE DEF r0
  <2>4. Calm(b, [r0 EXCEPT !.st = "ERROR", !.started = f])
    BY <1>2, <2>3, CalmReports DEF States
  <2> QED BY <1>1, <2>2, <2>4, CalmStep
<1>4. CASE Reconcile(b)
  <2>1. verdict \in States
    <3>1. rt[b].mem \in Row
      BY AtBroker DEF Runtime
    <3> QED BY <3>1 DEF Verdict, States, Row
  <2>2. Calm(b, r)
    <3> HIDE DEF r0
    <3> QED BY <1>2, CalmReports DEF States
  <2>3. PICK st \in States :
          \/ Persist(b, [r EXCEPT !.st = st])
          \/ Persist(b, [r EXCEPT !.st = st, !.owed = TRUE])
          \/ Persist(b, [r EXCEPT !.owed = FALSE, !.st = st])
          \/ Keep(b, [r EXCEPT !.st = st])
          \/ Keep(b, r)
    <3>1. CASE vault = "missing"
      BY <1>4, <3>1, Zenon DEF Reconcile, States
    <3>2. CASE vault # "missing" /\ verdict = "RECOVERY_REQUIRED"
      BY <1>4, <2>1, <3>2, Zenon DEF Reconcile
    <3>3. CASE vault # "missing" /\ verdict = "LOCKED" /\ ~Running(b)
      BY <1>4, <2>1, <3>3, Zenon DEF Reconcile, States
    <3> QED
      BY <1>4, <2>1, <3>1, <3>2, <3>3, Zenon DEF Reconcile
  <2> HIDE DEF r
  <2>4. /\ Calm(b, [r EXCEPT !.st = st])
        /\ Calm(b, [r EXCEPT !.st = st, !.owed = TRUE])
        /\ Calm(b, [r EXCEPT !.owed = FALSE, !.st = st])
    BY <2>2, CalmReports
  <2> QED BY <1>1, <2>2, <2>3, <2>4, CalmStep
<1> QED BY <1>3, <1>4

\* recover.
LEMMA RecoverStep ==
    ASSUME IInv, NEW b \in Broker, Recover(b)
    PROVE  IInv'
<1> DEFINE r0 == Begun(b, "recover")
<1>1. /\ May(b, "recover") /\ Up(b) /\ vault' = vault /\ UNCHANGED app /\ UNCHANGED guard
      /\ vault \in VaultStates
      /\ Persist(b, Locking(r0, "recovery")) \/ Keep(b, r0)
  BY AtBroker DEF Recover, May
<1>2. Calm(b, r0)
  BY <1>1, CalmBegun DEF Ops
<1> HIDE DEF r0
<1>3. Calm(b, Locking(r0, "recovery"))
  BY <1>2, CalmWaits DEF States
<1> QED BY <1>1, <1>2, <1>3, CalmStep

\* Only a guarded command is ever at an operation outside the scripts.
LEMMA MayGuarded ==
    ASSUME IInv, NEW b \in Broker, NEW op, op \notin Script, May(b, op)
    PROVE  Up(b) /\ rt[b].pc = "idle" /\ rt[b].cmd \in Guarded
<1>1. Up(b) /\ rt[b].pc = "idle" /\ (rt[b].todo \in {"any", "supervise"} \/ op = rt[b].todo)
  BY DEF May
<1> QED BY <1>1, AtBroker DEF Local, Up, Script

\* A command without the mutex that publishes or proves is one that may ask for
\* the key.
LEMMA PublishersAreKeyed ==
    ASSUME IInv, NEW b \in Broker, NEW op \in {"publish_backup", "prove"}, May(b, op)
    PROVE  rt[b].cmd \notin Guarded => rt[b].cmd \in KeyCommands
<1>1. Up(b) /\ (rt[b].todo \in {"any", "supervise"} \/ op = rt[b].todo)
  BY DEF May
<1> QED BY <1>1, AtBroker DEF Local, Up, Script

\* open where it changes next to nothing.
LEMMA OpenQuietStep ==
    ASSUME IInv, NEW b \in Broker,
           OpenRefused(b) \/ OpenWhileRunning(b) \/ OpenStartFails(b)
    PROVE  IInv'
<1> DEFINE r0 == Begun(b, "open")
<1>1. /\ May(b, "open") /\ Up(b) /\ vault' = vault /\ UNCHANGED app /\ UNCHANGED guard
      /\ vault \in VaultStates
  BY AtBroker DEF OpenRefused, OpenWhileRunning, OpenStartFails, May
<1>2. Calm(b, r0)
  BY <1>1, CalmBegun DEF Ops, GuiOps
<1>3. CASE OpenRefused(b)
  BY <1>1, <1>2, <1>3, CalmGivenUp, CalmStep DEF OpenRefused
<1>4. CASE OpenStartFails(b)
  <2>1. Persist(b, GivenUp([r0 EXCEPT !.st = "ERROR"]))
    BY <1>4 DEF OpenStartFails
  <2> HIDE DEF r0
  <2>2. Calm(b, [r0 EXCEPT !.st = "ERROR"])
    BY <1>2, CalmReports DEF States
  <2> QED BY <1>1, <2>1, <2>2, CalmGivenUp, CalmStep
<1>5. CASE OpenWhileRunning(b)
  <2> DEFINE s == Refreshed(r0.sess)
             r == [r0 EXCEPT !.sess = s]
  <2>1. Keep(b, r)
    BY <1>5 DEF OpenWhileRunning
  <2>2. r0 \in Runtime /\ s \in {"none", "fresh", "idle", "aged"} /\ (s # "none" => r0.sess # "none")
    BY <1>2 DEF Calm, Kept, Refreshed, Runtime
  <2> HIDE DEF r0, s
  <2>3. /\ r \in Runtime /\ r.sess = s
        /\ r.life = r0.life /\ r.cmd = r0.cmd /\ r.todo = r0.todo /\ r.pc = r0.pc
        /\ r.keyed = r0.keyed /\ r.reauth = r0.reauth
    BY <2>2 DEF Runtime
  <2> HIDE DEF r
  <2>4. Calm(b, r)
    BY <1>2, <2>2, <2>3 DEF Calm, Kept, Goes
  <2> QED BY <1>1, <2>1, <2>4, CalmStep
<1> QED BY <1>3, <1>4, <1>5

\* In aggressive mode, or under a demand for the key, no secret is reused.
LEMMA OpenWithSessionStep ==
    ASSUME IInv, NEW b \in Broker, OpenWithSession(b)
    PROVE  IInv'
<1> DEFINE r0 == Begun(b, "open")
           r == [r0 EXCEPT !.started = TRUE, !.st = "UNLOCKING", !.pc = "unlock"]
<1>1. /\ May(b, "open") /\ vault' = vault /\ app' = app /\ guard' = guard
      /\ ~Running(b) /\ ~NeedsKey(b, FALSE) /\ Persist(b, r)
  BY DEF OpenWithSession
<1>2. /\ Up(b) /\ rt[b].pc = "idle" /\ rt[b].cmd \in Guarded
      /\ rt[b].sess = "fresh" /\ ~rt[b].reauth /\ ~rt[b].aggressive /\ app # b
  BY <1>1, MayGuarded DEF NeedsKey, SessionValid, Running, Script
<1>3. /\ r0 \in Runtime /\ r0.life = rt[b].life /\ r0.cmd = rt[b].cmd
      /\ r0.sess = rt[b].sess /\ r0.keyed = rt[b].keyed /\ r0.reauth = rt[b].reauth
      /\ r0.aggressive = rt[b].aggressive
  BY BegunFits DEF Ops, GuiOps
<1> HIDE DEF r0
<1>4. /\ r \in Runtime /\ r.life = r0.life /\ r.cmd = r0.cmd /\ r.pc = "unlock"
      /\ r.sess = r0.sess /\ r.keyed = r0.keyed /\ r.reauth = r0.reauth
      /\ r.aggressive = r0.aggressive
  BY <1>3 DEF Runtime, States
<1> HIDE DEF r
<1>5. Local(r)
  BY <1>2, <1>3, <1>4, AtBroker DEF Local, Up
<1> QED BY <1>1, <1>2, <1>3, <1>4, <1>5, AtBroker, Stays DEF Up

\* _authenticate drops the secret before it waits for the key.
LEMMA AuthenticatingStep ==
    ASSUME IInv, NEW b \in Broker, Up(b), rt[b].cmd \in Guarded,
           NEW r0 \in Runtime, r0.life = "up", r0.cmd = rt[b].cmd,
           NEW pc \in {"auth_open", "auth_only"}, pc = "auth_open" => app # b,
           Persist(b, Authenticating(r0, pc)),
           vault' = vault, app' = app, guard' = guard
    PROVE  IInv'
<1> DEFINE r == [r0 EXCEPT !.st = "AUTHENTICATING", !.sess = "none", !.pc = pc]
<1>1. Persist(b, r)
  BY DEF Authenticating
<1>2. /\ r \in Runtime /\ r.life = r0.life /\ r.cmd = r0.cmd /\ r.pc = pc
      /\ r.sess = "none"
  BY Words DEF Runtime
<1> HIDE DEF r
<1>3. Local(r) /\ (r.pc \in Busy => app # b)
  BY <1>2 DEF Local, Busy
<1> QED BY <1>1, <1>2, <1>3, AtBroker, Stays

\* open with a key interaction.
LEMMA OpenNeedsKeyStep ==
    ASSUME IInv, NEW b \in Broker, NEW force, OpenNeedsKey(b, force)
    PROVE  IInv'
<1> DEFINE o == Begun(b, "open")
           r0 == [o EXCEPT !.started = TRUE]
<1>1. /\ May(b, "open") /\ vault' = vault /\ app' = app /\ guard' = guard
      /\ app # b /\ Persist(b, Authenticating(r0, "auth_open"))
  BY DEF OpenNeedsKey, Running
<1>2. Up(b) /\ rt[b].cmd \in Guarded
  BY <1>1, MayGuarded DEF Script
<1>3. o \in Runtime /\ o.life = "up" /\ o.cmd = rt[b].cmd
  BY <1>2, BegunFits DEF Ops, GuiOps, Up
<1> HIDE DEF o
<1>4. r0 \in Runtime /\ r0.life = "up" /\ r0.cmd = rt[b].cmd
  BY <1>3 DEF Runtime
<1> HIDE DEF r0
<1> QED BY <1>1, <1>2, <1>4, AuthenticatingStep

\* The key interaction of a migration.
LEMMA AuthenticateOnlyStep ==
    ASSUME IInv, NEW b \in Broker, NEW force, AuthenticateOnly(b, force)
    PROVE  IInv'
<1>1. /\ May(b, "authenticate_only") /\ vault' = vault /\ app' = app /\ guard' = guard
      /\ Keep(b, rt[b]) \/ Persist(b, Authenticating(rt[b], "auth_only"))
  BY DEF AuthenticateOnly
<1>2. Up(b) /\ rt[b].pc = "idle" /\ rt[b].cmd \in Guarded
  BY <1>1, MayGuarded DEF Script
<1>3. CASE Keep(b, rt[b])
  BY <1>1, <1>2, <1>3, AtBroker, CalmOwn, CalmStep
<1>4. CASE Persist(b, Authenticating(rt[b], "auth_only"))
  BY <1>1, <1>2, <1>4, AtBroker, AuthenticatingStep DEF Up
<1> QED BY <1>1, <1>3, <1>4

\* A provider that cannot be built.
LEMMA ProviderRefusedStep ==
    ASSUME IInv, NEW b \in Broker, NEW st \in {"AUTH_REQUIRED", "ERROR"}, NEW force,
           ProviderRefused(b, st, force)
    PROVE  IInv'
<1> DEFINE r0 == Begun(b, "open")
<1>1. /\ May(b, "open") \/ May(b, "authenticate_only")
      /\ vault' = vault /\ app' = app /\ guard' = guard
      /\ Persist(b, GivenUp([r0 EXCEPT !.st = st]))
  BY DEF ProviderRefused
<1>2. Up(b) /\ rt[b].pc = "idle" /\ rt[b].cmd \in Guarded
  BY <1>1, MayGuarded DEF Script
<1>3. Calm(b, r0)
  <2>1. /\ r0 \in Runtime /\ r0.life = "up" /\ r0.cmd = rt[b].cmd /\ r0.pc = "idle"
        /\ r0.sess = rt[b].sess /\ r0.keyed = rt[b].keyed /\ r0.reauth = rt[b].reauth
    BY <1>2, BegunFits DEF Ops, GuiOps, Up
  <2> HIDE DEF r0
  <2> QED BY <1>2, <2>1, AtBroker DEF Calm, Kept, Goes, Local
<1> HIDE DEF r0
<1>4. Calm(b, [r0 EXCEPT !.st = st])
  BY <1>3, CalmReports DEF States
<1> QED BY <1>1, <1>2, <1>4, AtBroker, CalmGivenUp, CalmStep

\* Where a broker stands that waits for the key, the volume or the launch.
LEMMA AtTouch ==
    ASSUME IInv, NEW b \in Broker, Up(b), rt[b].pc \in Touching
    PROVE  /\ rt[b] \in Runtime /\ rt[b].cmd \in Guarded /\ vault \in VaultStates
           /\ rt[b].pc # "auth_only" => app # b
  BY AtBroker DEF Local, Shared, Up, Touching, Busy

\* A touch pays for the secret, settles the demand and starts a new mount.
LEMMA KeyTouchedStep ==
    ASSUME IInv, NEW b \in Broker, KeyTouched(b)
    PROVE  IInv'
<1> DEFINE o == rt[b]
           r0 == [o EXCEPT !.sess = "fresh", !.reauth = FALSE, !.keyed = TRUE, !.spent = FALSE]
           q1 == [r0 EXCEPT !.st = "UNLOCKING", !.pc = "unlock"]
           q2 == [r0 EXCEPT !.st = "SESSION_CACHED", !.pc = "idle"]
           q3 == [r0 EXCEPT !.pc = "publish"]
<1>1. /\ Up(b) /\ o.pc \in {"auth_open", "auth_only", "auth_backup"}
      /\ vault' = vault /\ app' = app /\ guard' = guard
      /\ \/ o.pc = "auth_open" /\ Persist(b, q1)
         \/ o.pc = "auth_only" /\ Persist(b, q2)
         \/ o.pc = "auth_backup" /\ Keep(b, q3)
  <2>1. rt[b] \in Runtime
    BY AtBroker
  <2>2. r0.pc = o.pc
    BY <2>1 DEF Runtime
  <2> QED BY <2>2 DEF KeyTouched
<1>2. /\ o \in Runtime /\ Local(o) /\ vault \in VaultStates /\ o.life = "up"
      /\ o.pc \in Touching => o.cmd \in Guarded
      /\ o.pc = "auth_open" => app # b
  BY <1>1, AtTouch, AtBroker DEF Touching, Up
<1> HIDE DEF o
<1>3. /\ r0 \in Runtime /\ r0.life = "up" /\ r0.cmd = o.cmd /\ r0.pc = o.pc
      /\ r0.todo = o.todo
      /\ r0.sess = "fresh" /\ r0.reauth = FALSE /\ r0.keyed = TRUE /\ r0.spent = FALSE
  BY <1>2 DEF Runtime
<1> HIDE DEF r0
<1>4. /\ q1 \in Runtime /\ q1.life = "up" /\ q1.cmd = o.cmd /\ q1.pc = "unlock"
      /\ q1.sess = "fresh" /\ q1.reauth = FALSE /\ q1.keyed = TRUE /\ q1.spent = FALSE
  BY <1>3 DEF Runtime, States
<1>5. /\ q2 \in Runtime /\ q2.life = "up" /\ q2.cmd = o.cmd /\ q2.pc = "idle"
      /\ q2.sess = "fresh" /\ q2.reauth = FALSE /\ q2.keyed = TRUE
  BY <1>3 DEF Runtime, States
<1>6. /\ q3 \in Runtime /\ q3.life = "up" /\ q3.cmd = o.cmd /\ q3.pc = "publish"
      /\ q3.todo = o.todo
      /\ q3.sess = "fresh" /\ q3.reauth = FALSE /\ q3.keyed = TRUE
  BY <1>3 DEF Runtime
<1> HIDE DEF q1, q2, q3
<1>7. CASE o.pc = "auth_open" /\ Persist(b, q1)
  <2>1. Local(q1)
    BY <1>2, <1>4, <1>7 DEF Local, Touching, Busy
  <2> QED BY <1>1, <1>2, <1>4, <1>7, <2>1, Stays DEF o
<1>8. CASE o.pc = "auth_only" /\ Persist(b, q2)
  <2>1. Local(q2) /\ q2.pc \notin Busy
    BY <1>2, <1>5, <1>8 DEF Local, Touching, Busy
  <2> QED BY <1>1, <1>2, <1>5, <1>8, <2>1, Stays DEF o
<1>9. CASE o.pc = "auth_backup" /\ Keep(b, q3)
  <2>1. Local(q3) /\ q3.pc \notin Busy
    BY <1>2, <1>6, <1>9 DEF Local, Touching, Busy, Asking
  <2> QED BY <1>1, <1>2, <1>6, <1>9, <2>1, Stays DEF o
<1> QED BY <1>1, <1>7, <1>8, <1>9

\* A refused key.
LEMMA KeyRefusedStep ==
    ASSUME IInv, NEW b \in Broker, NEW st \in {"AUTH_REQUIRED", "ERROR"}, KeyRefused(b, st)
    PROVE  IInv'
<1> DEFINE o == rt[b]
           r == [o EXCEPT !.st = st, !.pc = "idle"]
<1>1. /\ Up(b) /\ o.pc \in Touching /\ Persist(b, GivenUp(r))
      /\ vault' = vault /\ app' = app /\ guard' = guard /\ vault \in VaultStates
  BY AtBroker DEF KeyRefused, Touching
<1>2. /\ o \in Runtime /\ o.cmd \in Guarded /\ o.life = "up"
      /\ o.keyed \/ o.reauth \/ o.sess = "none"
  BY <1>1, AtTouch, AtBroker DEF Up, Local
<1> HIDE DEF o
<1>3. /\ r \in Runtime /\ r.life = "up" /\ r.cmd = o.cmd /\ r.pc = "idle"
      /\ r.sess = o.sess /\ r.keyed = o.keyed /\ r.reauth = o.reauth
  BY <1>2 DEF Runtime, States
<1> HIDE DEF r
<1>4. Calm(b, r)
  BY <1>2, <1>3 DEF Calm, Kept, Goes, o
<1> QED BY <1>1, <1>4, CalmGivenUp, CalmStep

\* A publication waits for a touch, is refused one, or copies: its command holds
\* a secret and is on its way out.
LEMMA PublishStep ==
    ASSUME IInv, NEW b \in Broker,
           PublishBackup(b) \/ PublishesUnproven(b) \/ PublishEnds(b)
    PROVE  IInv'
<1> DEFINE o == IF PublishBackup(b) THEN Begun(b, "publish_backup") ELSE rt[b]
<1>1. /\ Up(b) /\ app' = app /\ guard' = guard /\ vault' \in VaultStates
      /\ \/ Persist(b, [o EXCEPT !.st = "AUTHENTICATING", !.sess = "none",
                                !.pc = "auth_backup"])
         \/ \E pc \in {"idle", "publish"} : Keep(b, [o EXCEPT !.pc = pc])
  BY AtBroker DEF PublishBackup, PublishesUnproven, PublishEnds, Authenticating, May,
                  VaultStates
<1>2. /\ o \in Runtime /\ o.life = "up" /\ o.cmd = rt[b].cmd
      /\ o.cmd \notin Guarded => o.cmd \in KeyCommands /\ o.todo = "broker_shutdown"
      /\ o.keyed \/ o.reauth \/ o.sess = "none"
  <2>1. CASE PublishBackup(b)
    <3>1. o = Begun(b, "publish_backup") /\ May(b, "publish_backup")
      BY <2>1 DEF PublishBackup
    <3> HIDE DEF o
    <3>2. /\ o \in Runtime /\ o.life = rt[b].life /\ o.cmd = rt[b].cmd
          /\ o.sess = rt[b].sess /\ o.keyed = rt[b].keyed /\ o.reauth = rt[b].reauth
          /\ o.cmd \in KeyCommands => o.todo = "broker_shutdown"
      BY <1>1, <3>1, BegunFits DEF Ops, PageOps
    <3>3. rt[b].cmd \notin Guarded => rt[b].cmd \in KeyCommands
      BY <1>1, <3>1, PublishersAreKeyed
    <3> QED BY <1>1, <3>2, <3>3, AtBroker DEF Local, Up
  <2>2. CASE ~PublishBackup(b)
    <3>1. o = rt[b] /\ rt[b].pc \in Asking
      BY <2>2 DEF PublishesUnproven, PublishEnds, Asking
    <3> HIDE DEF o
    <3> QED BY <1>1, <3>1, AtBroker DEF Local, Up
  <2> QED BY <2>1, <2>2
<1> HIDE DEF o
<1>3. ASSUME NEW st \in States, NEW sess \in {o.sess, "none"},
             NEW pc \in {"idle", "publish", "auth_backup"}, NEW r,
             r = [o EXCEPT !.st = st, !.sess = sess, !.pc = pc],
             Keep(b, r) \/ Persist(b, r)
      PROVE  IInv'
  <2>1. /\ r \in Runtime /\ r.life = o.life /\ r.cmd = o.cmd /\ r.todo = o.todo
        /\ r.pc = pc /\ r.sess = sess /\ r.keyed = o.keyed /\ r.reauth = o.reauth
    BY <1>2, <1>3 DEF Runtime
  <2>2. Local(r) /\ r.pc \notin Busy
    BY <1>2, <2>1 DEF Local, Touching, Busy, Script
  <2> QED BY <1>1, <1>2, <1>3, <2>1, <2>2, Stays
<1>4. \A pc \in {"idle", "publish"} :
         [o EXCEPT !.pc = pc] = [o EXCEPT !.st = o.st, !.sess = o.sess, !.pc = pc]
  BY <1>2 DEF Runtime
<1>5. o.st \in States /\ "AUTHENTICATING" \in States
  BY <1>2 DEF Runtime, States
<1> QED BY <1>1, <1>3, <1>4, <1>5

\* So does a proof of ownership.
LEMMA ProofHolds ==
    ASSUME IInv, NEW b \in Broker, Prove(b) \/ ProofStep(b)
    PROVE  IInv'
<1> DEFINE o == IF Prove(b) THEN Begun(b, "prove") ELSE rt[b]
<1>1. PICK pc \in {"idle", "prove", "wrap"} :
        /\ Up(b) /\ app' = app /\ guard' = guard /\ vault' = vault
        /\ Keep(b, [o EXCEPT !.pc = pc])
  BY DEF Prove, ProofStep, May
<1>2. /\ o \in Runtime /\ o.life = "up" /\ o.cmd = rt[b].cmd
      /\ o.cmd \notin Guarded => o.cmd \in KeyCommands /\ o.todo = "broker_shutdown"
      /\ o.keyed \/ o.reauth \/ o.sess = "none"
      /\ vault \in VaultStates
  <2>1. CASE Prove(b)
    <3>1. o = Begun(b, "prove") /\ May(b, "prove")
      BY <2>1 DEF Prove
    <3> HIDE DEF o
    <3>2. /\ o \in Runtime /\ o.life = rt[b].life /\ o.cmd = rt[b].cmd
          /\ o.sess = rt[b].sess /\ o.keyed = rt[b].keyed /\ o.reauth = rt[b].reauth
          /\ o.cmd \in KeyCommands => o.todo = "broker_shutdown"
      BY <1>1, <3>1, BegunFits DEF Ops, PageOps
    <3>3. rt[b].cmd \notin Guarded => rt[b].cmd \in KeyCommands
      BY <1>1, <3>1, PublishersAreKeyed
    <3> QED BY <1>1, <3>2, <3>3, AtBroker DEF Local, Up
  <2>2. CASE ~Prove(b)
    <3>1. o = rt[b] /\ rt[b].pc \in Asking
      BY <2>2 DEF ProofStep, Asking
    <3> HIDE DEF o
    <3> QED BY <1>1, <3>1, AtBroker DEF Local, Up
  <2> QED BY <2>1, <2>2
<1> HIDE DEF o
<1> DEFINE r == [o EXCEPT !.pc = pc]
<1>3. /\ r \in Runtime /\ r.life = o.life /\ r.cmd = o.cmd /\ r.todo = o.todo
      /\ r.pc = pc /\ r.sess = o.sess /\ r.keyed = o.keyed /\ r.reauth = o.reauth
  BY <1>2 DEF Runtime
<1>4. Keep(b, r)
  BY <1>1
<1> HIDE DEF r
<1>5. Local(r) /\ r.pc \notin Busy
  BY <1>2, <1>3 DEF Local, Touching, Busy, Script
<1> QED BY <1>1, <1>2, <1>3, <1>4, <1>5, Stays

\* A failed unlock drops the secret.
LEMMA UnlockFailsStep ==
    ASSUME IInv, NEW b \in Broker, UnlockFails(b)
    PROVE  IInv'
<1>1. vault' \in VaultStates
  <2>1. PICK v \in {vault, "attached_locked", "mounted"} :
           \E d \in DetachOutcomes(v) : vault' = d.left
    BY DEF UnlockFails
  <2>2. v \in VaultStates
    BY AtBroker DEF VaultStates
  <2> QED BY <2>1, <2>2 DEF DetachOutcomes, VaultStates
<1> DEFINE o == rt[b]
           r == [o EXCEPT !.st = "ERROR", !.sess = "none", !.pc = "idle"]
<1>2. /\ Up(b) /\ o.pc \in Touching /\ Persist(b, GivenUp(r))
      /\ app' = app /\ guard' = guard
  BY DEF UnlockFails, Touching
<1>3. o \in Runtime /\ o.cmd \in Guarded /\ o.life = "up"
  BY <1>2, AtTouch DEF Up
<1> HIDE DEF o
<1>4. /\ r \in Runtime /\ r.life = "up" /\ r.cmd = o.cmd /\ r.pc = "idle"
      /\ r.sess = "none"
  BY <1>3, Words DEF Runtime
<1> HIDE DEF r
<1>5. Calm(b, r)
  BY <1>3, <1>4 DEF Calm, Kept, Goes, o
<1> QED BY <1>1, <1>2, <1>5, CalmGivenUp, CalmStep

\* A mount marks its secret as spent; the launch that follows still holds it.
LEMMA UnlockSucceedsStep ==
    ASSUME IInv, NEW b \in Broker, UnlockSucceeds(b)
    PROVE  IInv'
<1> DEFINE o == rt[b]
           r == [o EXCEPT !.st = "MOUNTED", !.pc = "launch", !.spent = TRUE]
<1>1. /\ Up(b) /\ o.pc = "unlock" /\ Persist(b, r)
      /\ vault' \in VaultStates /\ app' = app /\ guard' = guard
  BY DEF UnlockSucceeds, VaultStates
<1>2. o \in Runtime /\ Local(o) /\ o.cmd \in Guarded /\ app # b /\ o.life = "up"
  BY <1>1, AtTouch, AtBroker DEF Touching, Up
<1> HIDE DEF o
<1>3. /\ r \in Runtime /\ r.life = o.life /\ r.cmd = o.cmd /\ r.pc = "launch"
      /\ r.sess = o.sess /\ r.keyed = o.keyed /\ r.reauth = o.reauth
  BY <1>2 DEF Runtime, States
<1> HIDE DEF r
<1>4. Local(r)
  BY <1>1, <1>2, <1>3 DEF Local
<1> QED BY <1>1, <1>2, <1>3, <1>4, Stays DEF o

\* A launch makes the broker the owner of the application, and it is idle.
LEMMA LaunchSucceedsStep ==
    ASSUME IInv, NEW b \in Broker, LaunchSucceeds(b)
    PROVE  IInv'
<1> DEFINE o == rt[b]
           s == Refreshed(o.sess)
           r == [o EXCEPT !.st = "RUNNING", !.sess = s, !.pc = "idle"]
<1>1. /\ Up(b) /\ o.pc = "launch" /\ Persist(b, r)
      /\ vault' = vault /\ app' = b /\ guard' = guard
  BY DEF LaunchSucceeds
<1>2. /\ o \in Runtime /\ Local(o) /\ o.cmd \in Guarded /\ o.life = "up"
      /\ vault \in VaultStates /\ guard = b
  BY <1>1, AtTouch, AtBroker DEF Touching, Up, Shared
<1>3. s \in {"none", "fresh", "idle", "aged"}
  BY <1>2 DEF Refreshed, Runtime
<1> HIDE DEF o, s
<1>4. /\ r \in Runtime /\ r.life = o.life /\ r.cmd = o.cmd /\ r.pc = "idle"
      /\ r.keyed = o.keyed /\ r.reauth = o.reauth
  BY <1>2, <1>3, Words DEF Runtime
<1> HIDE DEF r
<1>5. Local(r) /\ r.pc \notin Busy
  BY <1>1, <1>2, <1>4 DEF Local, Busy
<1>6. guard' = b /\ \A c \in Broker \ {b} : guard = c => guard' = c
  BY <1>1, <1>2
<1> QED BY <1>1, <1>2, <1>4, <1>5, <1>6, Preserves

\* A refused launch relocks.
LEMMA LaunchFailsStep ==
    ASSUME IInv, NEW b \in Broker, LaunchFails(b)
    PROVE  IInv'
<1> DEFINE o == rt[b]
           g == GivenUp(o)
           r == [g EXCEPT !.st = "LOCKING", !.pc = "close", !.why = "launch_failed"]
<1>1. /\ Up(b) /\ o.pc = "launch" /\ Persist(b, r)
      /\ vault' = vault /\ app' \in {app, b, Untracked} /\ guard' = guard
  BY DEF LaunchFails, Locking, Spawned
<1>2. /\ o \in Runtime /\ Local(o) /\ o.cmd \in Guarded /\ o.life = "up"
      /\ vault \in VaultStates
  BY <1>1, AtTouch, AtBroker DEF Touching, Up
<1> HIDE DEF o
<1>3. /\ g \in Runtime /\ g.life = o.life /\ g.cmd = o.cmd /\ g.sess = o.sess
      /\ g.keyed = o.keyed /\ g.reauth = o.reauth
  BY <1>2 DEF GivenUp, Runtime, Ops, GuiOps, Events, FlaggedEvents
<1> HIDE DEF g
<1>4. /\ r \in Runtime /\ r.life = g.life /\ r.cmd = g.cmd /\ r.pc = "close"
      /\ r.sess = g.sess /\ r.keyed = g.keyed /\ r.reauth = g.reauth
  BY <1>3, Words DEF Runtime
<1> HIDE DEF r
<1>5. Local(r) /\ r.pc \notin Busy
  BY <1>1, <1>2, <1>3, <1>4 DEF Local, Busy
<1>6. guard = b /\ guard \in Broker \cup {NoBroker}
  BY <1>1, <1>2, AtBroker DEF Shared, Up, IInv, TypeOK, o
<1> QED BY <1>1, <1>2, <1>3, <1>4, <1>5, <1>6, Preserves

-----------------------------------------------------------------------------
\* Events, the lock sequence, the periodic turn.

\* An event may demand the key again while it forgets the last touch.
LEMMA SystemEventStep ==
    ASSUME IInv, NEW b \in Broker, NEW e \in Events, SystemEvent(b, e)
    PROVE  IInv'
<1> DEFINE r0 == Begun(b, e)
           reauth == r0.reauth \/ e \in ReauthOn
           keyed == r0.keyed /\ e \notin ReauthOn
           r == [r0 EXCEPT !.reauth = reauth, !.keyed = keyed]
<1>1. /\ May(b, e) /\ Up(b) /\ vault' = vault /\ app' = app /\ guard' = guard
      /\ Persist(b, Locking(r, e)) \/ Keep(b, r0)
      /\ vault \in VaultStates
  BY AtBroker DEF SystemEvent, May
<1>2. Calm(b, r0)
  BY <1>1, CalmBegun DEF Ops, GuiOps
<1>3. /\ r0 \in Runtime
      /\ reauth \in BOOLEAN /\ keyed \in BOOLEAN
      /\ r0.keyed \/ r0.reauth => keyed \/ reauth
  BY <1>2 DEF Calm, Kept, Runtime
<1> HIDE DEF r0, reauth, keyed
<1>4. /\ r \in Runtime /\ r.reauth = reauth /\ r.keyed = keyed
      /\ r.life = r0.life /\ r.cmd = r0.cmd /\ r.todo = r0.todo
      /\ r.pc = r0.pc /\ r.sess = r0.sess
  BY <1>3 DEF Runtime
<1> HIDE DEF r
<1>5. Calm(b, r)
  BY <1>2, <1>3, <1>4 DEF Calm, Kept, Goes
<1>6. Calm(b, Locking(r, e))
  BY <1>5, CalmWaits DEF States
<1> QED BY <1>1, <1>2, <1>6, CalmStep

\* shutdown.
LEMMA ShutdownStep ==
    ASSUME IInv, NEW b \in Broker, Shutdown(b)
    PROVE  IInv'
<1> DEFINE r0 == Begun(b, "broker_shutdown")
           r == [r0 EXCEPT !.down = TRUE]
<1>1. /\ May(b, "broker_shutdown") /\ Up(b) /\ Release(b)
      /\ vault' = vault /\ UNCHANGED app /\ vault \in VaultStates
      /\ Persist(b, Locking(r, "broker_shutdown")) \/ Keep(b, Gone(r)) \/ Keep(b, r)
  BY AtBroker DEF Shutdown, May
<1>2. Calm(b, r0)
  BY <1>1, CalmBegun DEF Ops, GuiOps, Events, FlaggedEvents
<1> HIDE DEF r0
<1>3. Calm(b, r)
  BY <1>2, CalmReports DEF States
<1> HIDE DEF r
<1>4. Calm(b, Locking(r, "broker_shutdown"))
  BY <1>3, CalmWaits DEF States, Events, FlaggedEvents
<1>5. CASE Keep(b, Gone(r))
  <2>1. r \in Runtime
    BY <1>3 DEF Calm, Kept
  <2>2. Gone(r).pc \notin Busy
    BY <2>1, GoneFits DEF Busy
  <2> QED BY <1>1, <1>5, <2>1, <2>2, GoneFits, Leaves
<1> QED BY <1>1, <1>3, <1>4, <1>5, CalmLeaves

\* The application is gone before anything is detached.
LEMMA CloseConfirmedStep ==
    ASSUME IInv, NEW b \in Broker, CloseConfirmed(b)
    PROVE  IInv'
<1> DEFINE o == rt[b]
           r == [o EXCEPT !.pc = "detach"]
<1>1. /\ Up(b) /\ o.pc = "close" /\ Keep(b, r)
      /\ app' \in {app, b, NoBroker} /\ app' # b
      /\ vault' = vault /\ guard' = guard
  BY ConstantsOK DEF CloseConfirmed, Running
<1>2. o \in Runtime /\ Local(o) /\ Shared(b) /\ o.life = "up" /\ vault \in VaultStates
  BY <1>1, AtBroker DEF Up
<1> HIDE DEF o
<1>3. /\ r \in Runtime /\ r.life = o.life /\ r.cmd = o.cmd /\ r.todo = o.todo
      /\ r.pc = "detach" /\ r.sess = o.sess /\ r.keyed = o.keyed /\ r.reauth = o.reauth
  BY <1>2 DEF Runtime
<1> HIDE DEF r
<1>4. Local(r)
  BY <1>2, <1>3 DEF Local, Touching, Asking
<1>5. r.cmd \in Guarded => guard' = b
  BY <1>1, <1>2, <1>3 DEF Shared, Up, o
<1>6. guard' \in Broker \cup {NoBroker}
  BY <1>1 DEF IInv, TypeOK
<1> QED BY <1>1, <1>2, <1>3, <1>4, <1>5, <1>6, Preserves

\* The secret has no part in these two: the lock stops before the detach.
LEMMA LockStopsStep ==
    ASSUME IInv, NEW b \in Broker, CloseTimesOut(b) \/ HelperMissing(b)
    PROVE  IInv'
<1> DEFINE o == rt[b]
           r == [o EXCEPT !.st = "ERROR"]
<1>1. /\ Up(b) /\ o.pc \in {"close", "detach"}
      /\ Persist(b, Locked(r, FALSE)) /\ Release(b)
      /\ vault' = vault /\ UNCHANGED app
  BY DEF CloseTimesOut, HelperMissing, LockError, Detached
<1>2. o \in Runtime /\ Local(o) /\ vault \in VaultStates
  BY AtBroker
<1> HIDE DEF o
<1>3. /\ r \in Runtime
      /\ r.life = o.life /\ r.cmd = o.cmd /\ r.todo = o.todo /\ r.sess = o.sess
      /\ r.keyed = o.keyed /\ r.reauth = o.reauth
  BY <1>2 DEF Runtime, States
<1> HIDE DEF r
<1>4. Kept(b, r)
  BY <1>1, <1>2, <1>3 DEF Kept, Goes, Local, Up, o
<1> QED BY <1>1, <1>2, <1>4, LockedStep

\* The detach zeroizes the secret.
LEMMA DetachStep ==
    ASSUME IInv, NEW b \in Broker, Detach(b)
    PROVE  IInv'
<1> DEFINE o == rt[b]
           r0 == [o EXCEPT !.sess = "none"]
<1>1. PICK d \in DetachOutcomes(vault) :
        /\ vault' = d.left
        /\ Persist(b, Locked([Detached(r0, d.ok) EXCEPT
                                !.backup = @ \/ (d.ok /\ vault # "missing")], d.ok))
  BY DEF Detach
<1>2. /\ Up(b) /\ Release(b) /\ UNCHANGED app /\ d.left \in VaultStates
      /\ o \in Runtime /\ Local(o) /\ o.life = "up"
  BY AtBroker, DetachLeaves DEF Detach, Up
<1> DEFINE q == Detached(r0, d.ok)
           f == q.backup \/ (d.ok /\ vault # "missing")
           r == [q EXCEPT !.backup = f]
<1>3. Persist(b, Locked(r, d.ok))
  BY <1>1
<1> HIDE DEF o
<1>4. /\ r0 \in Runtime /\ r0.life = o.life /\ r0.cmd = o.cmd /\ r0.todo = o.todo
      /\ r0.sess = "none"
  BY <1>2 DEF Runtime
<1> HIDE DEF r0
<1>5. /\ q \in Runtime /\ q.life = o.life /\ q.cmd = o.cmd /\ q.todo = o.todo
      /\ q.sess = "none"
  BY <1>4 DEF Detached, Runtime, States
<1> HIDE DEF q
<1>6. f \in BOOLEAN
  BY <1>5 DEF Runtime
<1> HIDE DEF f
<1>7. /\ r \in Runtime /\ r.life = o.life /\ r.cmd = o.cmd /\ r.todo = o.todo
      /\ r.sess = "none"
  BY <1>5, <1>6 DEF Runtime
<1> HIDE DEF r
<1>8. Kept(b, r)
  BY <1>2, <1>7 DEF Kept, Goes, Local, o
<1> QED BY <1>1, <1>2, <1>3, <1>8, LockedStep

\* The publisher's attachment is no broker's state.
LEMMA BackupStep ==
    ASSUME IInv, NEW b \in Broker, BackupAttaches(b)
    PROVE  IInv'
<1> DEFINE o == rt[b]
           r == [o EXCEPT !.backup = FALSE]
<1>1. /\ Up(b) /\ Keep(b, r) /\ app' = app /\ guard' = guard /\ vault' \in VaultStates
  BY AtBroker DEF BackupAttaches, VaultStates
<1>2. o \in Runtime /\ Local(o) /\ Shared(b) /\ o.life = "up"
  BY <1>1, AtBroker DEF Up
<1> HIDE DEF o
<1>3. /\ r \in Runtime
      /\ r.life = o.life /\ r.cmd = o.cmd /\ r.todo = o.todo /\ r.pc = o.pc
      /\ r.sess = o.sess /\ r.keyed = o.keyed /\ r.reauth = o.reauth
      /\ r.aggressive = o.aggressive /\ r.spent = o.spent
  BY <1>2 DEF Runtime
<1> HIDE DEF r
<1>4. Local(r) /\ (r.pc \in Busy => app # b)
  BY <1>2, <1>3 DEF Local, Shared, o
<1> QED BY <1>1, <1>2, <1>3, <1>4, Stays DEF o

\* tick after the application ended.
LEMMA TickExitStep ==
    ASSUME IInv, NEW b \in Broker, TickExit(b) \/ TickExitFails(b)
    PROVE  IInv'
<1> DEFINE o == rt[b]
           t == [o EXCEPT !.pc = "tick"]
<1>1. /\ May(b, "tick") /\ Up(b) /\ app' = app /\ guard' = guard
      /\ vault' = vault \/ \E d \in DetachOutcomes(vault) : vault' = d.left
      /\ \/ Persist(b, [o EXCEPT !.st = "ERROR", !.pc = "tick"])
         \/ Persist(b, [t EXCEPT !.st = "LOCKED", !.sess = "none"])
         \/ Persist(b, [t EXCEPT !.st = "SESSION_CACHED"])
  BY DEF TickExit, TickExitFails, May
<1>2. vault' \in VaultStates
  BY <1>1, AtBroker, DetachLeaves
<1>3. Calm(b, o)
  BY <1>1, CalmOwn DEF May
<1> HIDE DEF o
<1>4. Calm(b, t) /\ Calm(b, [o EXCEPT !.st = "ERROR", !.pc = "tick"])
  BY <1>3, CalmWaits DEF States
<1> HIDE DEF t
<1>5. Calm(b, [t EXCEPT !.st = "LOCKED", !.sess = "none"])
  BY <1>4, CalmForgets DEF States
<1>6. Calm(b, [t EXCEPT !.st = "SESSION_CACHED"])
  BY <1>4, CalmReports DEF States
<1> QED BY <1>1, <1>2, <1>4, <1>5, <1>6, CalmStep

\* The idle half of tick.
LEMMA IdleStep ==
    ASSUME IInv, NEW b \in Broker, IdleCloses(b) \/ IdleDrops(b) \/ TickEnds(b)
    PROVE  IInv'
<1> DEFINE o == rt[b]
           r == [o EXCEPT !.sess = "none", !.pc = "idle"]
<1>1. /\ Up(b) /\ o.pc \in {"idle", "tick"} /\ app' = app /\ guard' = guard
      /\ vault' = vault \/ \E d \in DetachOutcomes(vault) : vault' = d.left
      /\ \/ Persist(b, Locking(o, "idle"))
         \/ Persist(b, [r EXCEPT !.st = "LOCKED"])
         \/ \E d \in DetachOutcomes(vault) : Persist(b, Detached(r, d.ok))
         \/ Keep(b, [o EXCEPT !.pc = "idle"])
  BY DEF IdleCloses, IdleDrops, TickEnds, AtIdleCheck, May
<1>2. vault' \in VaultStates
  BY <1>1, AtBroker, DetachLeaves
<1>3. Calm(b, o)
  BY <1>1, CalmOwn
<1> HIDE DEF o
<1>4. Calm(b, Locking(o, "idle")) /\ Calm(b, [o EXCEPT !.pc = "idle"]) /\ Calm(b, r)
  BY <1>3, CalmWaits, CalmForgets DEF States
<1> HIDE DEF r
<1>5. Calm(b, [r EXCEPT !.st = "LOCKED"]) /\ \A ok : Calm(b, Detached(r, ok))
  BY <1>4, CalmReports, CalmDetached DEF States
<1> QED BY <1>1, <1>2, <1>4, <1>5, CalmStep

\* set_mode.
LEMMA SetModeStep ==
    ASSUME IInv, NEW b \in Broker, NEW m \in BOOLEAN, SetMode(b, m)
    PROVE  IInv'
<1> DEFINE r0 == Begun(b, "set_mode")
           r == [r0 EXCEPT !.aggressive = m]
           f == [r EXCEPT !.sess = "none"]
<1>1. /\ May(b, "set_mode") /\ Up(b) /\ app' = app /\ guard' = guard
      /\ \/ vault' = vault /\ Keep(b, r)
         \/ \E d \in DetachOutcomes(vault) : vault' = d.left /\ Persist(b, Detached(f, d.ok))
  BY DEF SetMode, May
<1>2. vault' \in VaultStates
  BY <1>1, AtBroker, DetachLeaves
<1>3. Calm(b, r0)
  BY <1>1, CalmBegun DEF Ops, GuiOps
<1> HIDE DEF r0
<1>4. Calm(b, r)
  BY <1>3, CalmReports DEF States
<1> HIDE DEF r
<1>5. Calm(b, f)
  BY <1>4, CalmForgets DEF States
<1> HIDE DEF f
<1>6. \A ok : Calm(b, Detached(f, ok))
  BY <1>5, CalmDetached
<1> QED BY <1>1, <1>2, <1>4, <1>6, CalmStep

-----------------------------------------------------------------------------
\* The invariant and what follows from it.

\* The initial states satisfy the invariant.
LEMMA InitHolds == Init => IInv
<1> SUFFICES ASSUME Init PROVE IInv
  OBVIOUS
<1>1. \A b \in Broker : rt[b] = NewRuntime
  BY DEF Init
<1>2. TypeOK
  BY NewFits DEF Init, TypeOK, VaultStates, NoRow, Row, States
<1>3. \A b \in Broker : Local(rt[b]) /\ Shared(b)
  BY <1>1, NewFits, ConstantsOK DEF Local, Shared, Up, Busy, Init
<1> QED BY <1>2, <1>3 DEF IInv

\* The steps of open and authenticate_only.
LEMMA OpenStepHolds ==
    ASSUME IInv, NEW b \in Broker, OpenStep(b)
    PROVE  IInv'
<1>1. CASE OpenRefused(b) \/ OpenWhileRunning(b) \/ OpenStartFails(b)
  BY <1>1, OpenQuietStep
<1>2. CASE OpenWithSession(b)
  BY <1>2, OpenWithSessionStep
<1>3. CASE \E force \in BOOLEAN : OpenNeedsKey(b, force) \/ AuthenticateOnly(b, force)
  BY <1>3, OpenNeedsKeyStep, AuthenticateOnlyStep
<1>4. CASE \E st \in {"AUTH_REQUIRED", "ERROR"} :
              KeyRefused(b, st) \/ \E force \in BOOLEAN : ProviderRefused(b, st, force)
  BY <1>4, KeyRefusedStep, ProviderRefusedStep
<1>5. CASE KeyTouched(b) \/ UnlockSucceeds(b) \/ UnlockFails(b)
  BY <1>5, KeyTouchedStep, UnlockSucceedsStep, UnlockFailsStep
<1>6. CASE LaunchSucceeds(b) \/ LaunchFails(b)
  BY <1>6, LaunchSucceedsStep, LaunchFailsStep
<1> QED BY <1>1, <1>2, <1>3, <1>4, <1>5, <1>6 DEF OpenStep

\* The invariant is inductive.
LEMMA NextHolds == IInv /\ [Next]_vars => IInv'
<1> SUFFICES ASSUME IInv, [Next]_vars PROVE IInv'
  OBVIOUS
<1>1. CASE UNCHANGED vars
  BY <1>1 DEF vars, IInv, TypeOK, Local, Shared, Up
<1>2. CASE Reboot
  BY <1>2, RebootStep
<1>3. CASE AppExits
  <2>1. rt' = rt /\ guard' = guard /\ vault' = vault /\ disk' = disk /\ app' = NoBroker
    BY <1>3 DEF AppExits
  <2>2. \A b \in Broker : app' # b
    BY <2>1, ConstantsOK
  <2> QED BY <2>1, <2>2 DEF IInv, TypeOK, Local, Shared, Up
<1>4. ASSUME NEW b \in Broker, \E c \in Commands : Start(b, c) PROVE IInv'
  BY <1>4, StartStep
<1>5. ASSUME NEW b \in Broker,
             \/ Exit(b) \/ Crash(b) \/ SessionIdles(b) \/ SessionAges(b)
             \/ ReconcileFails(b) \/ Reconcile(b) \/ Recover(b)
      PROVE  IInv'
  BY <1>5, ExitStep, SessionStep, ReconcileStep, RecoverStep
<1>6. ASSUME NEW b \in Broker, OpenStep(b) \/ KeyStep(b) PROVE IInv'
  BY <1>6, OpenStepHolds, PublishStep, ProofHolds DEF KeyStep
<1>7. ASSUME NEW b \in Broker, LockStep(b) PROVE IInv'
  BY <1>7, CloseConfirmedStep, LockStopsStep, DetachStep DEF LockStep
<1>8. ASSUME NEW b \in Broker, TickStep(b) PROVE IInv'
  BY <1>8, TickExitStep, IdleStep DEF TickStep
<1>9. ASSUME NEW b \in Broker,
             \/ \E e \in Events : SystemEvent(b, e)
             \/ \E m \in BOOLEAN : SetMode(b, m)
      PROVE  IInv'
  BY <1>9, SystemEventStep, SetModeStep
<1>10. ASSUME NEW b \in Broker,
              Shutdown(b) \/ BackupAttaches(b) \/ PollForeground(b) \/ NoteInteraction(b)
       PROVE  IInv'
  BY <1>10, ShutdownStep, BackupStep, RefreshStep
<1> QED
  BY <1>1, <1>2, <1>3, <1>4, <1>5, <1>6, <1>7, <1>8, <1>9, <1>10, Zenon DEF Next

\* The inductive invariant holds in every reachable state.
THEOREM Invariance == Spec => []IInv
  BY InitHolds, NextHolds, PTL DEF Spec

\* Every variable has its type, for any number of broker processes and any
\* policy: no handler leaves a word that is not a session state.
THEOREM TypeCorrect == Spec => []TypeOK
<1>1. IInv => TypeOK
  BY DEF IInv
<1> QED BY <1>1, Invariance, PTL

\* No path to UNLOCKING skips pending_reauth: of open, authenticate_only, the
\* events and the failures, in any order.
THEOREM MountNeedsKey == Spec => []KeyBeforeMount
<1>1. IInv => KeyBeforeMount
  BY DEF IInv, Local, KeyBeforeMount
<1> QED BY <1>1, Invariance, PTL

\* One touch pays for one mount in aggressive mode, although the mode may be
\* switched between the touch and the mount.
THEOREM AggressiveTouch == Spec => []OneTouchPerAggressiveMount
<1>1. IInv => OneTouchPerAggressiveMount
  BY DEF IInv, Local, OneTouchPerAggressiveMount
<1> QED BY <1>1, Invariance, PTL

\* At most one process is at the vault, and the secret of a publication or of an
\* enrolment beside it belongs to a process on its way out.
THEOREM OneOwner == Spec => []OneVaultOwner
<1>1. IInv => OneVaultOwner
  BY DEF IInv, TypeOK, Local, Shared, Up, OneVaultOwner, AtVault, HoldsSecret,
         Touching, Asking
<1> QED BY <1>1, Invariance, PTL

\* The vault goes while the application of b stays.
Takes(b) == vault = "mounted" /\ vault' # "mounted" /\ app = b /\ app' = b

\* No step of the broker that owns the application takes the vault.
LEMMA OwnStepKeepsVault ==
    ASSUME IInv, NEW b \in Broker, Takes(b),
           \/ OpenStep(b) \/ LockStep(b) \/ TickStep(b)
           \/ \E m \in BOOLEAN : SetMode(b, m)
           \/ BackupAttaches(b)
    PROVE  FALSE
<1>1. app = b /\ vault = "mounted" /\ vault' # vault /\ (rt[b].pc \notin Busy)
  BY AtBroker DEF Takes, Shared
<1>2. ~OpenStep(b)
  BY <1>1 DEF OpenStep, OpenRefused, OpenWhileRunning, OpenStartFails, OpenWithSession,
       OpenNeedsKey, AuthenticateOnly, ProviderRefused, KeyTouched, KeyRefused,
       UnlockSucceeds, UnlockFails, LaunchSucceeds, LaunchFails, Busy
<1>3. ~LockStep(b)
  BY <1>1 DEF LockStep, CloseConfirmed, CloseTimesOut, HelperMissing, Detach, Busy
<1>4. ~TickStep(b)
  BY <1>1 DEF TickStep, TickExitFails, TickExit, IdleCloses, IdleDrops, TickEnds,
       AppHasExited, Running
<1>5. ~\E m \in BOOLEAN : SetMode(b, m)
  BY <1>1 DEF SetMode, Running
<1>6. ~BackupAttaches(b)
  BY <1>1 DEF BackupAttaches
<1> QED BY <1>2, <1>3, <1>4, <1>5, <1>6

\* What a step of one broker leaves of another's runtime.
LEMMA OtherRuntime ==
    ASSUME IInv, NEW b \in Broker, NEW c \in Broker, b # c,
           \/ OpenStep(c) \/ LockStep(c) \/ TickStep(c)
           \/ \E m \in BOOLEAN : SetMode(c, m)
           \/ BackupAttaches(c)
    PROVE  rt'[b] = rt[b]
<1>1. \A r : Keep(c, r) \/ Persist(c, r) => rt'[b] = rt[b]
  BY DEF Keep, Persist, IInv, TypeOK
<1>2. OpenStep(c) => rt'[b] = rt[b]
  BY <1>1 DEF OpenStep, OpenRefused, OpenWhileRunning, OpenStartFails, OpenWithSession,
       OpenNeedsKey, AuthenticateOnly, ProviderRefused, KeyTouched, KeyRefused,
       UnlockSucceeds, UnlockFails, LaunchSucceeds, LaunchFails
<1>3. LockStep(c) => rt'[b] = rt[b]
  BY <1>1 DEF LockStep, CloseConfirmed, CloseTimesOut, HelperMissing, Detach
<1>4. TickStep(c) => rt'[b] = rt[b]
  BY <1>1 DEF TickStep, TickExitFails, TickExit, IdleCloses, IdleDrops, TickEnds
<1>5. (\E m \in BOOLEAN : SetMode(c, m)) => rt'[b] = rt[b]
  BY <1>1 DEF SetMode
<1>6. BackupAttaches(c) => rt'[b] = rt[b]
  BY <1>1 DEF BackupAttaches
<1> QED BY <1>2, <1>3, <1>4, <1>5, <1>6

\* A step that takes the vault from under a broker's application is another's.
LEMMA VaultIsKept ==
    ASSUME IInv, [Next]_vars, NEW b \in Broker, Takes(b)
    PROVE  rt'[b] = rt[b]
<1>1. CASE UNCHANGED vars
  BY <1>1 DEF vars
<1>2. CASE Reboot \/ AppExits
  BY <1>2, ConstantsOK DEF Reboot, AppExits, Takes
<1>3. ASSUME NEW c \in Broker,
             \/ OpenStep(c) \/ LockStep(c) \/ TickStep(c)
             \/ \E m \in BOOLEAN : SetMode(c, m)
             \/ BackupAttaches(c)
      PROVE  rt'[b] = rt[b]
  BY <1>3, OwnStepKeepsVault, OtherRuntime
<1>4. ASSUME NEW c \in Broker,
             \/ \E k \in Commands : Start(c, k)
             \/ Exit(c) \/ Crash(c) \/ SessionIdles(c) \/ SessionAges(c)
             \/ ReconcileFails(c) \/ Reconcile(c) \/ Recover(c)
             \/ \E e \in Events : SystemEvent(c, e)
             \/ Shutdown(c) \/ PollForeground(c) \/ NoteInteraction(c)
      PROVE  vault' = vault
  BY <1>4, Zenon DEF Start, Exit, Crash, SessionIdles, SessionAges, ReconcileFails,
       Reconcile, Recover, SystemEvent, Shutdown, PollForeground, NoteInteraction
<1>5. vault' # vault
  BY DEF Takes
<1>6. ASSUME NEW c \in Broker, KeyStep(c) PROVE vault' = vault
  BY <1>6 DEF KeyStep, PublishBackup, PublishesUnproven, PublishEnds, Prove, ProofStep, Takes
<1> QED BY <1>1, <1>2, <1>3, <1>4, <1>5, <1>6, Zenon DEF Next

\* The vault is never taken from under the application by the broker whose
\* supervisor tracks it: in the lock sequence, in tick, in a failed open or by set_mode.
THEOREM VaultUnderOwnApp == Spec => TrackedAppKeepsVault
<1>1. IInv /\ [Next]_vars =>
        [\A b \in Broker :
            /\ vault = "mounted" /\ vault' # "mounted"
            /\ app = b /\ app' = b
            => rt'[b] = rt[b]]_vars
  BY VaultIsKept DEF Takes
<1> QED BY <1>1, Invariance, PTL DEF Spec, TrackedAppKeepsVault

-----------------------------------------------------------------------------
\* RestIsUnreadable.  Where every broker takes the mutex there is one at a time, and
\* it may rest on a comfortable word only while the volume is not mounted; in
\* the middle of an operation the word is another one.
Restful == {"LOCKED", "SESSION_CACHED"}
Quiet == {"idle", "tick"} \cup Asking
Resting(r) == r.life = "up" /\ r.pc \in Quiet /\ r.todo # "reconcile" /\ r.st \in Restful
RestInv ==
    \A b \in Broker :
        /\ Up(b) => rt[b].cmd \in Guarded
        /\ rt[b].pc # "auth_only"
        /\ Resting(rt[b]) => vault # "mounted"

\* What b may move to.
Safe(b, r) ==
    /\ r \in Runtime
    /\ r.life = "up" => Up(b) /\ r.cmd = rt[b].cmd
    /\ r.pc # "auth_only"
    /\ Resting(r) => vault' # "mounted"

LEMMA MemRests ==
    ASSUME NEW r \in Runtime, NEW m \in Row
    PROVE  LET q == [r EXCEPT !.mem = m] IN
           q.life = r.life /\ q.cmd = r.cmd /\ q.pc = r.pc /\ q.todo = r.todo /\ q.st = r.st
  BY DEF Runtime

\* The only broker moves, so the others have nothing to say of the volume.
LEMMA SafeMove ==
    ASSUME IInv, RestInv, NEW b \in Broker, Up(b), NEW r, Safe(b, r), Keep(b, r) \/ Persist(b, r)
    PROVE  RestInv'
<1>1. PICK q \in Runtime : /\ rt' = [rt EXCEPT ![b] = q]
                           /\ q.life = r.life /\ q.cmd = r.cmd /\ q.pc = r.pc /\ q.todo = r.todo /\ q.st = r.st
  <2>1. CASE Keep(b, r)
    BY <2>1 DEF Keep, Safe
  <2>2. CASE Persist(b, r)
    <3>1. PICK m \in Row : rt' = [rt EXCEPT ![b] = [r EXCEPT !.mem = m]]
      BY <2>2, PersistMoves DEF IInv, Safe
    <3> QED BY <3>1, MemUpdate, MemRests DEF Safe
  <2> QED BY <2>1, <2>2
<1>2. rt'[b] = q /\ \A c \in Broker \ {b} : rt'[c] = rt[c]
  BY <1>1 DEF IInv, TypeOK
<1>3. \A c \in Broker \ {b} : ~Up(c)
  BY AtBroker DEF RestInv, Shared
<1>4. ASSUME NEW c \in Broker
      PROVE  /\ Up(c)' => rt'[c].cmd \in Guarded
             /\ rt'[c].pc # "auth_only"
             /\ Resting(rt'[c]) => vault' # "mounted"
  <2>1. CASE c = b
    BY <1>1, <1>2, <2>1 DEF RestInv, Safe, Resting, Up
  <2>2. CASE c # b
    BY <1>2, <1>3, <2>2 DEF RestInv, Resting, Up
  <2> QED BY <2>1, <2>2
<1> QED BY <1>4 DEF RestInv, Resting

\* An operation that reconcile is past.
LEMMA PastReconcile ==
    ASSUME NEW b \in Broker, NEW op, May(b, op), op # "reconcile"
    PROVE  Up(b) /\ rt[b].pc = "idle" /\ rt[b].todo # "reconcile"
  BY DEF May

\* A step after which b says what it said, of a volume that is mounted only if it was.
LEMMA SameWord ==
    ASSUME IInv, RestInv, NEW b \in Broker, Up(b), NEW r \in Runtime,
           r.life = "up", r.cmd = rt[b].cmd,
           r.pc = rt[b].pc \/ (r.pc \in Quiet /\ rt[b].pc \in Quiet),
           r.st = rt[b].st, r.todo = rt[b].todo \/ rt[b].todo # "reconcile",
           vault' = "mounted" => vault = "mounted"
    PROVE  Safe(b, r)
<1>1. rt[b].pc # "auth_only" /\ (Resting(rt[b]) => vault # "mounted")
  BY DEF RestInv
<1>2. Resting(r) => Resting(rt[b])
  BY DEF Resting, Up
<1>3. r.pc # "auth_only"
  BY <1>1 DEF Quiet, Asking
<1> QED BY <1>1, <1>2, <1>3 DEF Safe

\* Another word, or another moment.
LEMMA OtherWord ==
    ASSUME NEW b \in Broker, Up(b), NEW r \in Runtime,
           r.life = "up", r.cmd = rt[b].cmd, r.pc # "auth_only",
           r.st \notin Restful \/ r.pc \notin Quiet \/ vault' # "mounted"
    PROVE  Safe(b, r)
  BY DEF Safe, Resting

LEMMA GoneSafe ==
    ASSUME NEW b \in Broker, NEW r \in Runtime
    PROVE  Safe(b, Gone(r))
<1>1. Gone(r) \in Runtime /\ Gone(r).life = "gone" /\ Gone(r).pc = "idle"
  BY GoneFits
<1> QED BY <1>1 DEF Safe, Resting

\* A lock that ends leaves its word, or AUTH_REQUIRED, or no process.
LEMMA LockedSafe ==
    ASSUME NEW b \in Broker, Up(b), NEW r \in Runtime, r.life = "up", r.cmd = rt[b].cmd, NEW ok,
           r.st \notin Restful \/ vault' # "mounted"
    PROVE  Safe(b, Locked(r, ok))
<1> DEFINE reauth == r.reauth \/ r.why \in Ending
           keyed == r.keyed /\ r.why \notin Ending
           st == IF ok /\ reauth /\ r.why \in Events THEN "AUTH_REQUIRED" ELSE r.st
           q == [r EXCEPT !.pc = "idle", !.why = "none", !.reauth = reauth,
                          !.keyed = keyed, !.st = st]
<1>1. reauth \in BOOLEAN /\ keyed \in BOOLEAN /\ st \in States /\ st \in {r.st, "AUTH_REQUIRED"}
  BY DEF Runtime, States
<1>2. Locked(r, ok) = q \/ Locked(r, ok) = Gone(q)
  BY DEF Locked
<1> HIDE DEF reauth, keyed, st
<1>3. q \in Runtime /\ q.life = r.life /\ q.cmd = r.cmd /\ q.pc = "idle" /\ q.st = st
  BY <1>1 DEF Runtime
<1> HIDE DEF q
<1>4. Safe(b, q)
  BY <1>1, <1>3, OtherWord DEF Restful
<1> QED BY <1>2, <1>3, <1>4, GoneSafe

\* A detach that is confirmed leaves nothing mounted.
LEMMA DetachSettles ==
    ASSUME NEW d \in DetachOutcomes(vault)
    PROVE  d.ok => d.left # "mounted"
  BY DEF DetachOutcomes
LEMMA DetachMountsNothing ==
    ASSUME NEW d \in DetachOutcomes(vault), d.left = "mounted"
    PROVE  vault = "mounted"
  BY DEF DetachOutcomes

LEMMA DetachedSafe ==
    ASSUME NEW b \in Broker, Up(b), NEW r \in Runtime, r.life = "up", r.cmd = rt[b].cmd,
           r.pc # "auth_only", NEW d \in DetachOutcomes(vault), vault' = d.left
    PROVE  Safe(b, Detached(r, d.ok))
<1>1. CASE d.ok
  <2> DEFINE q == [r EXCEPT !.st = "LOCKED", !.owed = FALSE]
  <2>1. q \in Runtime /\ q.life = "up" /\ q.cmd = r.cmd /\ q.pc = r.pc
    BY DEF Runtime, States
  <2>2. vault' # "mounted"  BY <1>1, DetachSettles
  <2>3. Detached(r, d.ok) = q  BY <1>1 DEF Detached
  <2> HIDE DEF q
  <2> QED BY <2>1, <2>2, <2>3, OtherWord
<1>2. CASE ~d.ok
  <2> DEFINE q == [r EXCEPT !.st = "ERROR"]
  <2>1. q \in Runtime /\ q.life = "up" /\ q.cmd = r.cmd /\ q.pc = r.pc /\ q.st = "ERROR"
    BY DEF Runtime, States
  <2>2. Detached(r, d.ok) = q  BY <1>2 DEF Detached
  <2> HIDE DEF q
  <2> QED BY <2>1, <2>2, OtherWord DEF Restful
<1> QED BY <1>1, <1>2

\* The start of an operation says nothing new.
LEMMA BegunIs ==
    ASSUME IInv, NEW b \in Broker, NEW op \in Ops, May(b, op)
    PROVE  LET r == Begun(b, op) IN
           r \in Runtime /\ r.life = "up" /\ r.cmd = rt[b].cmd /\ r.pc = "idle" /\ r.st = rt[b].st
  BY BegunFits DEF May, Up

LEMMA BegunSafe ==
    ASSUME IInv, RestInv, NEW b \in Broker, NEW op \in Ops, op # "reconcile", May(b, op),
           vault' = vault
    PROVE  Safe(b, Begun(b, op))
<1> DEFINE r == Begun(b, op)
<1>1. r \in Runtime /\ r.life = "up" /\ r.cmd = rt[b].cmd /\ r.pc = rt[b].pc /\ r.st = rt[b].st
  BY BegunIs, PastReconcile
<1> HIDE DEF r
<1>2. Up(b) /\ rt[b].todo # "reconcile"
  BY PastReconcile
<1>3. Safe(b, r)
  BY <1>1, <1>2, SameWord
<1> QED BY <1>3 DEF r

LEMMA GivenUpIs ==
    ASSUME NEW r \in Runtime
    PROVE  LET q == GivenUp(r) IN
           /\ q \in Runtime /\ q.life = r.life /\ q.cmd = r.cmd /\ q.pc = r.pc /\ q.st = r.st
           /\ q.todo # "reconcile" \/ r.todo = "reconcile"
<1> DEFINE q == [r EXCEPT !.todo = "broker_shutdown"]
<1>1. q \in Runtime /\ q.life = r.life /\ q.cmd = r.cmd /\ q.pc = r.pc /\ q.st = r.st
      /\ q.todo = "broker_shutdown"
  BY DEF Runtime, Ops, GuiOps, Events, FlaggedEvents
<1> HIDE DEF q
<1>2. GivenUp(r) = q \/ GivenUp(r) = r
  BY DEF GivenUp, q
<1> QED BY <1>1, <1>2

LEMMA LockingSafe ==
    ASSUME NEW b \in Broker, Up(b), NEW r \in Runtime, r.life = "up", r.cmd = rt[b].cmd,
           NEW why \in Events \cup {"none", "idle", "recovery", "launch_failed"}
    PROVE  Safe(b, Locking(r, why))
<1> DEFINE q == [r EXCEPT !.st = "LOCKING", !.pc = "close", !.why = why]
<1>1. q \in Runtime /\ q.life = r.life /\ q.cmd = r.cmd /\ q.pc = "close"
  BY DEF Runtime, States
<1>2. Locking(r, why) = q
  BY DEF Locking
<1> HIDE DEF q
<1> QED BY <1>1, <1>2, OtherWord DEF Quiet, Asking

\* The clocks, the activity and the publisher do not speak.
LEMMA RestClock ==
    ASSUME IInv, RestInv, NEW b \in Broker,
           \/ SessionIdles(b) \/ SessionAges(b) \/ PollForeground(b) \/ NoteInteraction(b)
           \/ BackupAttaches(b)
    PROVE  RestInv'
<1> DEFINE o == rt[b]
<1>1. o \in Runtime
  BY AtBroker
<1>2. PICK r \in Runtime :
        /\ Keep(b, r) /\ r.life = o.life /\ r.cmd = o.cmd /\ r.pc = o.pc /\ r.st = o.st /\ r.todo = o.todo
  <2>1. CASE BackupAttaches(b)
    <3> DEFINE r == [o EXCEPT !.backup = FALSE]
    <3>1. Keep(b, r)
      BY <2>1 DEF BackupAttaches
    <3> HIDE DEF o
    <3>2. /\ r \in Runtime /\ r.life = o.life /\ r.cmd = o.cmd /\ r.pc = o.pc /\ r.st = o.st
          /\ r.todo = o.todo
      BY <1>1 DEF Runtime
    <3> QED BY <3>1, <3>2
  <2>2. CASE ~BackupAttaches(b)
    <3>1. PICK s \in {"idle", "aged", Refreshed(o.sess)} : Keep(b, [o EXCEPT !.sess = s])
      BY <2>2 DEF SessionIdles, SessionAges, PollForeground, NoteInteraction
    <3>2. s \in {"none", "fresh", "idle", "aged"}
      BY <1>1, <3>1 DEF Refreshed, Runtime
    <3> DEFINE r == [o EXCEPT !.sess = s]
    <3> HIDE DEF o
    <3>3. /\ r \in Runtime /\ r.life = o.life /\ r.cmd = o.cmd /\ r.pc = o.pc /\ r.st = o.st
          /\ r.todo = o.todo
      BY <1>1, <3>2 DEF Runtime
    <3> QED BY <3>1, <3>3
  <2> QED BY <2>1, <2>2
<1>3. Up(b) /\ (vault' = "mounted" => vault = "mounted")
  BY DEF SessionIdles, SessionAges, PollForeground, NoteInteraction, BackupAttaches, May
<1>4. Safe(b, r)
  BY <1>2, <1>3, SameWord DEF Up
<1> QED BY <1>2, <1>3, <1>4, SafeMove

\* The verdict on a mounted volume is never a comfortable word.
LEMMA RestReconcile ==
    ASSUME IInv, RestInv, NEW b \in Broker, Reconcile(b) \/ ReconcileFails(b)
    PROVE  RestInv'
<1> DEFINE r0 == Begun(b, "reconcile")
           verdict == Verdict(b, rt[b].mem)
           r == [r0 EXCEPT !.started = TRUE]
<1>1. May(b, "reconcile") /\ Up(b) /\ vault' = vault
  BY DEF Reconcile, ReconcileFails, May
<1>2. r0 \in Runtime /\ r0.life = "up" /\ r0.cmd = rt[b].cmd /\ r0.pc = "idle"
  BY <1>1, BegunIs DEF Ops, GuiOps
<1>3. CASE ReconcileFails(b)
  <2>1. rt[b].started \in BOOLEAN
    BY AtBroker DEF Runtime
  <2>2. PICK f \in BOOLEAN : Persist(b, [r0 EXCEPT !.st = "ERROR", !.started = f])
    BY <1>3, <2>1, Zenon DEF ReconcileFails
  <2> DEFINE q == [r0 EXCEPT !.st = "ERROR", !.started = f]
  <2> HIDE DEF r0
  <2>3. q \in Runtime /\ q.life = "up" /\ q.cmd = r0.cmd /\ q.pc = "idle" /\ q.st = "ERROR"
    BY <1>2 DEF Runtime, States
  <2> HIDE DEF q
  <2>4. Safe(b, q)
    BY <1>1, <1>2, <2>3, OtherWord DEF Restful
  <2> QED BY <1>1, <2>2, <2>4, SafeMove DEF q
<1>4. CASE Reconcile(b)
  <2>1. verdict \in States /\ (vault = "mounted" => verdict \in Exposed)
    <3>1. rt[b].mem \in Row
      BY AtBroker DEF Runtime
    <3> QED BY <3>1 DEF Verdict, States, Row, Exposed
  <2>2. PICK st \in States :
          /\ vault = "mounted" => st \in Exposed
          /\ \/ Persist(b, [r EXCEPT !.st = st])
             \/ Persist(b, [r EXCEPT !.st = st, !.owed = TRUE])
             \/ Persist(b, [r EXCEPT !.owed = FALSE, !.st = st])
             \/ Keep(b, [r EXCEPT !.st = st])
             \/ Keep(b, r) /\ vault # "mounted"
    <3>1. CASE vault = "missing"
      <4>1. vault # "mounted" /\ "LOCKED" \in States
        BY <3>1 DEF States
      <4>2. Persist(b, [r EXCEPT !.st = "LOCKED"])
        BY <1>4, <3>1, Zenon DEF Reconcile
      <4> QED BY <4>1, <4>2
    <3>2. CASE vault # "missing" /\ verdict = "RECOVERY_REQUIRED"
      <4>1. verdict \in Exposed
        BY <3>2 DEF Exposed
      <4>2. Persist(b, [r EXCEPT !.st = verdict, !.owed = TRUE])
        BY <1>4, <3>2, Zenon DEF Reconcile
      <4> QED BY <2>1, <4>1, <4>2
    <3>3. CASE vault # "missing" /\ verdict = "LOCKED" /\ ~Running(b)
      <4>1. vault # "mounted"
        BY <2>1, <3>3 DEF Exposed
      <4>2. \E st \in {"LOCKED", "SESSION_CACHED"} : Persist(b, [r EXCEPT !.owed = FALSE, !.st = st])
        BY <1>4, <3>3, Zenon DEF Reconcile
      <4>3. {"LOCKED", "SESSION_CACHED"} \subseteq States
        BY DEF States
      <4> QED BY <4>1, <4>2, <4>3
    <3>4. CASE /\ vault # "missing"
               /\ ~(vault # "missing" /\ verdict = "RECOVERY_REQUIRED")
               /\ ~(vault # "missing" /\ verdict = "LOCKED" /\ ~Running(b))
      <4>1. Keep(b, IF verdict \in Exposed THEN [r EXCEPT !.st = verdict] ELSE r)
        BY <1>4, <3>4, Zenon DEF Reconcile
      <4>2. CASE verdict \in Exposed
        BY <2>1, <4>1, <4>2
      <4>3. CASE verdict \notin Exposed
        <5>1. vault # "mounted" /\ "ERROR" \in States
          BY <2>1, <4>3 DEF States
        <5> QED BY <4>1, <4>3, <5>1
      <4> QED BY <4>2, <4>3
    <3> QED BY <3>1, <3>2, <3>3, <3>4
  <2> HIDE DEF r0
  <2>3. r \in Runtime /\ r.life = "up" /\ r.cmd = rt[b].cmd /\ r.pc = "idle"
    BY <1>2 DEF Runtime
  <2> DEFINE q1 == [r EXCEPT !.st = st]
             q2 == [r EXCEPT !.st = st, !.owed = TRUE]
             q3 == [r EXCEPT !.owed = FALSE, !.st = st]
             Told(q) == /\ q \in Runtime /\ q.life = "up" /\ q.cmd = rt[b].cmd /\ q.pc = "idle"
                        /\ q.st \notin Restful \/ vault' # "mounted"
  <2>4. st \notin Restful \/ vault' # "mounted"
    BY <1>1, <2>2 DEF Exposed, Restful
  <2> HIDE DEF r
  <2>5. Told(q1) /\ Told(q2) /\ Told(q3)
    BY <2>3, <2>4 DEF Runtime
  <2>6. vault # "mounted" => Told(r)
    BY <1>1, <2>3
  <2> HIDE DEF q1, q2, q3
  <2>7. \A q : Told(q) => Safe(b, q)
    BY <1>1, OtherWord
  <2> HIDE DEF Told
  <2>8. \E q : Safe(b, q) /\ (Keep(b, q) \/ Persist(b, q))
    BY <2>2, <2>5, <2>6, <2>7 DEF q1, q2, q3
  <2> QED BY <1>1, <2>8, SafeMove
<1> QED BY <1>3, <1>4

LEMMA RestRecover ==
    ASSUME IInv, RestInv, NEW b \in Broker, Recover(b)
    PROVE  RestInv'
<1> DEFINE r0 == Begun(b, "recover")
<1>1. /\ May(b, "recover") /\ Up(b) /\ vault' = vault
      /\ Persist(b, Locking(r0, "recovery")) \/ Keep(b, r0)
  BY DEF Recover, May
<1>2. r0 \in Runtime /\ r0.life = "up" /\ r0.cmd = rt[b].cmd
  BY <1>1, BegunIs DEF Ops
<1>3. Safe(b, r0)
  BY <1>1, BegunSafe DEF Ops
<1> HIDE DEF r0
<1>4. Safe(b, Locking(r0, "recovery"))
  BY <1>1, <1>2, LockingSafe
<1> QED BY <1>1, <1>3, <1>4, SafeMove

\* open up to its first wait.
LEMMA RestOpens ==
    ASSUME IInv, RestInv, NEW b \in Broker,
           OpenRefused(b) \/ OpenWhileRunning(b) \/ OpenStartFails(b) \/ OpenWithSession(b)
             \/ \E force \in BOOLEAN : OpenNeedsKey(b, force)
    PROVE  RestInv'
<1> DEFINE r0 == Begun(b, "open")
<1>1. May(b, "open") /\ vault' = vault
  BY DEF OpenRefused, OpenWhileRunning, OpenStartFails, OpenWithSession, OpenNeedsKey
<1>2. /\ r0 \in Runtime /\ r0.life = "up" /\ r0.cmd = rt[b].cmd /\ r0.pc = "idle" /\ r0.st = rt[b].st
      /\ Up(b) /\ rt[b].pc = "idle" /\ rt[b].todo # "reconcile"
  BY <1>1, BegunIs, PastReconcile DEF Ops, GuiOps
<1>3. CASE OpenRefused(b)
  <2>1. Keep(b, GivenUp(r0))
    BY <1>3 DEF OpenRefused
  <2> HIDE DEF r0
  <2>2. Safe(b, GivenUp(r0))
    BY <1>1, <1>2, GivenUpIs, SameWord
  <2> QED BY <1>2, <2>1, <2>2, SafeMove
<1>4. CASE OpenWhileRunning(b)
  <2> DEFINE s == Refreshed(r0.sess)
             q == [r0 EXCEPT !.sess = s]
  <2>1. Keep(b, q)
    BY <1>4 DEF OpenWhileRunning
  <2> HIDE DEF r0
  <2>2. s \in {"none", "fresh", "idle", "aged"}
    BY <1>2 DEF Refreshed, Runtime
  <2> HIDE DEF s
  <2>3. q \in Runtime /\ q.life = "up" /\ q.cmd = r0.cmd /\ q.pc = "idle" /\ q.st = r0.st
    BY <1>2, <2>2 DEF Runtime
  <2> HIDE DEF q
  <2>4. Safe(b, q)
    BY <1>1, <1>2, <2>3, SameWord
  <2> QED BY <1>2, <2>1, <2>4, SafeMove
<1>5. CASE OpenStartFails(b)
  <2> DEFINE q == [r0 EXCEPT !.st = "ERROR"]
  <2>1. Persist(b, GivenUp(q))
    BY <1>5 DEF OpenStartFails
  <2> HIDE DEF r0
  <2>2. q \in Runtime /\ q.life = "up" /\ q.cmd = r0.cmd /\ q.pc = "idle" /\ q.st = "ERROR"
    BY <1>2 DEF Runtime, States
  <2> HIDE DEF q
  <2>3. Safe(b, GivenUp(q))
    BY <1>2, <2>2, GivenUpIs, OtherWord DEF Restful
  <2> QED BY <1>2, <2>1, <2>3, SafeMove
<1>6. CASE OpenWithSession(b)
  <2> DEFINE q == [r0 EXCEPT !.started = TRUE, !.st = "UNLOCKING", !.pc = "unlock"]
  <2>1. Persist(b, q)
    BY <1>6 DEF OpenWithSession
  <2> HIDE DEF r0
  <2>2. q \in Runtime /\ q.life = "up" /\ q.cmd = r0.cmd /\ q.pc = "unlock"
    BY <1>2 DEF Runtime, States
  <2> HIDE DEF q
  <2>3. Safe(b, q)
    BY <1>2, <2>2, OtherWord DEF Quiet, Asking
  <2> QED BY <1>2, <2>1, <2>3, SafeMove
<1>7. CASE \E force \in BOOLEAN : OpenNeedsKey(b, force)
  <2> DEFINE t == [r0 EXCEPT !.started = TRUE]
             q == [t EXCEPT !.st = "AUTHENTICATING", !.sess = "none", !.pc = "auth_open"]
  <2>1. Persist(b, q)
    BY <1>7 DEF OpenNeedsKey, Authenticating
  <2> HIDE DEF r0
  <2>2. t \in Runtime /\ t.life = "up" /\ t.cmd = r0.cmd
    BY <1>2 DEF Runtime
  <2> HIDE DEF t
  <2>3. q \in Runtime /\ q.life = "up" /\ q.cmd = r0.cmd /\ q.pc = "auth_open"
    BY <2>2 DEF Runtime, States
  <2> HIDE DEF q
  <2>4. Safe(b, q)
    BY <1>2, <2>3, OtherWord DEF Quiet, Asking
  <2> QED BY <1>2, <2>1, <2>4, SafeMove
<1> QED BY <1>3, <1>4, <1>5, <1>6, <1>7

LEMMA RestProvider ==
    ASSUME IInv, RestInv, "authenticate_only" \notin Pages, NEW b \in Broker, NEW st \in {"AUTH_REQUIRED", "ERROR"},
           NEW force, ProviderRefused(b, st, force)
    PROVE  RestInv'
<1> DEFINE r0 == Begun(b, "open")
           q == [r0 EXCEPT !.st = st]
<1>1. May(b, "open") /\ Up(b) /\ Persist(b, GivenUp(q))
  BY DEF ProviderRefused, May
<1>2. r0 \in Runtime /\ r0.life = "up" /\ r0.cmd = rt[b].cmd /\ r0.pc = "idle"
  BY <1>1, BegunIs DEF Ops, GuiOps
<1> HIDE DEF r0
<1>3. q \in Runtime /\ q.life = "up" /\ q.cmd = r0.cmd /\ q.pc = "idle" /\ q.st = st
  BY <1>2 DEF Runtime, States
<1> HIDE DEF q
<1>4. Safe(b, GivenUp(q))
  BY <1>1, <1>2, <1>3, GivenUpIs, OtherWord DEF Restful
<1> QED BY <1>1, <1>4, SafeMove

\* The waits for the key, the volume and the launch.
LEMMA RestTouches ==
    ASSUME IInv, RestInv, NEW b \in Broker,
           KeyTouched(b) \/ (\E st \in {"AUTH_REQUIRED", "ERROR"} : KeyRefused(b, st))
             \/ UnlockSucceeds(b) \/ UnlockFails(b) \/ LaunchSucceeds(b) \/ LaunchFails(b)
    PROVE  RestInv'
<1> DEFINE o == rt[b]
<1>1. Up(b) /\ o \in Runtime /\ o.life = "up" /\ o.pc # "auth_only"
  BY AtBroker DEF RestInv, KeyTouched, KeyRefused, UnlockSucceeds, UnlockFails, LaunchSucceeds,
     LaunchFails, Up
<1>2. CASE KeyTouched(b)
  <2> DEFINE r0 == [o EXCEPT !.sess = "fresh", !.reauth = FALSE, !.keyed = TRUE, !.spent = FALSE]
             q == [r0 EXCEPT !.st = "UNLOCKING", !.pc = "unlock"]
             s == [r0 EXCEPT !.pc = "publish"]
  <2>1. /\ vault' = vault
        /\ \/ r0.pc = "auth_open" /\ Persist(b, q)
           \/ o.pc = "auth_backup" /\ Keep(b, s)
           \/ r0.pc = "auth_only"
    BY <1>1, <1>2 DEF KeyTouched
  <2> HIDE DEF o
  <2>2. /\ r0 \in Runtime /\ r0.life = "up" /\ r0.cmd = o.cmd /\ r0.pc = o.pc
        /\ r0.st = o.st /\ r0.todo = o.todo
    BY <1>1 DEF Runtime
  <2> HIDE DEF r0
  <2>3. q \in Runtime /\ q.life = "up" /\ q.cmd = o.cmd /\ q.pc = "unlock"
    BY <2>2, Words DEF Runtime
  <2>4. /\ s \in Runtime /\ s.life = "up" /\ s.cmd = o.cmd /\ s.pc = "publish"
        /\ s.st = o.st /\ s.todo = o.todo
    BY <2>2 DEF Runtime
  <2> HIDE DEF q, s
  <2>5. Safe(b, q)
    BY <1>1, <2>3, OtherWord DEF o, Quiet, Asking
  <2>6. o.pc = "auth_backup" => Safe(b, s)
    BY <1>1, <2>1, <2>4, SameWord DEF o, Quiet, Asking
  <2> QED BY <1>1, <2>1, <2>2, <2>5, <2>6, SafeMove
<1>3. CASE UnlockSucceeds(b)
  <2> DEFINE q == [o EXCEPT !.st = "MOUNTED", !.pc = "launch", !.spent = TRUE]
  <2>1. Persist(b, q)
    BY <1>3 DEF UnlockSucceeds
  <2> HIDE DEF o
  <2>2. q \in Runtime /\ q.life = "up" /\ q.cmd = o.cmd /\ q.pc = "launch"
    BY <1>1 DEF Runtime, States
  <2> HIDE DEF q
  <2>3. Safe(b, q)
    BY <1>1, <2>2, OtherWord DEF o, Quiet, Asking
  <2> QED BY <1>1, <2>1, <2>3, SafeMove
<1>4. CASE (\E st \in {"AUTH_REQUIRED", "ERROR"} : KeyRefused(b, st)) \/ UnlockFails(b)
  <2>1. \E q \in Runtime : /\ Persist(b, GivenUp(q))
                           /\ q.life = "up" /\ q.cmd = o.cmd /\ q.pc = "idle" /\ q.st \notin Restful
    <3>1. ASSUME NEW st \in {"AUTH_REQUIRED", "ERROR"}, KeyRefused(b, st)
          PROVE  <2>1
      <4> DEFINE q == [o EXCEPT !.st = st, !.pc = "idle"]
      <4>1. Persist(b, GivenUp(q))
        BY <3>1 DEF KeyRefused
      <4> HIDE DEF o
      <4>2. q \in Runtime /\ q.life = "up" /\ q.cmd = o.cmd /\ q.pc = "idle" /\ q.st \notin Restful
        BY <1>1, Words DEF Runtime, Restful
      <4> QED BY <4>1, <4>2
    <3>2. ASSUME UnlockFails(b)
          PROVE  <2>1
      <4> DEFINE q == [o EXCEPT !.st = "ERROR", !.sess = "none", !.pc = "idle"]
      <4>1. Persist(b, GivenUp(q))
        BY <3>2 DEF UnlockFails
      <4> HIDE DEF o
      <4>2. q \in Runtime /\ q.life = "up" /\ q.cmd = o.cmd /\ q.pc = "idle" /\ q.st \notin Restful
        BY <1>1, Words DEF Runtime, Restful
      <4> QED BY <4>1, <4>2
    <3> QED BY <1>4, <3>1, <3>2
  <2>2. PICK q \in Runtime : /\ Persist(b, GivenUp(q))
                             /\ q.life = "up" /\ q.cmd = o.cmd /\ q.pc = "idle" /\ q.st \notin Restful
    BY <2>1
  <2>3. Safe(b, GivenUp(q))
    BY <1>1, <2>2, GivenUpIs, OtherWord
  <2> QED BY <1>1, <2>2, <2>3, SafeMove
<1>5. CASE LaunchSucceeds(b)
  <2> DEFINE s == Refreshed(o.sess)
             q == [o EXCEPT !.st = "RUNNING", !.sess = s, !.pc = "idle"]
  <2>1. Persist(b, q)
    BY <1>5 DEF LaunchSucceeds
  <2> HIDE DEF o
  <2>2. s \in {"none", "fresh", "idle", "aged"}
    BY <1>1 DEF Refreshed, Runtime
  <2> HIDE DEF s
  <2>3. q \in Runtime /\ q.life = "up" /\ q.cmd = o.cmd /\ q.pc = "idle" /\ q.st = "RUNNING"
    BY <1>1, <2>2 DEF Runtime, States
  <2> HIDE DEF q
  <2>4. Safe(b, q)
    BY <1>1, <2>3, OtherWord DEF o, Restful
  <2> QED BY <1>1, <2>1, <2>4, SafeMove
<1>6. CASE LaunchFails(b)
  <2>1. Persist(b, Locking(GivenUp(o), "launch_failed"))
    BY <1>6 DEF LaunchFails
  <2>2. Safe(b, Locking(GivenUp(o), "launch_failed"))
    BY <1>1, GivenUpIs, LockingSafe
  <2> QED BY <1>1, <2>1, <2>2, SafeMove
<1> QED BY <1>2, <1>3, <1>4, <1>5, <1>6

\* A publication or a proof of ownership says nothing new, or AUTHENTICATING.
LEMMA RestKeySteps ==
    ASSUME IInv, RestInv, NEW b \in Broker, KeyStep(b)
    PROVE  RestInv'
<1> DEFINE o == rt[b]
<1>1. CASE PublishBackup(b) \/ Prove(b)
  <2>1. PICK op \in {"publish_backup", "prove"} :
          /\ May(b, op) /\ vault' = vault
          /\ \/ \E pc \in {"publish", "idle", "prove"} :
                    Keep(b, [Begun(b, op) EXCEPT !.pc = pc])
             \/ Persist(b, [Begun(b, op) EXCEPT !.st = "AUTHENTICATING", !.sess = "none",
                                                !.pc = "auth_backup"])
    BY <1>1 DEF PublishBackup, Prove, Authenticating
  <2> DEFINE r0 == Begun(b, op)
             t == [r0 EXCEPT !.st = "AUTHENTICATING", !.sess = "none", !.pc = "auth_backup"]
  <2>2. /\ r0 \in Runtime /\ r0.life = "up" /\ r0.cmd = o.cmd /\ r0.st = o.st
        /\ Up(b) /\ o.pc = "idle" /\ o.todo # "reconcile"
    BY <2>1, BegunIs, PastReconcile DEF Ops, PageOps
  <2> HIDE DEF r0
  <2>3. ASSUME NEW pc \in {"publish", "idle", "prove"}
        PROVE  Safe(b, [r0 EXCEPT !.pc = pc])
    <3> DEFINE q == [r0 EXCEPT !.pc = pc]
    <3>1. q \in Runtime /\ q.life = "up" /\ q.cmd = o.cmd /\ q.pc = pc /\ q.st = o.st
      BY <2>2, <2>3 DEF Runtime
    <3> HIDE DEF q
    <3>2. Safe(b, q)
      BY <2>1, <2>2, <2>3, <3>1, SameWord DEF o, Quiet, Asking
    <3> QED BY <3>2 DEF q
  <2>4. t \in Runtime /\ t.life = "up" /\ t.cmd = o.cmd /\ t.pc = "auth_backup"
        /\ t.st = "AUTHENTICATING"
    BY <2>2, Words DEF Runtime
  <2> HIDE DEF t
  <2>5. Safe(b, t)
    BY <2>2, <2>4, OtherWord DEF o, Restful
  <2> QED BY <2>1, <2>2, <2>3, <2>5, SafeMove DEF r0, t
<1>2. CASE PublishesUnproven(b) \/ PublishEnds(b) \/ ProofStep(b)
  <2>1. PICK pc \in {"publish", "idle", "wrap"} :
          /\ Up(b) /\ o.pc \in Asking /\ Keep(b, [o EXCEPT !.pc = pc])
          /\ vault' = "mounted" => vault = "mounted"
    BY <1>2 DEF PublishesUnproven, PublishEnds, ProofStep, Asking
  <2> DEFINE q == [o EXCEPT !.pc = pc]
  <2>2. o \in Runtime /\ o.life = "up"
    BY <2>1, AtBroker DEF Up
  <2> HIDE DEF o
  <2>3. q \in Runtime /\ q.life = "up" /\ q.cmd = o.cmd /\ q.pc = pc /\ q.st = o.st
        /\ q.todo = o.todo
    BY <2>2 DEF Runtime
  <2>4. Keep(b, q)
    BY <2>1
  <2> HIDE DEF q
  <2>5. Safe(b, q)
    BY <2>1, <2>3, SameWord DEF o, Quiet, Asking
  <2> QED BY <2>1, <2>4, <2>5, SafeMove
<1> QED BY <1>1, <1>2 DEF KeyStep

LEMMA RestEvent ==
    ASSUME IInv, RestInv, NEW b \in Broker, NEW e \in Events, SystemEvent(b, e)
    PROVE  RestInv'
<1> DEFINE r0 == Begun(b, e)
           reauth == r0.reauth \/ e \in ReauthOn
           keyed == r0.keyed /\ e \notin ReauthOn
           r == [r0 EXCEPT !.reauth = reauth, !.keyed = keyed]
<1>1. /\ May(b, e) /\ Up(b) /\ vault' = vault /\ e \in Ops /\ e # "reconcile"
      /\ Persist(b, Locking(r, e)) \/ Keep(b, r0)
  BY DEF SystemEvent, May, Ops, GuiOps, Events, FlaggedEvents
<1>2. r0 \in Runtime /\ r0.life = "up" /\ r0.cmd = rt[b].cmd
  BY <1>1, BegunIs
<1>3. Safe(b, r0)
  BY <1>1, BegunSafe
<1>4. reauth \in BOOLEAN /\ keyed \in BOOLEAN
  BY <1>2 DEF Runtime
<1> HIDE DEF r0, reauth, keyed
<1>5. r \in Runtime /\ r.life = "up" /\ r.cmd = rt[b].cmd
  BY <1>2, <1>4 DEF Runtime
<1> HIDE DEF r
<1>6. Safe(b, Locking(r, e))
  BY <1>1, <1>5, LockingSafe
<1> QED BY <1>1, <1>3, <1>6, SafeMove

LEMMA RestShutdown ==
    ASSUME IInv, RestInv, NEW b \in Broker, Shutdown(b)
    PROVE  RestInv'
<1> DEFINE r0 == Begun(b, "broker_shutdown")
           r == [r0 EXCEPT !.down = TRUE]
<1>1. /\ May(b, "broker_shutdown") /\ Up(b) /\ vault' = vault
      /\ Persist(b, Locking(r, "broker_shutdown")) \/ Keep(b, Gone(r)) \/ Keep(b, r)
  BY DEF Shutdown, May
<1>2. /\ r0 \in Runtime /\ r0.life = "up" /\ r0.cmd = rt[b].cmd /\ r0.pc = "idle" /\ r0.st = rt[b].st
      /\ rt[b].pc = "idle" /\ rt[b].todo # "reconcile"
  BY <1>1, BegunIs, PastReconcile DEF Ops, GuiOps, Events, FlaggedEvents
<1> HIDE DEF r0
<1>3. r \in Runtime /\ r.life = "up" /\ r.cmd = rt[b].cmd /\ r.pc = "idle" /\ r.st = rt[b].st
  BY <1>2 DEF Runtime
<1> HIDE DEF r
<1>4. Safe(b, r)
  BY <1>1, <1>2, <1>3, SameWord
<1>5. "broker_shutdown" \in Events
  BY DEF Events, FlaggedEvents
<1>6. Safe(b, Locking(r, "broker_shutdown")) /\ Safe(b, Gone(r))
  BY <1>1, <1>3, <1>5, LockingSafe, GoneSafe
<1> QED BY <1>1, <1>4, <1>6, SafeMove

\* The lock sequence says LOCKED only once the detach is confirmed.
LEMMA RestLocks ==
    ASSUME IInv, RestInv, NEW b \in Broker, LockStep(b)
    PROVE  RestInv'
<1> DEFINE o == rt[b]
<1>1. Up(b) /\ o \in Runtime /\ o.life = "up" /\ o.pc # "auth_only"
  BY AtBroker DEF RestInv, LockStep, CloseConfirmed, CloseTimesOut, HelperMissing, Detach, Up
<1>2. CASE CloseConfirmed(b)
  <2> DEFINE q == [o EXCEPT !.pc = "detach"]
  <2>1. Keep(b, q)
    BY <1>2 DEF CloseConfirmed
  <2> HIDE DEF o
  <2>2. q \in Runtime /\ q.life = "up" /\ q.cmd = o.cmd /\ q.pc = "detach"
    BY <1>1 DEF Runtime
  <2> HIDE DEF q
  <2>3. Safe(b, q)
    BY <1>1, <2>2, OtherWord DEF o, Quiet, Asking
  <2> QED BY <1>1, <2>1, <2>3, SafeMove
<1>3. CASE CloseTimesOut(b) \/ HelperMissing(b)
  <2> DEFINE q == [o EXCEPT !.st = "ERROR"]
  <2>1. Persist(b, Locked(q, FALSE))
    BY <1>3 DEF CloseTimesOut, HelperMissing, LockError, Detached
  <2> HIDE DEF o
  <2>2. q \in Runtime /\ q.life = "up" /\ q.cmd = o.cmd /\ q.st = "ERROR"
    BY <1>1 DEF Runtime, States
  <2> HIDE DEF q
  <2>3. Safe(b, Locked(q, FALSE))
    BY <1>1, <2>2, LockedSafe DEF o, Restful
  <2> QED BY <1>1, <2>1, <2>3, SafeMove
<1>4. CASE Detach(b)
  <2> DEFINE r0 == [o EXCEPT !.sess = "none"]
  <2>1. PICK d \in DetachOutcomes(vault) :
          /\ vault' = d.left
          /\ Persist(b, Locked([Detached(r0, d.ok) EXCEPT
                                  !.backup = @ \/ (d.ok /\ vault # "missing")], d.ok))
    BY <1>4 DEF Detach
  <2> DEFINE q == Detached(r0, d.ok)
             f == q.backup \/ (d.ok /\ vault # "missing")
             r == [q EXCEPT !.backup = f]
  <2>2. Persist(b, Locked(r, d.ok))
    BY <2>1
  <2> HIDE DEF o
  <2>3. r0 \in Runtime /\ r0.life = "up" /\ r0.cmd = o.cmd
    BY <1>1 DEF Runtime
  <2> HIDE DEF r0
  <2>4. q \in Runtime /\ q.life = "up" /\ q.cmd = o.cmd /\ (~d.ok => q.st = "ERROR")
    BY <2>3 DEF Detached, Runtime, States
  <2> HIDE DEF q
  <2>5. f \in BOOLEAN
    BY <2>4 DEF Runtime
  <2> HIDE DEF f
  <2>6. r \in Runtime /\ r.life = "up" /\ r.cmd = o.cmd /\ r.st = q.st
    BY <2>4, <2>5 DEF Runtime
  <2> HIDE DEF r
  <2>7. r.st \notin Restful \/ vault' # "mounted"
    BY <2>1, <2>4, <2>6, DetachSettles DEF Restful
  <2>8. Safe(b, Locked(r, d.ok))
    BY <1>1, <2>6, <2>7, LockedSafe DEF o
  <2> QED BY <1>1, <2>2, <2>8, SafeMove
<1> QED BY <1>2, <1>3, <1>4 DEF LockStep

\* The turn of the timer: with an unmount on exit and close_app_on_idle it drops
\* a session only over a volume it has detached.
LEMMA RestTicks ==
    ASSUME IInv, RestInv, UnmountOnExit, CloseOnIdle, NEW b \in Broker, TickStep(b)
    PROVE  RestInv'
<1> DEFINE o == rt[b]
<1>1. Up(b) /\ o \in Runtime /\ o.life = "up" /\ o.pc \in {"idle", "tick"}
  BY AtBroker DEF TickStep, TickExitFails, TickExit, IdleCloses, IdleDrops, TickEnds, AtIdleCheck, May, Up
<1>2. CASE TickExitFails(b)
  <2> DEFINE q == [o EXCEPT !.st = "ERROR", !.pc = "tick"]
  <2>1. Persist(b, q)
    BY <1>2 DEF TickExitFails
  <2> HIDE DEF o
  <2>2. q \in Runtime /\ q.life = "up" /\ q.cmd = o.cmd /\ q.pc = "tick" /\ q.st = "ERROR"
    BY <1>1 DEF Runtime, States
  <2> HIDE DEF q
  <2>3. Safe(b, q)
    BY <1>1, <2>2, OtherWord DEF o, Restful
  <2> QED BY <1>1, <2>1, <2>3, SafeMove
<1>3. CASE TickExit(b)
  <2> DEFINE t == [o EXCEPT !.pc = "tick"]
             q1 == [t EXCEPT !.st = "LOCKED", !.sess = "none"]
             q2 == [t EXCEPT !.st = "SESSION_CACHED"]
  <2>1. /\ \E d \in DetachOutcomes(vault) : d.ok /\ vault' = d.left
        /\ Persist(b, q1) \/ Persist(b, q2)
    BY <1>3 DEF TickExit
  <2>2. vault' # "mounted"
    BY <2>1, DetachSettles
  <2> HIDE DEF o
  <2>3. t \in Runtime /\ t.life = "up" /\ t.cmd = o.cmd /\ t.pc = "tick"
    BY <1>1 DEF Runtime
  <2> HIDE DEF t
  <2>4. /\ q1 \in Runtime /\ q1.life = "up" /\ q1.cmd = o.cmd /\ q1.pc = "tick"
        /\ q2 \in Runtime /\ q2.life = "up" /\ q2.cmd = o.cmd /\ q2.pc = "tick"
    BY <2>3 DEF Runtime, States
  <2> HIDE DEF q1, q2
  <2>5. Safe(b, q1) /\ Safe(b, q2)
    BY <1>1, <2>2, <2>4, OtherWord DEF o
  <2> QED BY <1>1, <2>1, <2>5, SafeMove
<1>4. CASE IdleCloses(b)
  <2>1. Persist(b, Locking(o, "idle"))
    BY <1>4 DEF IdleCloses
  <2>2. Safe(b, Locking(o, "idle"))
    BY <1>1, LockingSafe
  <2> QED BY <1>1, <2>1, <2>2, SafeMove
<1>5. CASE IdleDrops(b)
  <2> DEFINE q == [o EXCEPT !.sess = "none", !.pc = "idle"]
  <2>1. PICK d \in DetachOutcomes(vault) : vault' = d.left /\ Persist(b, Detached(q, d.ok))
    BY <1>5 DEF IdleDrops, MustClose
  <2> HIDE DEF o
  <2>2. q \in Runtime /\ q.life = "up" /\ q.cmd = o.cmd /\ q.pc = "idle"
    BY <1>1 DEF Runtime
  <2> HIDE DEF q
  <2>3. Safe(b, Detached(q, d.ok))
    BY <1>1, <2>1, <2>2, DetachedSafe DEF o
  <2> QED BY <1>1, <2>1, <2>3, SafeMove
<1>6. CASE TickEnds(b)
  <2> DEFINE q == [o EXCEPT !.pc = "idle"]
  <2>1. Keep(b, q) /\ vault' = vault /\ o.pc = "tick"
    BY <1>6 DEF TickEnds
  <2> HIDE DEF o
  <2>2. q \in Runtime /\ q.life = "up" /\ q.cmd = o.cmd /\ q.pc = "idle" /\ q.st = o.st /\ q.todo = o.todo
    BY <1>1 DEF Runtime
  <2> HIDE DEF q
  <2>3. Safe(b, q)
    BY <1>1, <2>1, <2>2, SameWord DEF o, Quiet
  <2> QED BY <1>1, <2>1, <2>3, SafeMove
<1> QED BY <1>2, <1>3, <1>4, <1>5, <1>6 DEF TickStep

LEMMA RestMode ==
    ASSUME IInv, RestInv, NEW b \in Broker, NEW m \in BOOLEAN, SetMode(b, m)
    PROVE  RestInv'
<1> DEFINE r0 == Begun(b, "set_mode")
           r == [r0 EXCEPT !.aggressive = m]
           f == [r EXCEPT !.sess = "none"]
<1>1. /\ May(b, "set_mode") /\ Up(b)
      /\ \/ vault' = vault /\ Keep(b, r)
         \/ \E d \in DetachOutcomes(vault) : vault' = d.left /\ Persist(b, Detached(f, d.ok))
  BY DEF SetMode, May
<1>2. /\ r0 \in Runtime /\ r0.life = "up" /\ r0.cmd = rt[b].cmd /\ r0.pc = "idle" /\ r0.st = rt[b].st
      /\ rt[b].pc = "idle" /\ rt[b].todo # "reconcile"
  BY <1>1, BegunIs, PastReconcile DEF Ops, GuiOps
<1> HIDE DEF r0
<1>3. r \in Runtime /\ r.life = "up" /\ r.cmd = rt[b].cmd /\ r.pc = "idle" /\ r.st = rt[b].st
  BY <1>2 DEF Runtime
<1> HIDE DEF r
<1>4. f \in Runtime /\ f.life = "up" /\ f.cmd = rt[b].cmd /\ f.pc = "idle"
  BY <1>3 DEF Runtime
<1> HIDE DEF f
<1>5. CASE vault' = vault /\ Keep(b, r)
  <2>1. Safe(b, r)
    BY <1>1, <1>2, <1>3, <1>5, SameWord
  <2> QED BY <1>1, <1>5, <2>1, SafeMove
<1>6. CASE \E d \in DetachOutcomes(vault) : vault' = d.left /\ Persist(b, Detached(f, d.ok))
  <2>1. PICK d \in DetachOutcomes(vault) : vault' = d.left /\ Persist(b, Detached(f, d.ok))
    BY <1>6
  <2>2. Safe(b, Detached(f, d.ok))
    BY <1>1, <1>4, <2>1, DetachedSafe
  <2> QED BY <1>1, <2>1, <2>2, SafeMove
<1> QED BY <1>1, <1>5, <1>6

\* A process starts with a reconcile before it; one that ends rests no more.
LEMMA RestStart ==
    ASSUME IInv, RestInv, Commands \subseteq Guarded, NEW b \in Broker,
           NEW c \in Commands, Start(b, c)
    PROVE  RestInv'
<1>1. PICK row \in {disk} \cup {NoRow} :
        rt' = [rt EXCEPT ![b] = [rt[b] EXCEPT !.life = "up", !.cmd = c,
                                              !.todo = First(c), !.mem = row]]
  BY DEF Start
<1> DEFINE first == First(c)
           o == rt[b]
           q == [o EXCEPT !.life = "up", !.cmd = c, !.todo = first, !.mem = row]
<1>2. c \in Guarded /\ vault' = vault /\ o \in Runtime
  BY AtBroker DEF Start
<1>3. first = "reconcile"
  BY <1>2 DEF First, Guarded
<1>4. rt' = [rt EXCEPT ![b] = q]
  BY <1>1
<1> HIDE DEF first, o
<1>5. q.life = "up" /\ q.cmd = c /\ q.todo = first /\ q.pc = o.pc
  BY <1>2 DEF Runtime
<1> HIDE DEF q
<1>6. rt'[b] = q /\ \A d \in Broker \ {b} : rt'[d] = rt[d]
  BY <1>4 DEF IInv, TypeOK
<1>7. rt[b].pc # "auth_only"
  BY DEF RestInv
<1> QED BY <1>2, <1>3, <1>5, <1>6, <1>7 DEF RestInv, Resting, Up, o

LEMMA RestProcess ==
    ASSUME IInv, RestInv, Commands \subseteq Guarded, NEW b \in Broker,
           Exit(b) \/ Crash(b) \/ \E c \in Commands : Start(b, c)
    PROVE  RestInv'
<1>1. CASE Exit(b) \/ Crash(b)
  <2>1. Up(b) /\ Keep(b, Gone(rt[b])) /\ rt[b] \in Runtime
    BY <1>1, AtBroker DEF Exit, Crash, May
  <2> QED BY <2>1, GoneSafe, SafeMove
<1> QED BY <1>1, RestStart

LEMMA RestStep ==
    ASSUME Commands \subseteq Guarded, UnmountOnExit, CloseOnIdle, "authenticate_only" \notin Pages, IInv, RestInv, [Next]_vars
    PROVE  RestInv'
<1>1. CASE UNCHANGED vars
  BY <1>1 DEF vars, RestInv, Resting, Up
<1>2. CASE Reboot
  <2>1. \A b \in Broker : rt'[b].life # "up" /\ rt'[b].pc # "auth_only"
    <3> TAKE b \in Broker
    <3>1. rt'[b] = IF Up(b) THEN Gone(rt[b]) ELSE rt[b]
      BY <1>2 DEF Reboot
    <3> QED BY <3>1, AtBroker, GoneFits DEF Up, RestInv
  <2> QED BY <2>1 DEF RestInv, Resting, Up
<1>3. CASE AppExits
  BY <1>3 DEF AppExits, RestInv, Resting, Up
<1>4. ASSUME NEW b \in Broker,
             (\E c \in Commands : Start(b, c)) \/ Exit(b) \/ Crash(b)
      PROVE  RestInv'
  BY <1>4, RestProcess
<1>5. ASSUME NEW b \in Broker,
             \/ SessionIdles(b) \/ SessionAges(b) \/ PollForeground(b) \/ NoteInteraction(b)
             \/ BackupAttaches(b) \/ ReconcileFails(b) \/ Reconcile(b) \/ Recover(b)
      PROVE  RestInv'
  BY <1>5, RestClock, RestReconcile, RestRecover
<1>6. ASSUME NEW b \in Broker, OpenStep(b) PROVE RestInv'
  <2>1. ~\E force \in BOOLEAN : AuthenticateOnly(b, force)
    BY DEF AuthenticateOnly
  <2> QED BY <1>6, <2>1, RestOpens, RestProvider, RestTouches DEF OpenStep
<1>7. ASSUME NEW b \in Broker, LockStep(b) \/ TickStep(b) \/ Shutdown(b)
      PROVE  RestInv'
  BY <1>7, RestLocks, RestTicks, RestShutdown
<1>8. ASSUME NEW b \in Broker,
             \/ KeyStep(b)
             \/ \E e \in Events : SystemEvent(b, e)
             \/ \E m \in BOOLEAN : SetMode(b, m)
      PROVE  RestInv'
  BY <1>8, RestKeySteps, RestEvent, RestMode
<1> QED
  BY <1>1, <1>2, <1>3, <1>4, <1>5, <1>6, <1>7, <1>8, Zenon DEF Next

\* No comfortable word over a readable vault, for any number of windows and
\* "sa_cli open" processes, started, crashed and restarted in any order under
\* any faults, if the policy unmounts on exit and closes the application on
\* idle and no migration borrows the secret (sa_broker._tick_profile,
\* _secure_lock, set_mode).
THEOREM RestStaysUnreadable ==
    ASSUME Commands \subseteq Guarded, UnmountOnExit, CloseOnIdle, "authenticate_only" \notin Pages
    PROVE  Spec => []RestIsUnreadable
<1>1. Init => RestInv
  <2> SUFFICES ASSUME Init PROVE RestInv
    OBVIOUS
  <2> QED BY NewFits DEF Init, RestInv, Resting, Up
<1>2. IInv /\ RestInv /\ [Next]_vars => RestInv'
  BY RestStep
<1>3. RestInv => RestIsUnreadable
  BY DEF RestInv, Resting, Quiet, RestIsUnreadable, AtRest, Up, Restful
<1> QED BY <1>1, <1>2, <1>3, Invariance, PTL DEF Spec

-----------------------------------------------------------------------------
\* UncleanEndIsNoticed.  Where every broker takes the mutex and the state file takes
\* every write, the row of a broker is what it said last, and the row a new broker has
\* read is what the dead one said last.
RowInv ==
    /\ \A b \in Broker :
          /\ Up(b) => rt[b].cmd \in Guarded
          /\ Up(b) /\ rt[b].todo = "reconcile" => rt[b].pc = "idle"
          /\ rt[b].life # "new" /\ rt[b].mem.by = b => rt[b].mem.state = rt[b].st
          /\ disk.by = b => rt[b].life # "new" /\ disk = rt[b].mem
    /\ \A a, b \in Broker :
          rt[a].life = "gone" /\ Up(b) /\ rt[b].todo = "reconcile" /\ rt[b].mem.by = a
            => rt[b].mem.state = rt[a].st

\* What the runtime o of a live broker may become without a new row.
Onward(o, q) ==
    /\ q \in Runtime
    /\ q.life \in {"up", "gone"}
    /\ q.life = "up" => q.cmd = o.cmd
    /\ q.todo = "reconcile" => q.life = "up" /\ o.todo = "reconcile" /\ q.pc = o.pc
    /\ q.mem = o.mem

LEMMA RowMove ==
    ASSUME IInv, RowInv, "state_file" \notin Faults, NEW b \in Broker, Up(b), NEW q, Onward(rt[b], q),
           Persist(b, q) \/ (Keep(b, q) /\ (q.st = rt[b].st \/ (rt[b].mem.by = b /\ q.st = rt[b].mem.state)))
    PROVE  RowInv'
<1> DEFINE o == rt[b]
<1>1. /\ rt \in [Broker -> Runtime] /\ o \in Runtime /\ o.mem \in Row /\ q \in Runtime
      /\ \A c \in Broker \ {b} : ~Up(c)
  <2>1. \A c \in Broker \ {b} : ~Up(c)
    BY AtBroker DEF RowInv, Shared
  <2> QED BY <2>1, AtBroker DEF IInv, TypeOK, Runtime, Onward
<1>2. PICK p \in Runtime :
        /\ rt' = [rt EXCEPT ![b] = p]
        /\ p.life = q.life /\ p.cmd = q.cmd /\ p.pc = q.pc /\ p.todo = q.todo /\ p.st = q.st
        /\ \/ p.mem.by = b /\ p.mem.state = p.st /\ disk' = p.mem
           \/ /\ disk' = disk /\ p.mem = o.mem
              /\ p.st = o.st \/ (p.mem.by = b /\ p.mem.state = p.st)
  <2>1. CASE Persist(b, q)
    <3> DEFINE row == [state |-> q.st, by |-> b]
               p == [q EXCEPT !.mem = row]
    <3>1. row \in Row /\ row.by = b /\ row.state = q.st
      BY <1>1 DEF Runtime, Row
    <3>2. rt' = [rt EXCEPT ![b] = p] /\ disk' = row
      BY <2>1 DEF Persist
    <3> HIDE DEF row
    <3>3. /\ p \in Runtime /\ p.life = q.life /\ p.cmd = q.cmd /\ p.pc = q.pc /\ p.todo = q.todo
          /\ p.st = q.st /\ p.mem = row
      BY <1>1, <3>1 DEF Runtime
    <3> HIDE DEF p
    <3> QED BY <3>1, <3>2, <3>3
  <2>2. CASE Keep(b, q) /\ (q.st = rt[b].st \/ (rt[b].mem.by = b /\ q.st = rt[b].mem.state))
    BY <1>1, <2>2 DEF Keep, Onward
  <2> QED BY <2>1, <2>2
<1>3. rt'[b] = p /\ \A c \in Broker \ {b} : rt'[c] = rt[c]
  BY <1>1, <1>2
<1>4. /\ p.life \in {"up", "gone"} /\ (p.life = "up" => p.cmd = o.cmd)
      /\ p.todo = "reconcile" => p.life = "up" /\ o.todo = "reconcile" /\ p.pc = o.pc
  BY <1>2 DEF Onward
<1>5. o.life = "up"
  BY DEF Up
<1> HIDE DEF o
<1>6. ASSUME NEW c \in Broker
      PROVE  /\ rt'[c].life = "up" => rt'[c].cmd \in Guarded
             /\ rt'[c].life = "up" /\ rt'[c].todo = "reconcile" => rt'[c].pc = "idle"
             /\ rt'[c].life # "new" /\ rt'[c].mem.by = c => rt'[c].mem.state = rt'[c].st
             /\ disk'.by = c => rt'[c].life # "new" /\ disk' = rt'[c].mem
  <2>1. CASE c = b
    <3>1. /\ o.cmd \in Guarded /\ (o.todo = "reconcile" => o.pc = "idle")
          /\ (o.mem.by = b => o.mem.state = o.st) /\ (disk.by = b => disk = o.mem)
      BY <1>5 DEF RowInv, Up, o
    <3> QED BY <1>2, <1>3, <1>4, <2>1, <3>1
  <2>2. CASE c # b
    <3>1. rt'[c] = rt[c] /\ ~Up(c)
      BY <1>1, <1>3, <2>2
    <3>2. disk'.by = c => disk' = disk
      BY <1>2, <2>2
    <3> QED BY <3>1, <3>2 DEF RowInv, Up
  <2> QED BY <2>1, <2>2
<1>7. ASSUME NEW a \in Broker, NEW c \in Broker,
             rt'[a].life = "gone", rt'[c].life = "up", rt'[c].todo = "reconcile", rt'[c].mem.by = a
      PROVE  rt'[c].mem.state = rt'[a].st
  <2>1. c = b /\ a # b
    BY <1>1, <1>3, <1>7 DEF Up
  <2>2. rt'[a] = rt[a] /\ p.mem = o.mem /\ o.todo = "reconcile"
    BY <1>2, <1>3, <1>4, <1>7, <2>1
  <2> QED BY <1>3, <1>5, <1>7, <2>1, <2>2 DEF RowInv, Up, o
<1> QED BY <1>6, <1>7 DEF RowInv, Up

-----------------------------------------------------------------------------
\* What the helpers make of a runtime goes onward.

LEMMA GoneOnward ==
    ASSUME NEW o \in Runtime, NEW q, Onward(o, q)
    PROVE  Onward(o, Gone(q)) /\ Gone(q).st = q.st
<1> DEFINE g == [NewRuntime EXCEPT !.life = "gone", !.st = q.st, !.mem = q.mem]
<1>1. q.st \in States /\ q.mem \in Row /\ q.mem = o.mem /\ q \in Runtime
  BY DEF Onward, Runtime
<1>2. NewRuntime.todo = "exit"
  BY DEF NewRuntime
<1>3. g \in Runtime /\ g.life = "gone" /\ g.todo = "exit" /\ g.mem = q.mem /\ g.st = q.st
  BY <1>1, <1>2, NewFits DEF Runtime
<1>4. Gone(q) = g
  BY DEF Gone
<1> HIDE DEF g
<1> QED BY <1>1, <1>3, <1>4 DEF Onward

LEMMA SelfOnward ==
    ASSUME IInv, NEW b \in Broker, Up(b)
    PROVE  rt[b] \in Runtime /\ Onward(rt[b], rt[b])
  BY AtBroker DEF Onward, Up

\* The start of an operation that reconcile is past.
LEMMA BegunOnward ==
    ASSUME IInv, NEW b \in Broker, NEW op \in Ops, op # "reconcile", Up(b), rt[b].pc = "idle"
    PROVE  /\ rt[b] \in Runtime /\ Onward(rt[b], Begun(b, op)) /\ Begun(b, op).todo # "reconcile"
           /\ Begun(b, op).st = rt[b].st /\ Begun(b, op).pc = "idle"
<1> DEFINE o == rt[b]
           todo == IF o.todo = "any" /\ op = "reconcile" THEN "recover" ELSE After(o.cmd, op)
           r == [o EXCEPT !.todo = todo]
<1>1. o \in Runtime /\ o.cmd \in AllCommands /\ o.life = "up" /\ o.pc = "idle"
  BY AtBroker DEF Runtime, Up
<1>2. todo \in Ops /\ todo # "reconcile"
  BY <1>1, AfterScript DEF After
<1>3. Begun(b, op) = r
  BY DEF Begun
<1> HIDE DEF todo, o
<1>4. /\ r \in Runtime /\ r.life = "up" /\ r.cmd = o.cmd /\ r.todo = todo /\ r.mem = o.mem
      /\ r.st = o.st /\ r.pc = o.pc
  BY <1>1, <1>2 DEF Runtime
<1> HIDE DEF r
<1> QED BY <1>1, <1>2, <1>3, <1>4 DEF Onward, o, Up

LEMMA GivenUpOnward ==
    ASSUME NEW o \in Runtime, NEW q, Onward(o, q)
    PROVE  Onward(o, GivenUp(q)) /\ GivenUp(q).st = q.st
<1> DEFINE g == [q EXCEPT !.todo = "broker_shutdown"]
<1>1. q \in Runtime
  BY DEF Onward
<1>2. g \in Runtime /\ g.life = q.life /\ g.cmd = q.cmd /\ g.todo = "broker_shutdown" /\ g.mem = q.mem
      /\ g.st = q.st
  BY <1>1 DEF Runtime, Ops, GuiOps, Events, FlaggedEvents
<1>3. GivenUp(q) = q \/ GivenUp(q) = g
  BY DEF GivenUp
<1> HIDE DEF g
<1> QED BY <1>2, <1>3 DEF Onward

\* Fields that are not the program's may change, once reconcile is past.
Alike(q, r) == /\ r \in Runtime
               /\ r.life = q.life /\ r.cmd = q.cmd /\ r.todo = q.todo /\ r.mem = q.mem
LEMMA AlikeOnward ==
    ASSUME NEW o, NEW q, Onward(o, q), NEW r, Alike(q, r), r.todo # "reconcile"
    PROVE  Onward(o, r)
  BY DEF Onward, Alike

\* A word, a secret and a wait.
LEMMA WordAlike ==
    ASSUME NEW r \in Runtime, NEW st \in States, NEW sess \in {"none", "fresh", "idle", "aged"},
           NEW pc \in {"idle", "auth_open", "auth_only", "auth_backup", "unlock", "launch",
                       "publish", "prove", "wrap", "close", "detach", "tick"},
           NEW q, q = [r EXCEPT !.st = st, !.sess = sess, !.pc = pc]
    PROVE  Alike(r, q)
<1>1. q \in Runtime
  BY DEF Runtime
<1>2. q.life = r.life /\ q.cmd = r.cmd /\ q.todo = r.todo /\ q.mem = r.mem
  BY DEF Runtime
<1> QED BY <1>1, <1>2 DEF Alike

\* A report of a detach, a lock that begins, and one that ends.
LEMMA DetachedOnward ==
    ASSUME NEW o, NEW q, Onward(o, q), q.todo # "reconcile", NEW ok
    PROVE  Onward(o, Detached(q, ok)) /\ Detached(q, ok).todo # "reconcile"
<1> DEFINE f == [q EXCEPT !.st = "LOCKED", !.owed = FALSE]
           g == [q EXCEPT !.st = "ERROR"]
<1>1. q \in Runtime
  BY DEF Onward
<1>2. Alike(q, f) /\ Alike(q, g)
  BY <1>1 DEF Runtime, Alike, States
<1>3. Detached(q, ok) = f \/ Detached(q, ok) = g
  BY DEF Detached
<1> HIDE DEF f, g
<1> QED BY <1>2, <1>3, AlikeOnward DEF Alike

LEMMA LockingOnward ==
    ASSUME NEW o, NEW q, Onward(o, q), q.todo # "reconcile",
           NEW why \in Events \cup {"none", "idle", "recovery", "launch_failed"}
    PROVE  Onward(o, Locking(q, why))
<1> DEFINE f == [q EXCEPT !.st = "LOCKING", !.pc = "close", !.why = why]
<1>1. q \in Runtime
  BY DEF Onward
<1>2. Alike(q, f)
  <2>1. f \in Runtime
    BY <1>1, Words DEF Runtime
  <2>2. f.life = q.life /\ f.cmd = q.cmd /\ f.todo = q.todo /\ f.mem = q.mem
    BY <1>1 DEF Runtime
  <2> QED BY <2>1, <2>2 DEF Alike
<1>3. Locking(q, why) = f
  BY DEF Locking
<1> HIDE DEF f
<1> QED BY <1>2, <1>3, AlikeOnward DEF Alike

LEMMA LockedOnward ==
    ASSUME NEW o \in Runtime, NEW q, Onward(o, q), q.todo # "reconcile", NEW ok
    PROVE  Onward(o, Locked(q, ok))
<1> DEFINE reauth == q.reauth \/ q.why \in Ending
           keyed == q.keyed /\ q.why \notin Ending
           st == IF ok /\ reauth /\ q.why \in Events THEN "AUTH_REQUIRED" ELSE q.st
           f == [q EXCEPT !.pc = "idle", !.why = "none", !.reauth = reauth,
                          !.keyed = keyed, !.st = st]
<1>1. q \in Runtime
  BY DEF Onward
<1>2. reauth \in BOOLEAN /\ keyed \in BOOLEAN /\ st \in States
  BY <1>1 DEF Runtime, States
<1>3. Locked(q, ok) = f \/ Locked(q, ok) = Gone(f)
  BY DEF Locked
<1> HIDE DEF reauth, keyed, st
<1>4. Alike(q, f)
  <2>1. f \in Runtime
    BY <1>1, <1>2 DEF Runtime
  <2>2. f.life = q.life /\ f.cmd = q.cmd /\ f.todo = q.todo /\ f.mem = q.mem
    BY <1>1 DEF Runtime
  <2> QED BY <2>1, <2>2 DEF Alike
<1> HIDE DEF f
<1>5. Onward(o, f)
  BY <1>4, AlikeOnward DEF Alike
<1> QED BY <1>3, <1>5, GoneOnward

-----------------------------------------------------------------------------
\* The invariant, action by action.

\* A step of the clock or of the publisher.
LEMMA RowClock ==
    ASSUME IInv, RowInv, "state_file" \notin Faults, NEW b \in Broker,
           \/ SessionIdles(b) \/ SessionAges(b) \/ PollForeground(b) \/ NoteInteraction(b)
           \/ BackupAttaches(b)
    PROVE  RowInv' /\ rt'[b].todo = rt[b].todo /\ rt'[b].life = "up"
<1> DEFINE o == rt[b]
<1>1. o \in Runtime /\ Up(b) /\ o.life = "up"
  BY AtBroker DEF SessionIdles, SessionAges, PollForeground, NoteInteraction, BackupAttaches, May, Up
<1>2. PICK r \in Runtime : Keep(b, r) /\ Alike(o, r) /\ r.pc = o.pc /\ r.st = o.st
  <2>1. CASE BackupAttaches(b)
    <3> DEFINE r == [o EXCEPT !.backup = FALSE]
    <3>1. Keep(b, r)
      BY <2>1 DEF BackupAttaches
    <3> HIDE DEF o
    <3>2. r \in Runtime /\ Alike(o, r) /\ r.pc = o.pc /\ r.st = o.st
      BY <1>1 DEF Runtime, Alike
    <3> QED BY <3>1, <3>2
  <2>2. CASE ~BackupAttaches(b)
    <3>1. PICK s \in {"idle", "aged", Refreshed(o.sess)} : Keep(b, [o EXCEPT !.sess = s])
      BY <2>2 DEF SessionIdles, SessionAges, PollForeground, NoteInteraction
    <3>2. s \in {"none", "fresh", "idle", "aged"}
      BY <1>1, <3>1 DEF Refreshed, Runtime
    <3> DEFINE r == [o EXCEPT !.sess = s]
    <3> HIDE DEF o
    <3>3. r \in Runtime /\ Alike(o, r) /\ r.pc = o.pc /\ r.st = o.st
      BY <1>1, <3>2 DEF Runtime, Alike
    <3> QED BY <3>1, <3>3
  <2> QED BY <2>1, <2>2
<1>3. Onward(o, r)
  BY <1>1, <1>2 DEF Onward, Alike
<1>4. RowInv'
  BY <1>1, <1>2, <1>3, RowMove
<1>5. rt'[b] = r
  BY <1>2 DEF Keep, IInv, TypeOK
<1> QED BY <1>1, <1>2, <1>4, <1>5 DEF Alike

LEMMA RowRecover ==
    ASSUME IInv, RowInv, "state_file" \notin Faults, NEW b \in Broker, Recover(b)
    PROVE  RowInv'
<1> DEFINE r == Begun(b, "recover")
<1>1. May(b, "recover") /\ (Persist(b, Locking(r, "recovery")) \/ Keep(b, r))
  BY DEF Recover
<1>2. Onward(rt[b], r) /\ r.todo # "reconcile" /\ r.st = rt[b].st /\ Up(b)
  BY <1>1, BegunOnward DEF Ops, May
<1> HIDE DEF r
<1>3. Onward(rt[b], Locking(r, "recovery"))
  BY <1>2, LockingOnward
<1> QED BY <1>1, <1>2, <1>3, RowMove

LEMMA RowOpens ==
    ASSUME IInv, RowInv, "state_file" \notin Faults, NEW b \in Broker,
           \/ OpenRefused(b) \/ OpenWhileRunning(b) \/ OpenStartFails(b) \/ OpenWithSession(b)
           \/ \E force \in BOOLEAN : OpenNeedsKey(b, force)
           \/ \E force \in BOOLEAN, st \in {"AUTH_REQUIRED", "ERROR"} :
                 ProviderRefused(b, st, force)
    PROVE  RowInv'
<1> DEFINE r0 == Begun(b, "open")
<1>1. Up(b) /\ rt[b].pc = "idle"
  BY DEF OpenRefused, OpenWhileRunning, OpenStartFails, OpenWithSession, OpenNeedsKey,
         ProviderRefused, May
<1>2. /\ rt[b] \in Runtime /\ Onward(rt[b], r0) /\ r0.todo # "reconcile" /\ r0.st = rt[b].st
      /\ Up(b) /\ r0 \in Runtime
  BY <1>1, BegunOnward DEF Ops, GuiOps, Onward
<1>3. CASE OpenRefused(b)
  <2>1. Keep(b, GivenUp(r0))
    BY <1>3 DEF OpenRefused
  <2> HIDE DEF r0
  <2> QED BY <1>2, <2>1, GivenUpOnward, RowMove
<1>4. CASE OpenWhileRunning(b)
  <2> DEFINE s == Refreshed(r0.sess)
             q == [r0 EXCEPT !.sess = s]
  <2>1. Keep(b, q)
    BY <1>4 DEF OpenWhileRunning
  <2> HIDE DEF r0
  <2>2. s \in {"none", "fresh", "idle", "aged"}
    BY <1>2 DEF Refreshed, Runtime
  <2> HIDE DEF s
  <2>3. Alike(r0, q) /\ q.st = r0.st
    BY <1>2, <2>2 DEF Runtime, Alike
  <2> HIDE DEF q
  <2> QED BY <1>2, <2>1, <2>3, AlikeOnward, RowMove DEF Alike
<1>5. CASE \/ OpenStartFails(b)
           \/ \E force \in BOOLEAN, st \in {"AUTH_REQUIRED", "ERROR"} :
                 ProviderRefused(b, st, force)
  <2>1. PICK st \in {"AUTH_REQUIRED", "ERROR"} : Persist(b, GivenUp([r0 EXCEPT !.st = st]))
    BY <1>5 DEF OpenStartFails, ProviderRefused
  <2> DEFINE q == [r0 EXCEPT !.st = st]
  <2> HIDE DEF r0
  <2>2. Alike(r0, q)
    BY <1>2 DEF Runtime, States, Alike
  <2>3. Persist(b, GivenUp(q))
    BY <2>1
  <2> HIDE DEF q
  <2>4. Onward(rt[b], q)
    BY <1>2, <2>2, AlikeOnward DEF Alike
  <2> QED BY <1>2, <2>3, <2>4, GivenUpOnward, RowMove
<1>6. CASE OpenWithSession(b)
  <2> DEFINE q == [r0 EXCEPT !.started = TRUE, !.st = "UNLOCKING", !.pc = "unlock"]
             t == [r0 EXCEPT !.started = TRUE]
  <2>1. Persist(b, q)
    BY <1>6 DEF OpenWithSession
  <2> HIDE DEF r0
  <2>2. Alike(r0, q)
    <3>0. t \in Runtime /\ q = [t EXCEPT !.st = "UNLOCKING", !.pc = "unlock"]
      BY <1>2 DEF Runtime
    <3>1. q \in Runtime
      <4> HIDE DEF t
      <4> QED BY <3>0, Words DEF Runtime
    <3>2. q.life = r0.life /\ q.cmd = r0.cmd /\ q.todo = r0.todo /\ q.mem = r0.mem
      BY <1>2 DEF Runtime
    <3> QED BY <3>1, <3>2 DEF Alike
  <2> HIDE DEF q
  <2> QED BY <1>2, <2>1, <2>2, AlikeOnward, RowMove DEF Alike
<1>7. CASE \E force \in BOOLEAN : OpenNeedsKey(b, force)
  <2> DEFINE t == [r0 EXCEPT !.started = TRUE]
             q == [t EXCEPT !.st = "AUTHENTICATING", !.sess = "none", !.pc = "auth_open"]
  <2>1. Persist(b, q)
    BY <1>7 DEF OpenNeedsKey, Authenticating
  <2> HIDE DEF r0
  <2>2. Alike(r0, t)
    BY <1>2 DEF Runtime, Alike
  <2> HIDE DEF t
  <2>3. Alike(t, q)
    <3>1. t \in Runtime
      BY <2>2 DEF Alike
    <3>2. "AUTHENTICATING" \in States
      BY DEF States
    <3> QED BY <3>1, <3>2, WordAlike
  <2> HIDE DEF q
  <2> QED BY <1>2, <2>1, <2>2, <2>3, AlikeOnward, RowMove DEF Alike
<1> QED BY <1>3, <1>4, <1>5, <1>6, <1>7

LEMMA RowTouches ==
    ASSUME IInv, RowInv, "state_file" \notin Faults, NEW b \in Broker,
           \/ \E force \in BOOLEAN : AuthenticateOnly(b, force)
           \/ KeyTouched(b) \/ \E st \in {"AUTH_REQUIRED", "ERROR"} : KeyRefused(b, st)
           \/ UnlockSucceeds(b) \/ UnlockFails(b) \/ LaunchSucceeds(b) \/ LaunchFails(b)
    PROVE  RowInv'
<1> DEFINE o == rt[b]
<1>1. /\ Up(b) /\ o \in Runtime /\ o.life = "up" /\ o.todo # "reconcile"
      /\ Onward(o, o)
  <2>1. Up(b) /\ (o.pc # "idle" \/ o.todo # "reconcile")
    BY DEF AuthenticateOnly, May, KeyTouched, KeyRefused, UnlockSucceeds, UnlockFails,
           LaunchSucceeds, LaunchFails
  <2> QED BY <2>1, SelfOnward DEF RowInv, Up
<1>2. CASE KeyTouched(b)
  <2> DEFINE r == [o EXCEPT !.sess = "fresh", !.reauth = FALSE, !.keyed = TRUE, !.spent = FALSE]
             k == [r EXCEPT !.pc = "publish"]
  <2>1. \/ \E st \in {"UNLOCKING", "SESSION_CACHED"}, pc \in {"unlock", "idle"} :
              Persist(b, [r EXCEPT !.st = st, !.pc = pc])
        \/ Keep(b, k)
    BY <1>2 DEF KeyTouched
  <2> HIDE DEF o
  <2>2. Alike(o, r)
    <3>1. r \in Runtime
      BY <1>1 DEF Runtime
    <3>2. r.life = o.life /\ r.cmd = o.cmd /\ r.todo = o.todo /\ r.mem = o.mem
      BY <1>1 DEF Runtime
    <3> QED BY <3>1, <3>2 DEF Alike
  <2>3. r.st = o.st
    BY <1>1 DEF Runtime
  <2> HIDE DEF r
  <2>4. ASSUME NEW st \in {"UNLOCKING", "SESSION_CACHED"}, NEW pc \in {"unlock", "idle"},
               Persist(b, [r EXCEPT !.st = st, !.pc = pc])
        PROVE  RowInv'
    <3> DEFINE q == [r EXCEPT !.st = st, !.pc = pc]
    <3>1. Alike(r, q)
      BY <2>2, <2>4, Words DEF Runtime, Alike
    <3>2. Persist(b, q)
      BY <2>4
    <3> HIDE DEF q
    <3> QED BY <1>1, <2>2, <3>1, <3>2, AlikeOnward, RowMove DEF Alike, o
  <2>5. ASSUME Keep(b, k) PROVE RowInv'
    <3>1. Alike(r, k) /\ k.st = r.st
      BY <2>2 DEF Runtime, Alike
    <3> HIDE DEF k
    <3> QED BY <1>1, <2>2, <2>3, <2>5, <3>1, AlikeOnward, RowMove DEF Alike, o
  <2> QED BY <2>1, <2>4, <2>5
<1>3. CASE UnlockSucceeds(b)
  <2> DEFINE q == [o EXCEPT !.st = "MOUNTED", !.pc = "launch", !.spent = TRUE]
  <2>1. Persist(b, q)
    BY <1>3 DEF UnlockSucceeds
  <2> HIDE DEF o
  <2>2. Alike(o, q)
    <3>1. q \in Runtime
      BY <1>1 DEF Runtime, States
    <3>2. q.life = o.life /\ q.cmd = o.cmd /\ q.todo = o.todo /\ q.mem = o.mem
      BY <1>1 DEF Runtime
    <3> QED BY <3>1, <3>2 DEF Alike
  <2> HIDE DEF q
  <2> QED BY <1>1, <2>1, <2>2, AlikeOnward, RowMove DEF Alike, o
<1>4. CASE \E st \in {"AUTH_REQUIRED", "ERROR"} : KeyRefused(b, st)
  <2>1. PICK st \in {"AUTH_REQUIRED", "ERROR"} : Persist(b, GivenUp([o EXCEPT !.st = st, !.pc = "idle"]))
    BY <1>4 DEF KeyRefused
  <2> DEFINE q == [o EXCEPT !.st = st, !.pc = "idle"]
  <2>2. Persist(b, GivenUp(q))
    BY <2>1
  <2> HIDE DEF o
  <2>3. Alike(o, q)
    BY <1>1 DEF Runtime, States, Alike
  <2> HIDE DEF q
  <2>4. Onward(o, q)
    BY <1>1, <2>3, AlikeOnward DEF Alike
  <2> QED BY <1>1, <2>2, <2>4, GivenUpOnward, RowMove DEF o
<1>5. CASE UnlockFails(b)
  <2> DEFINE q == [o EXCEPT !.st = "ERROR", !.sess = "none", !.pc = "idle"]
  <2>1. Persist(b, GivenUp(q))
    BY <1>5 DEF UnlockFails
  <2> HIDE DEF o
  <2>2. Alike(o, q)
    <3>1. q \in Runtime
      BY <1>1 DEF Runtime, States
    <3>2. q.life = o.life /\ q.cmd = o.cmd /\ q.todo = o.todo /\ q.mem = o.mem
      BY <1>1 DEF Runtime
    <3> QED BY <3>1, <3>2 DEF Alike
  <2> HIDE DEF q
  <2>3. Onward(o, q)
    BY <1>1, <2>2, AlikeOnward DEF Alike
  <2> QED BY <1>1, <2>1, <2>3, GivenUpOnward, RowMove DEF o
<1>6. CASE LaunchSucceeds(b)
  <2> DEFINE s == Refreshed(o.sess)
             q == [o EXCEPT !.st = "RUNNING", !.sess = s, !.pc = "idle"]
  <2>1. Persist(b, q)
    BY <1>6 DEF LaunchSucceeds
  <2> HIDE DEF o
  <2>2. s \in {"none", "fresh", "idle", "aged"}
    BY <1>1 DEF Refreshed, Runtime
  <2> HIDE DEF s
  <2>3. Alike(o, q)
    <3>1. q \in Runtime
      BY <1>1, <2>2 DEF Runtime, States
    <3>2. q.life = o.life /\ q.cmd = o.cmd /\ q.todo = o.todo /\ q.mem = o.mem
      BY <1>1 DEF Runtime
    <3> QED BY <3>1, <3>2 DEF Alike
  <2> HIDE DEF q
  <2> QED BY <1>1, <2>1, <2>3, AlikeOnward, RowMove DEF Alike, o
<1>7. CASE LaunchFails(b)
  <2>1. Persist(b, Locking(GivenUp(o), "launch_failed"))
    BY <1>7 DEF LaunchFails
  <2>2. Onward(o, GivenUp(o))
    BY <1>1, GivenUpOnward
  <2>3. GivenUp(o).todo # "reconcile"
    BY <1>1, GivenUpIs
  <2> HIDE DEF o
  <2>4. Onward(o, Locking(GivenUp(o), "launch_failed"))
    BY <2>2, <2>3, LockingOnward
  <2> QED BY <1>1, <2>1, <2>4, RowMove DEF o
<1>8. CASE \E force \in BOOLEAN : AuthenticateOnly(b, force)
  <2> DEFINE q == [o EXCEPT !.st = "AUTHENTICATING", !.sess = "none", !.pc = "auth_only"]
  <2>1. Keep(b, o) \/ Persist(b, q)
    BY <1>8 DEF AuthenticateOnly, Authenticating
  <2> HIDE DEF o
  <2>2. Alike(o, q)
    <3>1. q \in Runtime
      BY <1>1 DEF Runtime, States
    <3>2. q.life = o.life /\ q.cmd = o.cmd /\ q.todo = o.todo /\ q.mem = o.mem
      BY <1>1 DEF Runtime
    <3> QED BY <3>1, <3>2 DEF Alike
  <2> HIDE DEF q
  <2> QED BY <1>1, <2>1, <2>2, AlikeOnward, RowMove DEF Alike, o
<1> QED BY <1>2, <1>3, <1>4, <1>5, <1>6, <1>7, <1>8

LEMMA RowKeySteps ==
    ASSUME IInv, RowInv, "state_file" \notin Faults, NEW b \in Broker, KeyStep(b)
    PROVE  RowInv'
<1>1. CASE PublishBackup(b) \/ Prove(b)
  <2>1. PICK op \in {"publish_backup", "prove"} :
          /\ May(b, op)
          /\ \/ \E pc \in {"publish", "idle", "prove"} :
                    Keep(b, [Begun(b, op) EXCEPT !.pc = pc])
             \/ Persist(b, [Begun(b, op) EXCEPT !.st = "AUTHENTICATING", !.sess = "none",
                                                !.pc = "auth_backup"])
    BY <1>1 DEF PublishBackup, Prove, Authenticating
  <2> DEFINE r0 == Begun(b, op)
             t == [r0 EXCEPT !.st = "AUTHENTICATING", !.sess = "none", !.pc = "auth_backup"]
  <2>2. /\ Up(b) /\ r0 \in Runtime /\ Onward(rt[b], r0) /\ r0.todo # "reconcile"
        /\ r0.st = rt[b].st
    <3>1. Up(b) /\ rt[b].pc = "idle"
      BY <2>1, PastReconcile
    <3> QED BY <2>1, <3>1, BegunOnward DEF Ops, PageOps, Onward
  <2> HIDE DEF r0
  <2>3. ASSUME NEW pc \in {"publish", "idle", "prove"}, Keep(b, [r0 EXCEPT !.pc = pc])
        PROVE  RowInv'
    <3> DEFINE q == [r0 EXCEPT !.pc = pc]
    <3>1. Alike(r0, q) /\ q.st = r0.st
      BY <2>2, <2>3 DEF Runtime, Alike
    <3>2. Keep(b, q)
      BY <2>3
    <3> HIDE DEF q
    <3> QED BY <2>2, <3>1, <3>2, AlikeOnward, RowMove DEF Alike
  <2>4. Alike(r0, t)
    BY <2>2, Words, WordAlike
  <2> HIDE DEF t
  <2>5. ASSUME Persist(b, t) PROVE RowInv'
    BY <2>2, <2>4, <2>5, AlikeOnward, RowMove DEF Alike
  <2> QED BY <2>1, <2>3, <2>5 DEF r0, t
<1>2. CASE PublishesUnproven(b) \/ PublishEnds(b) \/ ProofStep(b)
  <2> DEFINE o == rt[b]
  <2>1. PICK pc \in {"publish", "idle", "wrap"} :
          Up(b) /\ o.pc # "idle" /\ Keep(b, [o EXCEPT !.pc = pc])
    BY <1>2 DEF PublishesUnproven, PublishEnds, ProofStep
  <2> DEFINE q == [o EXCEPT !.pc = pc]
  <2>2. o \in Runtime /\ Onward(o, o) /\ o.todo # "reconcile"
    BY <2>1, SelfOnward DEF RowInv, Up
  <2> HIDE DEF o
  <2>3. Alike(o, q) /\ q.st = o.st
    BY <2>2 DEF Runtime, Alike
  <2>4. Keep(b, q)
    BY <2>1
  <2> HIDE DEF q
  <2> QED BY <2>1, <2>2, <2>3, <2>4, AlikeOnward, RowMove DEF Alike, o
<1> QED BY <1>1, <1>2 DEF KeyStep

LEMMA RowEvent ==
    ASSUME IInv, RowInv, "state_file" \notin Faults, NEW b \in Broker, NEW e \in Events, SystemEvent(b, e)
    PROVE  RowInv'
<1> DEFINE r0 == Begun(b, e)
           reauth == r0.reauth \/ e \in ReauthOn
           keyed == r0.keyed /\ e \notin ReauthOn
           r == [r0 EXCEPT !.reauth = reauth, !.keyed = keyed]
<1>1. /\ Up(b) /\ rt[b].pc = "idle" /\ e \in Ops /\ e # "reconcile"
      /\ Persist(b, Locking(r, e)) \/ Keep(b, r0)
  BY DEF SystemEvent, May, Ops, GuiOps, Events, FlaggedEvents
<1>2. Onward(rt[b], r0) /\ r0.todo # "reconcile" /\ r0.st = rt[b].st /\ r0 \in Runtime
  BY <1>1, BegunOnward DEF Onward
<1>3. reauth \in BOOLEAN /\ keyed \in BOOLEAN
  BY <1>2 DEF Runtime
<1> HIDE DEF r0, reauth, keyed
<1>4. Alike(r0, r)
  BY <1>2, <1>3 DEF Runtime, Alike
<1> HIDE DEF r
<1>5. Onward(rt[b], r) /\ r.todo # "reconcile"
  BY <1>2, <1>4, AlikeOnward DEF Alike
<1>6. Onward(rt[b], Locking(r, e))
  BY <1>5, LockingOnward
<1> QED BY <1>1, <1>2, <1>6, RowMove

LEMMA RowShutdown ==
    ASSUME IInv, RowInv, "state_file" \notin Faults, NEW b \in Broker, Shutdown(b)
    PROVE  RowInv'
<1> DEFINE r0 == Begun(b, "broker_shutdown")
           r == [r0 EXCEPT !.down = TRUE]
<1>1. /\ Up(b) /\ rt[b].pc = "idle"
      /\ Persist(b, Locking(r, "broker_shutdown")) \/ Keep(b, Gone(r)) \/ Keep(b, r)
  BY DEF Shutdown, May
<1>2. /\ Onward(rt[b], r0) /\ r0.todo # "reconcile" /\ r0.st = rt[b].st /\ r0 \in Runtime
      /\ rt[b] \in Runtime
  BY <1>1, BegunOnward DEF Onward, Ops, GuiOps, Events, FlaggedEvents
<1> HIDE DEF r0
<1>3. Alike(r0, r) /\ r.st = r0.st
  BY <1>2 DEF Runtime, Alike
<1> HIDE DEF r
<1>4. Onward(rt[b], r) /\ r.todo # "reconcile" /\ r.st = rt[b].st
  BY <1>2, <1>3, AlikeOnward DEF Alike
<1>5. "broker_shutdown" \in Events
  BY DEF Events, FlaggedEvents
<1>6. /\ Onward(rt[b], Locking(r, "broker_shutdown"))
      /\ Onward(rt[b], Gone(r)) /\ Gone(r).st = rt[b].st
  BY <1>2, <1>4, <1>5, LockingOnward, GoneOnward
<1> QED BY <1>1, <1>4, <1>6, RowMove

LEMMA RowLocks ==
    ASSUME IInv, RowInv, "state_file" \notin Faults, NEW b \in Broker, LockStep(b)
    PROVE  RowInv'
<1> DEFINE o == rt[b]
<1>1. Up(b) /\ o \in Runtime /\ o.todo # "reconcile" /\ Onward(o, o)
  <2>1. Up(b) /\ o.pc # "idle"
    BY DEF LockStep, CloseConfirmed, CloseTimesOut, HelperMissing, Detach
  <2> QED BY <2>1, SelfOnward DEF RowInv
<1>2. CASE CloseConfirmed(b)
  <2> DEFINE q == [o EXCEPT !.pc = "detach"]
  <2>1. Keep(b, q)
    BY <1>2 DEF CloseConfirmed
  <2> HIDE DEF o
  <2>2. Alike(o, q) /\ q.st = o.st
    BY <1>1 DEF Runtime, Alike
  <2> HIDE DEF q
  <2> QED BY <1>1, <2>1, <2>2, AlikeOnward, RowMove DEF Alike, o
<1>3. CASE CloseTimesOut(b) \/ HelperMissing(b)
  <2>1. Persist(b, Locked(Detached(o, FALSE), FALSE))
    BY <1>3 DEF CloseTimesOut, HelperMissing, LockError
  <2> HIDE DEF o
  <2> QED BY <1>1, <2>1, DetachedOnward, LockedOnward, RowMove DEF o
<1>4. CASE Detach(b)
  <2> DEFINE r0 == [o EXCEPT !.sess = "none"]
  <2>1. PICK d \in DetachOutcomes(vault) :
          Persist(b, Locked([Detached(r0, d.ok) EXCEPT
                               !.backup = @ \/ (d.ok /\ vault # "missing")], d.ok))
    BY <1>4 DEF Detach
  <2> DEFINE q == Detached(r0, d.ok)
             f == q.backup \/ (d.ok /\ vault # "missing")
             r == [q EXCEPT !.backup = f]
  <2>2. Persist(b, Locked(r, d.ok))
    BY <2>1
  <2> HIDE DEF o
  <2>3. Alike(o, r0)
    BY <1>1 DEF Runtime, Alike
  <2> HIDE DEF r0
  <2>4. Onward(o, q) /\ q.todo # "reconcile" /\ q \in Runtime
    BY <1>1, <2>3, AlikeOnward, DetachedOnward DEF Alike, Onward
  <2> HIDE DEF q
  <2>5. f \in BOOLEAN
    BY <2>4 DEF Runtime
  <2> HIDE DEF f
  <2>6. Alike(q, r)
    BY <2>4, <2>5 DEF Runtime, Alike
  <2> HIDE DEF r
  <2>7. Onward(o, r) /\ r.todo # "reconcile"
    BY <2>4, <2>6, AlikeOnward DEF Alike
  <2>8. Onward(o, Locked(r, d.ok))
    BY <1>1, <2>7, LockedOnward
  <2> QED BY <1>1, <2>2, <2>8, RowMove DEF o
<1> QED BY <1>2, <1>3, <1>4 DEF LockStep

LEMMA RowTicks ==
    ASSUME IInv, RowInv, "state_file" \notin Faults, NEW b \in Broker, TickStep(b)
    PROVE  RowInv'
<1> DEFINE o == rt[b]
<1>1. Up(b) /\ o \in Runtime /\ o.todo # "reconcile" /\ Onward(o, o)
  <2>1. Up(b) /\ (o.pc # "idle" \/ o.todo # "reconcile")
    BY DEF TickStep, TickExitFails, TickExit, IdleCloses, IdleDrops, TickEnds, AtIdleCheck, May
  <2> QED BY <2>1, SelfOnward DEF RowInv
<1>2. CASE TickExitFails(b)
  <2> DEFINE q == [o EXCEPT !.st = "ERROR", !.pc = "tick"]
  <2>1. Persist(b, q)
    BY <1>2 DEF TickExitFails
  <2> HIDE DEF o
  <2>2. Alike(o, q)
    BY <1>1 DEF Runtime, States, Alike
  <2> HIDE DEF q
  <2> QED BY <1>1, <2>1, <2>2, AlikeOnward, RowMove DEF Alike, o
<1>3. CASE TickExit(b)
  <2> DEFINE t == [o EXCEPT !.pc = "tick"]
             q1 == [t EXCEPT !.st = "LOCKED", !.sess = "none"]
             q2 == [t EXCEPT !.st = "SESSION_CACHED"]
  <2>1. Persist(b, q1) \/ Persist(b, q2)
    BY <1>3 DEF TickExit
  <2> HIDE DEF o
  <2>2. Alike(o, t)
    BY <1>1 DEF Runtime, Alike
  <2> HIDE DEF t
  <2>3. t \in Runtime
    BY <2>2 DEF Alike
  <2>4. Alike(t, q1)
    <3> DEFINE u == [t EXCEPT !.st = "LOCKED"]
    <3>1. Alike(t, u) /\ q1 = [u EXCEPT !.sess = "none"]
      BY <2>3 DEF Runtime, States, Alike
    <3> HIDE DEF u, q1
    <3>2. Alike(u, q1)
      BY <3>1 DEF Runtime, Alike
    <3> QED BY <3>1, <3>2 DEF Alike
  <2>5. Alike(t, q2)
    BY <2>3 DEF Runtime, States, Alike
  <2> HIDE DEF q1, q2
  <2>6. Onward(o, q1) /\ Onward(o, q2)
    BY <1>1, <2>2, <2>4, <2>5, AlikeOnward DEF Alike
  <2> QED BY <1>1, <2>1, <2>6, RowMove DEF o
<1>4. CASE IdleCloses(b)
  <2>1. Persist(b, Locking(o, "idle"))
    BY <1>4 DEF IdleCloses
  <2> HIDE DEF o
  <2> QED BY <1>1, <2>1, LockingOnward, RowMove DEF o
<1>5. CASE IdleDrops(b)
  <2> DEFINE r == [o EXCEPT !.sess = "none", !.pc = "idle"]
             q == [r EXCEPT !.st = "LOCKED"]
  <2>1. Persist(b, q) \/ \E d \in DetachOutcomes(vault) : Persist(b, Detached(r, d.ok))
    BY <1>5 DEF IdleDrops
  <2> HIDE DEF o
  <2>2. Alike(o, r)
    BY <1>1 DEF Runtime, Alike
  <2> HIDE DEF r
  <2>3. Alike(r, q)
    BY <2>2 DEF Runtime, States, Alike
  <2> HIDE DEF q
  <2>4. Onward(o, r) /\ Onward(o, q) /\ r.todo # "reconcile"
    BY <1>1, <2>2, <2>3, AlikeOnward DEF Alike
  <2>5. \A ok : Onward(o, Detached(r, ok))
    BY <2>4, DetachedOnward
  <2> QED BY <1>1, <2>1, <2>4, <2>5, RowMove DEF o
<1>6. CASE TickEnds(b)
  <2> DEFINE q == [o EXCEPT !.pc = "idle"]
  <2>1. Keep(b, q)
    BY <1>6 DEF TickEnds
  <2> HIDE DEF o
  <2>2. Alike(o, q) /\ q.st = o.st
    BY <1>1 DEF Runtime, Alike
  <2> HIDE DEF q
  <2> QED BY <1>1, <2>1, <2>2, AlikeOnward, RowMove DEF Alike, o
<1> QED BY <1>2, <1>3, <1>4, <1>5, <1>6 DEF TickStep

LEMMA RowMode ==
    ASSUME IInv, RowInv, "state_file" \notin Faults, NEW b \in Broker, NEW m \in BOOLEAN, SetMode(b, m)
    PROVE  RowInv'
<1> DEFINE r0 == Begun(b, "set_mode")
           r == [r0 EXCEPT !.aggressive = m]
           f == [r EXCEPT !.sess = "none"]
<1>1. /\ Up(b) /\ rt[b].pc = "idle"
      /\ Keep(b, r) \/ \E d \in DetachOutcomes(vault) : Persist(b, Detached(f, d.ok))
  BY DEF SetMode, May
<1>2. /\ Onward(rt[b], r0) /\ r0.todo # "reconcile" /\ r0.st = rt[b].st /\ r0 \in Runtime
  BY <1>1, BegunOnward DEF Onward, Ops, GuiOps
<1> HIDE DEF r0
<1>3. Alike(r0, r) /\ r.st = r0.st
  BY <1>2 DEF Runtime, Alike
<1> HIDE DEF r
<1>4. Alike(r, f)
  BY <1>3 DEF Runtime, Alike
<1> HIDE DEF f
<1>5. Onward(rt[b], r) /\ Onward(rt[b], f) /\ f.todo # "reconcile" /\ r.st = rt[b].st
  BY <1>2, <1>3, <1>4, AlikeOnward DEF Alike
<1>6. \A ok : Onward(rt[b], Detached(f, ok))
  BY <1>5, DetachedOnward
<1> QED BY <1>1, <1>5, <1>6, RowMove

LEMMA RowStart ==
    ASSUME IInv, RowInv, Commands \subseteq Guarded, NEW b \in Broker,
           NEW c \in Commands, Start(b, c)
    PROVE  RowInv'
<1>1. PICK row \in {disk} \cup {NoRow} :
        rt' = [rt EXCEPT ![b] = [rt[b] EXCEPT !.life = "up", !.cmd = c,
                                              !.todo = First(c), !.mem = row]]
  BY DEF Start
<1> DEFINE first == First(c)
           o == rt[b]
           q == [o EXCEPT !.life = "up", !.cmd = c, !.todo = first, !.mem = row]
<1>2. c \in Guarded /\ o \in Runtime /\ o.life = "new" /\ disk' = disk /\ o.pc = "idle"
  BY AtBroker DEF Start, Local
<1>3. rt' = [rt EXCEPT ![b] = q]
  BY <1>1
<1>4. disk.by # b /\ (\A a \in Broker : row.by = a => row = disk)
  BY <1>1, <1>2, ConstantsOK DEF RowInv, NoRow
<1> HIDE DEF first, o
<1>5. q.life = "up" /\ q.cmd = c /\ q.pc = o.pc /\ q.mem = row
  BY <1>2 DEF Runtime
<1> HIDE DEF q
<1>6. rt'[b] = q /\ \A d \in Broker \ {b} : rt'[d] = rt[d]
  BY <1>3 DEF IInv, TypeOK
<1>7. ASSUME NEW d \in Broker
      PROVE  /\ rt'[d].life = "up" => rt'[d].cmd \in Guarded
             /\ rt'[d].life = "up" /\ rt'[d].todo = "reconcile" => rt'[d].pc = "idle"
             /\ rt'[d].life # "new" /\ rt'[d].mem.by = d => rt'[d].mem.state = rt'[d].st
             /\ disk'.by = d => rt'[d].life # "new" /\ disk' = rt'[d].mem
  <2>1. CASE d = b
    BY <1>2, <1>4, <1>5, <1>6, <2>1
  <2>2. CASE d # b
    BY <1>2, <1>6, <2>2 DEF RowInv, Up
  <2> QED BY <2>1, <2>2
<1>8. ASSUME NEW a \in Broker, NEW d \in Broker,
             rt'[a].life = "gone", rt'[d].life = "up", rt'[d].todo = "reconcile", rt'[d].mem.by = a
      PROVE  rt'[d].mem.state = rt'[a].st
  <2>1. a # b /\ rt'[a] = rt[a]
    BY <1>5, <1>6, <1>8
  <2>2. CASE d = b
    <3>1. disk.by = a /\ row = disk
      BY <1>4, <1>5, <1>6, <1>8, <2>2
    <3>2. disk = rt[a].mem /\ rt[a].mem.state = rt[a].st
      BY <1>8, <2>1, <3>1 DEF RowInv
    <3> QED BY <1>5, <1>6, <2>1, <2>2, <3>1, <3>2
  <2>3. CASE d # b
    BY <1>6, <1>8, <2>1, <2>3 DEF RowInv, Up
  <2> QED BY <2>2, <2>3
<1> QED BY <1>7, <1>8 DEF RowInv, Up

LEMMA RowProcess ==
    ASSUME IInv, RowInv, "state_file" \notin Faults, Commands \subseteq Guarded, NEW b \in Broker,
           Exit(b) \/ Crash(b) \/ \E c \in Commands : Start(b, c)
    PROVE  RowInv'
<1>1. CASE Exit(b) \/ Crash(b)
  <2>1. Up(b) /\ Keep(b, Gone(rt[b]))
    BY <1>1 DEF Exit, Crash, May
  <2> QED BY <2>1, SelfOnward, GoneOnward, RowMove
<1> QED BY <1>1, RowStart

\* The verdict on a dead broker's row, when it had exposed the vault; and the
\* window's second reconcile, which may take its word from its own row.
LEMMA RowReconcile ==
    ASSUME IInv, RowInv, "state_file" \notin Faults, NEW b \in Broker, Reconcile(b) \/ ReconcileFails(b)
    PROVE  /\ RowInv'
           /\ (\E a \in Broker : /\ rt[a].life = "gone" /\ rt[a].st \in Exposed
                                 /\ rt[b].todo = "reconcile" /\ rt[b].mem.by = a /\ vault # "missing")
                => rt'[b].st \in {"RECOVERY_REQUIRED", "ERROR"}
<1> DEFINE o == rt[b]
           r0 == Begun(b, "reconcile")
           verdict == Verdict(b, o.mem)
           r == [r0 EXCEPT !.started = TRUE]
           Next1(q) == \/ Persist(b, q)
                       \/ Keep(b, q) /\ (q.st = o.st \/ (o.mem.by = b /\ q.st = o.mem.state))
           Due == \E a \in Broker : /\ rt[a].life = "gone" /\ rt[a].st \in Exposed
                                    /\ o.todo = "reconcile" /\ o.mem.by = a /\ vault # "missing"
<1>1. /\ May(b, "reconcile") /\ Up(b) /\ o \in Runtime /\ o.mem \in Row /\ o.life = "up"
  BY AtBroker DEF Reconcile, ReconcileFails, May, Runtime, Up
<1>2. /\ r0 \in Runtime /\ r0.life = "up" /\ r0.cmd = o.cmd /\ r0.pc = "idle" /\ r0.st = o.st
      /\ r0.todo # "reconcile" /\ r0.mem = o.mem
  <2> DEFINE todo == IF o.todo = "any" THEN "recover" ELSE After(o.cmd, "reconcile")
  <2>1. todo \in Ops /\ todo # "reconcile" /\ "reconcile" \in Ops
    BY <1>1, AfterScript DEF After, Ops, GuiOps, Runtime
  <2>2. r0 = [o EXCEPT !.todo = todo]
    BY DEF Begun
  <2>3. r0 \in Runtime /\ r0.life = "up" /\ r0.cmd = o.cmd /\ r0.pc = "idle" /\ r0.st = o.st
    BY <1>1, <2>1, BegunIs
  <2> HIDE DEF o, r0, todo
  <2>4. r0.todo = todo /\ r0.mem = o.mem
    BY <1>1, <2>2 DEF Runtime
  <2> QED BY <2>1, <2>3, <2>4
<1>3. Onward(o, r0)
  BY <1>1, <1>2 DEF Onward
<1>4. Due => verdict = "RECOVERY_REQUIRED"
  <2>1. SUFFICES ASSUME NEW a \in Broker, rt[a].life = "gone", rt[a].st \in Exposed,
                        o.todo = "reconcile", o.mem.by = a
                 PROVE  verdict = "RECOVERY_REQUIRED"
    OBVIOUS
  <2>2. a # b /\ o.mem.state = rt[a].st
    BY <1>1, <2>1 DEF RowInv, Up
  <2> QED BY <2>1, <2>2 DEF Verdict
<1>5. \E q : Onward(o, q) /\ Next1(q) /\ (Due => Persist(b, q) /\ q.st \in {"RECOVERY_REQUIRED", "ERROR"})
  <2>1. CASE ReconcileFails(b)
    <3>1. o.started \in BOOLEAN
      BY <1>1 DEF Runtime
    <3>2. PICK f \in BOOLEAN : Persist(b, [r0 EXCEPT !.st = "ERROR", !.started = f])
      BY <2>1, <3>1, Zenon DEF ReconcileFails
    <3> DEFINE q == [r0 EXCEPT !.st = "ERROR", !.started = f]
    <3> HIDE DEF r0, o
    <3>3. Alike(r0, q) /\ q.st = "ERROR"
      <4>1. q \in Runtime
        BY <1>2 DEF Runtime, States
      <4>2. q.life = r0.life /\ q.cmd = r0.cmd /\ q.todo = r0.todo /\ q.mem = r0.mem /\ q.st = "ERROR"
        BY <1>2 DEF Runtime
      <4> QED BY <4>1, <4>2 DEF Alike
    <3> HIDE DEF q
    <3>4. Onward(o, q)
      BY <1>2, <1>3, <3>3, AlikeOnward DEF Alike
    <3> QED BY <3>2, <3>3, <3>4 DEF q
  <2>2. CASE Reconcile(b)
    <3>1. \/ Persist(b, [r EXCEPT !.st = "LOCKED"]) /\ ~Due
          \/ Persist(b, [r EXCEPT !.st = verdict, !.owed = TRUE]) /\ verdict = "RECOVERY_REQUIRED"
          \/ \E st \in {"SESSION_CACHED", "LOCKED"} :
                Persist(b, [r EXCEPT !.owed = FALSE, !.st = st]) /\ ~Due
          \/ Keep(b, [r EXCEPT !.st = verdict]) /\ verdict \in Exposed /\ verdict # "RECOVERY_REQUIRED"
          \/ Keep(b, r) /\ ~Due
      <4>1. CASE vault = "missing"
        <5>1. Persist(b, [r EXCEPT !.st = "LOCKED"])
          BY <2>2, <4>1, Zenon DEF Reconcile
        <5> QED BY <4>1, <5>1
      <4>2. CASE vault # "missing" /\ verdict = "RECOVERY_REQUIRED"
        <5>1. Persist(b, [r EXCEPT !.st = verdict, !.owed = TRUE])
          BY <2>2, <4>2, Zenon DEF Reconcile
        <5> QED BY <4>2, <5>1
      <4>3. CASE vault # "missing" /\ verdict = "LOCKED" /\ ~Running(b)
        <5>1. \E st \in {"LOCKED", "SESSION_CACHED"} : Persist(b, [r EXCEPT !.owed = FALSE, !.st = st])
          BY <2>2, <4>3, Zenon DEF Reconcile
        <5>2. ~Due
          BY <1>4, <4>3
        <5> QED BY <5>1, <5>2
      <4>4. CASE ~(vault = "missing") /\ ~(vault # "missing" /\ verdict = "RECOVERY_REQUIRED")
                   /\ ~(vault # "missing" /\ verdict = "LOCKED" /\ ~Running(b))
        <5>1. Keep(b, IF verdict \in Exposed THEN [r EXCEPT !.st = verdict] ELSE r)
          BY <2>2, <4>4, Zenon DEF Reconcile
        <5>2. ~Due
          BY <1>4, <4>4
        <5>3. CASE verdict \in Exposed
          BY <4>4, <5>1, <5>3
        <5>4. CASE verdict \notin Exposed
          BY <5>1, <5>2, <5>4
        <5> QED BY <5>3, <5>4
      <4> QED BY <4>1, <4>2, <4>3, <4>4
    <3>2. verdict \in States
      BY <1>1 DEF Verdict, States, Row, Exposed
    <3>3. verdict \in Exposed /\ verdict # "RECOVERY_REQUIRED" => o.mem.by = b /\ verdict = o.mem.state
      BY <1>1 DEF Verdict, Exposed
    <3> HIDE DEF verdict, r0, o
    <3>4. /\ r \in Runtime /\ r.life = r0.life /\ r.cmd = r0.cmd /\ r.todo = r0.todo /\ r.mem = r0.mem
          /\ r.st = r0.st
      BY <1>2 DEF Runtime
    <3>5. Onward(o, r) /\ r.todo # "reconcile" /\ r.st = o.st
      BY <1>2, <1>3, <3>4, AlikeOnward DEF Alike
    <3> HIDE DEF r
    <3>6. ASSUME NEW st \in States, NEW owed \in BOOLEAN
          PROVE  /\ Onward(o, [r EXCEPT !.st = st, !.owed = owed])
                 /\ Onward(o, [r EXCEPT !.st = st]) /\ [r EXCEPT !.st = st].st = st
                 /\ [r EXCEPT !.st = st, !.owed = owed].st = st
      <4> DEFINE q == [r EXCEPT !.st = st]
                 p == [r EXCEPT !.st = st, !.owed = owed]
      <4>1. q \in Runtime /\ p \in Runtime
        BY <3>4 DEF Runtime
      <4>2. /\ q.life = r.life /\ q.cmd = r.cmd /\ q.todo = r.todo /\ q.mem = r.mem /\ q.st = st
            /\ p.life = r.life /\ p.cmd = r.cmd /\ p.todo = r.todo /\ p.mem = r.mem /\ p.st = st
        BY <3>4 DEF Runtime
      <4> HIDE DEF p, q
      <4>3. Onward(o, q) /\ Onward(o, p) /\ q.st = st /\ p.st = st
        BY <3>5, <4>1, <4>2, AlikeOnward DEF Alike
      <4> QED BY <4>3 DEF p, q
    <3>7. ASSUME NEW st \in States
          PROVE  [r EXCEPT !.owed = FALSE, !.st = st] = [r EXCEPT !.st = st, !.owed = FALSE]
      BY <3>4 DEF Runtime
    <3>8. {"LOCKED", "SESSION_CACHED"} \subseteq States
      BY DEF States
    <3>9. CASE Persist(b, [r EXCEPT !.st = "LOCKED"]) /\ ~Due
      <4> DEFINE q == [r EXCEPT !.st = "LOCKED"]
      <4>1. Onward(o, q) /\ Persist(b, q)
        BY <3>6, <3>8, <3>9
      <4> QED BY <3>9, <4>1
    <3>10. CASE Persist(b, [r EXCEPT !.st = verdict, !.owed = TRUE]) /\ verdict = "RECOVERY_REQUIRED"
      <4> DEFINE q == [r EXCEPT !.st = verdict, !.owed = TRUE]
      <4>1. Onward(o, q) /\ Persist(b, q) /\ q.st = verdict
        BY <3>2, <3>6, <3>10
      <4> QED BY <3>10, <4>1
    <3>11. CASE \E st \in {"SESSION_CACHED", "LOCKED"} :
                   Persist(b, [r EXCEPT !.owed = FALSE, !.st = st]) /\ ~Due
      <4>1. PICK st \in {"SESSION_CACHED", "LOCKED"} :
                   Persist(b, [r EXCEPT !.owed = FALSE, !.st = st]) /\ ~Due
        BY <3>11
      <4> DEFINE q == [r EXCEPT !.owed = FALSE, !.st = st]
      <4>2. Onward(o, q)
        BY <3>6, <3>7, <3>8
      <4> QED BY <4>1, <4>2
    <3>12. CASE Keep(b, [r EXCEPT !.st = verdict]) /\ verdict \in Exposed /\ verdict # "RECOVERY_REQUIRED"
      <4> DEFINE q == [r EXCEPT !.st = verdict]
      <4>1. Onward(o, q) /\ q.st = verdict /\ Keep(b, q)
        BY <3>2, <3>6, <3>12
      <4>2. ~Due
        BY <1>4, <3>12
      <4> QED BY <3>3, <3>12, <4>1, <4>2
    <3>13. CASE Keep(b, r) /\ ~Due
      BY <3>5, <3>13
    <3> QED BY <3>1, <3>9, <3>10, <3>11, <3>12, <3>13
  <2> QED BY <2>1, <2>2
<1>6. PICK q : Onward(o, q) /\ Next1(q) /\ (Due => Persist(b, q) /\ q.st \in {"RECOVERY_REQUIRED", "ERROR"})
  BY <1>5
<1>7. RowInv'
  BY <1>1, <1>6, RowMove
<1>8. ASSUME Due
      PROVE  rt'[b].st \in {"RECOVERY_REQUIRED", "ERROR"}
  <2>1. Persist(b, q) /\ q \in Runtime /\ q.st \in {"RECOVERY_REQUIRED", "ERROR"}
    BY <1>6, <1>8 DEF Onward
  <2>2. rt'[b] = [q EXCEPT !.mem = [state |-> q.st, by |-> b]]
    BY <2>1 DEF Persist, IInv, TypeOK
  <2> QED BY <2>1, <2>2 DEF Runtime
<1> QED BY <1>7, <1>8

LEMMA RowStep ==
    ASSUME Commands \subseteq Guarded, "state_file" \notin Faults, IInv, RowInv, [Next]_vars
    PROVE  RowInv'
<1>1. CASE UNCHANGED vars
  BY <1>1 DEF vars, RowInv, Up
<1>2. CASE Reboot
  <2>1. ASSUME NEW b \in Broker
        PROVE  /\ rt'[b].life # "up" /\ rt'[b].mem = rt[b].mem /\ rt'[b].st = rt[b].st
               /\ rt'[b].life = "new" <=> rt[b].life = "new"
    <3>1. rt'[b] = IF Up(b) THEN Gone(rt[b]) ELSE rt[b]
      BY <1>2 DEF Reboot
    <3>2. rt[b] \in Runtime
      BY AtBroker
    <3>3. CASE Up(b)
      <4>1. Onward(rt[b], Gone(rt[b])) /\ Gone(rt[b]).st = rt[b].st /\ Gone(rt[b]).life = "gone"
        BY <3>2, <3>3, SelfOnward, GoneOnward, GoneFits
      <4> QED BY <3>1, <3>3, <4>1 DEF Onward, Up
    <3> QED BY <3>1, <3>3 DEF Up
  <2>2. disk' = disk
    BY <1>2 DEF Reboot
  <2> QED BY <2>1, <2>2 DEF RowInv, Up
<1>3. CASE AppExits
  BY <1>3 DEF AppExits, RowInv, Up
<1>4. ASSUME NEW b \in Broker,
             (\E c \in Commands : Start(b, c)) \/ Exit(b) \/ Crash(b)
      PROVE  RowInv'
  BY <1>4, RowProcess
<1>5. ASSUME NEW b \in Broker,
             \/ SessionIdles(b) \/ SessionAges(b) \/ PollForeground(b) \/ NoteInteraction(b)
             \/ BackupAttaches(b) \/ ReconcileFails(b) \/ Reconcile(b) \/ Recover(b)
      PROVE  RowInv'
  BY <1>5, RowClock, RowReconcile, RowRecover
<1>6. ASSUME NEW b \in Broker, OpenStep(b) PROVE RowInv'
  BY <1>6, RowOpens, RowTouches DEF OpenStep
<1>7. ASSUME NEW b \in Broker, LockStep(b) \/ TickStep(b) \/ Shutdown(b)
      PROVE  RowInv'
  BY <1>7, RowLocks, RowTicks, RowShutdown
<1>8. ASSUME NEW b \in Broker,
             \/ KeyStep(b)
             \/ \E e \in Events : SystemEvent(b, e)
             \/ \E m \in BOOLEAN : SetMode(b, m)
      PROVE  RowInv'
  BY <1>8, RowKeySteps, RowEvent, RowMode
<1> QED
  BY <1>1, <1>2, <1>3, <1>4, <1>5, <1>6, <1>7, <1>8, Zenon DEF Next

\* A step of another broker, or a step before the verdict, leaves the program at its
\* reconcile or ends it.
Waits(b) == rt'[b].todo = "reconcile" \/ rt'[b].life # "up"

LEMMA OnlyReconcile ==
    ASSUME IInv, RowInv, "state_file" \notin Faults, [Next]_vars, NEW b \in Broker,
           Up(b), rt[b].todo = "reconcile"
    PROVE  Waits(b) \/ Reconcile(b) \/ ReconcileFails(b)
<1>1. rt[b].pc = "idle" /\ (\A op : May(b, op) => op = "reconcile") /\ rt[b] \in Runtime
  BY AtBroker DEF RowInv, May
<1>2. CASE UNCHANGED vars \/ AppExits
  BY <1>2 DEF vars, AppExits, Waits
<1>3. CASE Reboot
  <2>1. rt'[b] = Gone(rt[b])
    BY <1>3 DEF Reboot
  <2> QED BY <1>1, <2>1, GoneFits DEF Waits
<1>4. ASSUME NEW c \in Broker, b # c,
             \/ \E k \in Commands : Start(c, k)
             \/ Exit(c) \/ Crash(c) \/ SessionIdles(c) \/ SessionAges(c)
             \/ ReconcileFails(c) \/ Reconcile(c) \/ Recover(c)
             \/ OpenStep(c) \/ KeyStep(c) \/ LockStep(c) \/ TickStep(c)
             \/ \E e \in Events : SystemEvent(c, e)
             \/ Shutdown(c) \/ BackupAttaches(c)
             \/ PollForeground(c) \/ NoteInteraction(c)
             \/ \E m \in BOOLEAN : SetMode(c, m)
      PROVE  Waits(b)
  <2>1. Up(c) \/ \E k \in Commands : Start(c, k)
    BY <1>4 DEF Exit, Crash, SessionIdles, SessionAges, ReconcileFails, Reconcile, Recover,
         OpenStep, OpenRefused, OpenWhileRunning, OpenStartFails, OpenWithSession,
         OpenNeedsKey, AuthenticateOnly, ProviderRefused, KeyTouched, KeyRefused,
         UnlockSucceeds, UnlockFails, LaunchSucceeds, LaunchFails,
         LockStep, CloseConfirmed, CloseTimesOut, HelperMissing, Detach,
         TickStep, TickExitFails, TickExit, IdleCloses, IdleDrops, TickEnds, AtIdleCheck,
         KeyStep, PublishBackup, PublishesUnproven, PublishEnds, Prove, ProofStep,
         SystemEvent, Shutdown, BackupAttaches, PollForeground, NoteInteraction, SetMode, May
  <2>2. ~Up(c)
    BY <1>4, AtBroker DEF RowInv, Shared
  <2>3. PICK k \in Commands : Start(c, k)
    BY <2>1, <2>2
  <2>4. rt'[b] = rt[b]
    <3>1. \E row : rt' = [rt EXCEPT ![c] = [rt[c] EXCEPT !.life = "up", !.cmd = k,
                                                          !.todo = First(k), !.mem = row]]
      BY <2>3, Zenon DEF Start
    <3> QED BY <1>4, <3>1 DEF IInv, TypeOK
  <2> QED BY <2>4 DEF Waits
<1>5. ASSUME Exit(b) \/ Crash(b)  PROVE Waits(b)
  <2>1. rt'[b] = Gone(rt[b])
    BY <1>5 DEF Exit, Crash, Keep, IInv, TypeOK
  <2> QED BY <1>1, <2>1, GoneFits DEF Waits
<1>6. ASSUME \/ SessionIdles(b) \/ SessionAges(b) \/ PollForeground(b) \/ NoteInteraction(b)
             \/ BackupAttaches(b)
      PROVE  Waits(b)
  BY <1>6, RowClock DEF Waits
<1>7. ~OpenStep(b)
  BY <1>1 DEF OpenStep, OpenRefused, OpenWhileRunning, OpenStartFails, OpenWithSession,
       OpenNeedsKey, AuthenticateOnly, ProviderRefused, KeyTouched, KeyRefused,
       UnlockSucceeds, UnlockFails, LaunchSucceeds, LaunchFails
<1>8. ~KeyStep(b) /\ ~LockStep(b) /\ ~TickStep(b)
  BY <1>1 DEF KeyStep, PublishBackup, PublishesUnproven, PublishEnds, Prove, ProofStep, LockStep, CloseConfirmed, CloseTimesOut, HelperMissing, Detach,
         TickStep, TickExitFails, TickExit, IdleCloses, IdleDrops, TickEnds, AtIdleCheck
<1>9. /\ ~\E e \in Events : SystemEvent(b, e)
      /\ ~Shutdown(b) /\ ~Recover(b) /\ ~\E m \in BOOLEAN : SetMode(b, m)
  BY <1>1 DEF SystemEvent, Shutdown, Recover, SetMode, Events, FlaggedEvents
<1>10. ~\E k \in Commands : Start(b, k)
  BY DEF Start, Up
<1>11. ASSUME NEW c \in Broker,
             \/ \E k \in Commands : Start(c, k)
             \/ Exit(c) \/ Crash(c) \/ SessionIdles(c) \/ SessionAges(c)
             \/ ReconcileFails(c) \/ Reconcile(c) \/ Recover(c)
             \/ OpenStep(c) \/ KeyStep(c) \/ LockStep(c) \/ TickStep(c)
             \/ \E e \in Events : SystemEvent(c, e)
             \/ Shutdown(c) \/ BackupAttaches(c)
             \/ PollForeground(c) \/ NoteInteraction(c)
             \/ \E m \in BOOLEAN : SetMode(c, m)
      PROVE  Waits(b) \/ Reconcile(b) \/ ReconcileFails(b)
  <2>1. CASE b # c
    BY <1>4, <1>11, <2>1, Zenon
  <2>2. CASE b = c
    BY <1>5, <1>6, <1>7, <1>8, <1>9, <1>10, <1>11, <2>2, Zenon
  <2> QED BY <2>1, <2>2
<1> QED BY <1>2, <1>3, <1>11, Zenon DEF Next

\* A broker process that ended while the vault was exposed is noticed by the next one
\* whose row is the dead one's, although the volume is down by then: for any number of
\* processes one after the other, crashing at any moment, if every program takes the
\* mutex and the state file takes what is written (sa_state.reconcile, _set_state).
THEOREM DeadAreNoticed ==
    ASSUME Commands \subseteq Guarded, "state_file" \notin Faults
    PROVE  Spec => UncleanEndIsNoticed
<1> DEFINE Noticed ==
        \A a, b \in Broker :
          /\ rt[a].life = "gone" /\ rt[a].st \in Exposed
          /\ Up(b) /\ rt[b].todo = "reconcile" /\ rt[b].mem.by = a
          /\ rt'[b].life = "up" /\ rt'[b].todo # "reconcile"
          /\ vault # "missing"
          => rt'[b].st \in {"RECOVERY_REQUIRED", "ERROR"}
<1>1. Init => RowInv
  <2> SUFFICES ASSUME Init PROVE RowInv
    OBVIOUS
  <2> QED BY NewFits, ConstantsOK DEF Init, RowInv, Up, NoRow
<1>2. IInv /\ RowInv /\ [Next]_vars => RowInv'
  BY RowStep
<1>3. IInv /\ RowInv /\ [Next]_vars => [Noticed]_vars
  <2> SUFFICES ASSUME IInv, RowInv, [Next]_vars
               PROVE  Noticed
    BY Zenon
  <2>1. SUFFICES ASSUME NEW a \in Broker, NEW b \in Broker,
                        rt[a].life = "gone", rt[a].st \in Exposed,
                        Up(b), rt[b].todo = "reconcile", rt[b].mem.by = a,
                        rt'[b].life = "up", rt'[b].todo # "reconcile", vault # "missing"
                 PROVE  rt'[b].st \in {"RECOVERY_REQUIRED", "ERROR"}
    BY Zenon
  <2>2. Reconcile(b) \/ ReconcileFails(b)
    BY <2>1, OnlyReconcile DEF Waits
  <2> QED BY <2>1, <2>2, RowReconcile
<1> QED BY <1>1, <1>2, <1>3, Invariance, PTL DEF Spec, UncleanEndIsNoticed
=============================================================================
