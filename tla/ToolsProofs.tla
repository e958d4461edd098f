------------------------------ MODULE ToolsProofs ------------------------------
(***************************************************************************)
(* Theorems of the tools around the core (MCTools, for any constants): the *)
(* relayed log hides no gap, a granted right has its lease, the mirror     *)
(* that is held for done is, the clipboard monitor does not save its own   *)
(* picture, and the viewer has one stream.                                 *)
(*                                                                         *)
(* The parts share no variable, so each has an inductive invariant of its  *)
(* own, LeaseInv, StreamInv, MirrorInv, ClipInv and LogInv, which holds of *)
(* the part's initial states (.. Initial) and which a step of the part or  *)
(* its rest keeps (.. Step); a step of the union is one of the two for     *)
(* each.  None of the five properties is inductive: what a command, a walk *)
(* or a poll has read before it acts must be related to what is there      *)
(* when it acts, and this is what the invariants say.                      *)
(***************************************************************************)
EXTENDS MCTools, Integers, FiniteSetTheorems, SequenceTheorems, WellFoundedInduction, TLAPS

-----------------------------------------------------------------------------
(* AccessLease *)

Leases == [id : Nat \ {0}, right : {"flat", "deep"}, before : SUBSET A!Right, revoked : BOOLEAN]
Commands == [pc : {"idle", "begun", "before", "grant", "after", "write", "remove", "mark"},
             verb : {"none", "grant", "revoke", "sweep"}, asked : {"flat", "deep"},
             seen : SUBSET A!Right, held : Leases \cup {A!NoLease}, id : Nat]

LeaseTypes ==
    /\ acl \subseteq A!Right /\ granted \in Leases \cup {A!NoLease}
    /\ command \in [Call -> Commands] /\ given \in Nat /\ calm \in BOOLEAN

\* What a command keeps by itself.
Sound(k) ==
    /\ k.pc # "idle" => k.id # 0
    /\ k.pc \in {"before", "grant", "after", "write"} => k.verb = "grant"
    /\ k.pc \in {"remove", "mark"} => k.verb # "grant" /\ k.held \in Leases
Grants(k) == k.verb = "grant"
Readable(rights) == "flat" \in rights \/ "deep" \in rights
\* A grant that will write a lease: what it found before its ACE could not be read.
Vouches(k) == k.pc = "write" \/ (k.pc = "after" /\ ~Readable(k.seen))

\* All commands under way are of one kind; a right to read has a lease or a grant that
\* will write one, and a revocation about to mark its lease has left no such right.
LeaseInv ==
    /\ LeaseTypes
    /\ \A c \in Call : Sound(command[c])
    /\ calm => \A c, d \in Call : command[c].pc # "idle" /\ command[d].pc # "idle"
                 => Grants(command[c]) = Grants(command[d])
    /\ calm /\ Readable(acl) =>
         \/ granted \in Leases /\ ~granted.revoked
         \/ \E c \in Call : Vouches(command[c])
    /\ calm /\ Readable(acl) => \A c \in Call : command[c].pc # "mark"
    /\ calm => \A c \in Call : command[c].pc \in {"grant", "after"} /\ Readable(command[c].seen)
                               => Readable(acl)

LEMMA LeaseRest == A!Rest \in Commands /\ A!Rest.pc = "idle"
  BY DEF A!Rest, Commands, A!NoLease, A!Right

LEMMA LeaseInitial == A!LeaseInit => LeaseInv
<1> SUFFICES ASSUME A!LeaseInit PROVE LeaseInv
  OBVIOUS
<1>1. LeaseTypes
  BY LeaseRest DEF A!LeaseInit, LeaseTypes, A!Right
<1>2. \A c \in Call : command[c].pc = "idle"
  BY LeaseRest DEF A!LeaseInit
<1>3. ~Readable(acl)
  BY DEF A!LeaseInit, Readable
<1> QED BY <1>1, <1>2, <1>3 DEF LeaseInv, Sound

\* One command moves to k: the other commands stay.
LEMMA OneMoves ==
    ASSUME LeaseInv, NEW c \in Call, NEW k \in Commands, command' = [command EXCEPT ![c] = k]
    PROVE  /\ command' \in [Call -> Commands]
           /\ command'[c] = k /\ \A d \in Call \ {c} : command'[d] = command[d]
  BY DEF LeaseInv, LeaseTypes

\* A step of one command that leaves the ACL and the lease alone and gives up no promise.
LEMMA QuietMove ==
    ASSUME LeaseInv, NEW c \in Call, NEW k \in Commands, command' = [command EXCEPT ![c] = k],
           acl' = acl, granted' = granted, given' \in Nat, calm' \in BOOLEAN,
           Sound(k), calm' => calm, k.pc # "mark",
           calm' /\ k.pc # "idle" =>
             \A d \in Call \ {c} : command[d].pc # "idle" => Grants(command[d]) = Grants(k),
           calm' /\ k.pc \in {"grant", "after"} /\ Readable(k.seen) => Readable(acl),
           calm' /\ Readable(acl) /\ Vouches(command[c]) =>
             Vouches(k) \/ (granted \in Leases /\ ~granted.revoked)
    PROVE  LeaseInv'
<1>1. /\ command' \in [Call -> Commands]
      /\ command'[c] = k /\ \A d \in Call \ {c} : command'[d] = command[d]
  BY OneMoves
<1>2. LeaseTypes'
  BY <1>1 DEF LeaseInv, LeaseTypes
<1>3. \A d \in Call : Sound(command'[d])
  BY <1>1 DEF LeaseInv
<1>4. ASSUME calm' PROVE \A d, e \in Call : command'[d].pc # "idle" /\ command'[e].pc # "idle"
                           => Grants(command'[d]) = Grants(command'[e])
  BY <1>1, <1>4 DEF LeaseInv
<1>5. ASSUME calm', Readable(acl)
      PROVE  (granted \in Leases /\ ~granted.revoked) \/ \E d \in Call : Vouches(command'[d])
  BY <1>1, <1>5 DEF LeaseInv
<1>6. ASSUME calm', Readable(acl) PROVE \A d \in Call : command'[d].pc # "mark"
  BY <1>1, <1>6 DEF LeaseInv
<1>7. ASSUME calm' PROVE \A d \in Call : command'[d].pc \in {"grant", "after"} /\ Readable(command'[d].seen)
                                        => Readable(acl)
  BY <1>1, <1>7 DEF LeaseInv
<1> QED BY <1>2, <1>3, <1>4, <1>5, <1>6, <1>7 DEF LeaseInv

LEMMA TurnMoves ==
    ASSUME LeaseInv, NEW c \in Call, NEW pc \in {"before", "grant", "after", "write", "mark"},
           A!Turn(c, pc)
    PROVE  \E k \in Commands :
             /\ command' = [command EXCEPT ![c] = k]
             /\ k.pc = pc /\ k.verb = command[c].verb /\ k.seen = command[c].seen
             /\ k.held = command[c].held /\ k.id = command[c].id
<1> DEFINE o == command[c]
           k == [o EXCEPT !.pc = pc]
<1>1. o \in Commands /\ command' = [command EXCEPT ![c] = k]
  BY DEF LeaseInv, LeaseTypes, A!Turn
<1> HIDE DEF o
<1>2. /\ k \in Commands
      /\ k.pc = pc /\ k.verb = o.verb /\ k.seen = o.seen /\ k.held = o.held /\ k.id = o.id
  BY <1>1 DEF Commands
<1> QED BY <1>1, <1>2 DEF o

\* A command that ends, cut short or not, gives up its promise only where the ghost or the
\* lease says so.
LEMMA EndMoves ==
    ASSUME LeaseInv, NEW c \in Call, A!Ends(c), acl' = acl, granted' = granted, given' = given,
           calm' \in BOOLEAN, calm' => calm,
           calm' /\ Readable(acl) => ~Vouches(command[c])
    PROVE  LeaseInv'
<1>1. command' = [command EXCEPT ![c] = A!Rest] /\ A!Rest \in Commands /\ A!Rest.pc = "idle"
  BY LeaseRest DEF A!Ends
<1>2. Sound(A!Rest) /\ given \in Nat
  BY <1>1 DEF Sound, LeaseInv, LeaseTypes
<1> QED BY <1>1, <1>2, QuietMove

LEMMA LeaseGive ==
    ASSUME LeaseInv, NEW c \in Call, NEW verb \in {"grant", "revoke", "sweep"},
           NEW asked \in {"flat", "deep"}, A!Give(c, verb, asked)
    PROVE  LeaseInv'
<1> DEFINE o == A!Rest
           k == [o EXCEPT !.pc = "begun", !.verb = verb, !.asked = asked, !.id = given + 1]
<1>1. /\ command[c].pc = "idle" /\ command' = [command EXCEPT ![c] = k]
      /\ calm' = (calm /\ A!Apart(c, verb)) /\ given' = given + 1
      /\ acl' = acl /\ granted' = granted
  BY DEF A!Give
<1>2. given \in Nat /\ calm \in BOOLEAN
  BY DEF LeaseInv, LeaseTypes
<1>3. k \in Commands /\ k.pc = "begun" /\ k.verb = verb /\ k.id = given + 1
  <2> o \in Commands
    BY LeaseRest
  <2>1. given + 1 \in Nat /\ given + 1 # 0
    BY <1>2
  <2> DEFINE next == given + 1
  <2> HIDE DEF o, next
  <2>2. [o EXCEPT !.pc = "begun", !.verb = verb, !.asked = asked, !.id = next] \in Commands
    BY <2>1 DEF Commands, next
  <2> QED BY <2>2 DEF Commands, next
<1> HIDE DEF k, o
<1>4. Sound(k)
  BY <1>2, <1>3 DEF Sound
<1>5. calm' => \A d \in Call \ {c} : command[d].pc # "idle" => Grants(command[d]) = Grants(k)
  BY <1>1, <1>3 DEF A!Apart, Grants
<1>6. ~Vouches(command[c]) /\ k.pc \notin {"grant", "after", "mark"} /\ given' \in Nat
  BY <1>1, <1>2, <1>3 DEF Vouches
<1>7. calm' \in BOOLEAN /\ (calm' => calm)
  BY <1>1, <1>2
<1> QED BY <1>1, <1>3, <1>4, <1>5, <1>6, <1>7, QuietMove

LEMMA LeaseGrant ==
    ASSUME LeaseInv, NEW c \in Call,
           A!GrantBegins(c) \/ A!ReadBefore(c) \/ A!ReadAfter(c)
    PROVE  LeaseInv'
<1>1. acl' = acl /\ granted' = granted /\ given' = given /\ calm' = calm /\ command[c].pc # "idle"
  BY DEF A!GrantBegins, A!ReadBefore, A!ReadAfter
<1>2. /\ Sound(command[c]) /\ command[c] \in Commands
      /\ given \in Nat /\ calm \in BOOLEAN /\ acl \subseteq A!Right
      /\ calm => \A d \in Call : command[d].pc # "idle" => Grants(command[d]) = Grants(command[c])
  BY <1>1 DEF LeaseInv, LeaseTypes
<1>3. CASE A!GrantBegins(c)
  <2>1. command[c].verb = "grant" /\ ~Vouches(command[c])
    BY <1>3 DEF A!GrantBegins, Vouches
  <2>2. CASE A!Ends(c)
    BY <1>1, <1>2, <2>1, <2>2, EndMoves
  <2>3. CASE A!Turn(c, "before")
    <3>1. PICK k \in Commands : /\ command' = [command EXCEPT ![c] = k]
                                /\ k.pc = "before" /\ k.verb = command[c].verb /\ k.id = command[c].id
      BY <2>3, TurnMoves
    <3>2. Sound(k) /\ Grants(k) = Grants(command[c])
      BY <1>1, <1>2, <2>1, <3>1 DEF Sound, Grants
    <3> QED BY <1>1, <1>2, <2>1, <3>1, <3>2, QuietMove
  <2> QED BY <1>3, <2>2, <2>3 DEF A!GrantBegins
<1>4. CASE A!ReadBefore(c)
  <2> DEFINE o == command[c]
             k == [o EXCEPT !.seen = acl, !.pc = "grant"]
  <2>1. o.pc = "before" /\ command' = [command EXCEPT ![c] = k] /\ ~Vouches(command[c])
    BY <1>4 DEF A!ReadBefore, Vouches
  <2> HIDE DEF o
  <2>2. k \in Commands /\ k.pc = "grant" /\ k.verb = o.verb /\ k.id = o.id /\ k.seen = acl
    BY <1>2 DEF Commands, o
  <2> HIDE DEF k
  <2>3. Sound(k) /\ Grants(k) = Grants(o)
    BY <1>2, <2>1, <2>2 DEF Sound, Grants, o
  <2> QED BY <1>1, <1>2, <2>1, <2>2, <2>3, QuietMove DEF o
<1>5. CASE A!ReadAfter(c)
  <2>1. CASE acl = command[c].seen
    <3>1. Readable(acl) => ~Vouches(command[c])
      BY <1>5, <2>1 DEF A!ReadAfter, Vouches
    <3> QED BY <1>1, <1>2, <1>5, <2>1, <3>1, EndMoves DEF A!ReadAfter
  <2>2. CASE acl # command[c].seen
    <3>1. A!Turn(c, "write") /\ command[c].pc = "after"
      BY <1>5, <2>2 DEF A!ReadAfter
    <3>2. PICK k \in Commands : /\ command' = [command EXCEPT ![c] = k]
                                /\ k.pc = "write" /\ k.verb = command[c].verb /\ k.id = command[c].id
      BY <3>1, TurnMoves
    <3>3. Sound(k) /\ Grants(k) = Grants(command[c]) /\ Vouches(k)
      BY <1>1, <1>2, <3>1, <3>2 DEF Sound, Grants, Vouches
    <3> QED BY <1>1, <1>2, <3>2, <3>3, QuietMove
  <2> QED BY <2>1, <2>2
<1> QED BY <1>3, <1>4, <1>5

\* icacls /grant over rights that cannot be read makes the grant the one that vouches;
\* otherwise whoever covers the right now still does.
LEMMA LeaseGrantAce ==
    ASSUME LeaseInv, NEW c \in Call, A!GrantAce(c)
    PROVE  LeaseInv'
<1>1. /\ command[c].pc = "grant" /\ acl' = A!Wider(acl, command[c].asked) /\ A!Turn(c, "after")
      /\ granted' = granted /\ given' = given /\ calm' = calm
  BY DEF A!GrantAce
<1>2. /\ Sound(command[c]) /\ command[c] \in Commands
      /\ given \in Nat /\ calm \in BOOLEAN /\ acl \subseteq A!Right
      /\ calm => \A d \in Call : command[d].pc # "idle" => Grants(command[d]) = Grants(command[c])
  BY <1>1 DEF LeaseInv, LeaseTypes
<1>3. PICK k \in Commands : /\ command' = [command EXCEPT ![c] = k]
                            /\ k.pc = "after" /\ k.verb = command[c].verb /\ k.id = command[c].id
                            /\ k.seen = command[c].seen
  BY <1>1, TurnMoves
<1>4. /\ command' \in [Call -> Commands]
      /\ command'[c] = k /\ \A d \in Call \ {c} : command'[d] = command[d]
  BY <1>3, OneMoves
<1>5. Sound(k) /\ Grants(k) = Grants(command[c]) /\ k.verb = "grant"
  BY <1>1, <1>2, <1>3 DEF Sound, Grants
<1>6. acl' \subseteq A!Right
  BY <1>1, <1>2 DEF A!Wider, A!Right, Commands
<1>7. LeaseTypes'
  BY <1>1, <1>4, <1>6 DEF LeaseInv, LeaseTypes
<1>8. \A d \in Call : Sound(command'[d])
  BY <1>4, <1>5 DEF LeaseInv
<1>9. ASSUME calm' PROVE \A d, e \in Call : command'[d].pc # "idle" /\ command'[e].pc # "idle"
                           => Grants(command'[d]) = Grants(command'[e])
  BY <1>1, <1>3, <1>4, <1>5, <1>9 DEF LeaseInv
<1>10. ASSUME calm', Readable(acl')
       PROVE  (granted \in Leases /\ ~granted.revoked) \/ \E d \in Call : Vouches(command'[d])
  <2>1. CASE ~Readable(k.seen)
    BY <1>3, <1>4, <2>1 DEF Vouches
  <2>2. CASE Readable(k.seen)
    <3>1. Readable(acl)
      BY <1>1, <1>3, <1>10, <2>2 DEF LeaseInv
    <3>2. ~Vouches(command[c])
      BY <1>1 DEF Vouches
    <3> QED BY <1>1, <1>4, <1>10, <3>1, <3>2 DEF LeaseInv
  <2> QED BY <2>1, <2>2
<1>11. ASSUME calm', Readable(acl') PROVE \A d \in Call : command'[d].pc # "mark"
  BY <1>1, <1>2, <1>3, <1>4, <1>5, <1>11 DEF LeaseInv, Sound, Grants
<1>12. Readable(acl) => Readable(acl')
  BY <1>1 DEF Readable, A!Wider
<1>13. ASSUME calm' PROVE \A d \in Call : command'[d].pc \in {"grant", "after"} /\ Readable(command'[d].seen)
                                         => Readable(acl')
  BY <1>1, <1>3, <1>4, <1>12, <1>13 DEF LeaseInv
<1> QED BY <1>1, <1>7, <1>8, <1>9, <1>10, <1>11, <1>13 DEF LeaseInv

\* A lease that is written covers whatever can be read.
LEMMA LeaseWrite ==
    ASSUME LeaseInv, NEW c \in Call, A!WriteLease(c)
    PROVE  LeaseInv'
<1>1. /\ command[c].pc = "write" /\ A!Ends(c)
      /\ acl' = acl /\ given' = given /\ calm' = calm
      /\ granted' = [id |-> command[c].id, right |-> command[c].asked, before |-> command[c].seen,
                     revoked |-> FALSE]
  BY DEF A!WriteLease
<1>2. command' = [command EXCEPT ![c] = A!Rest] /\ A!Rest \in Commands /\ A!Rest.pc = "idle"
  BY <1>1, LeaseRest DEF A!Ends
<1>3. Sound(command[c]) /\ command[c] \in Commands
  BY DEF LeaseInv, LeaseTypes
<1>4. granted' \in Leases /\ ~granted'.revoked
  BY <1>1, <1>3 DEF Leases, Commands, Sound
<1>5. /\ command' \in [Call -> Commands]
      /\ command'[c] = A!Rest /\ \A d \in Call \ {c} : command'[d] = command[d]
  BY <1>2, OneMoves
<1>6. LeaseTypes'
  BY <1>1, <1>4, <1>5 DEF LeaseInv, LeaseTypes
<1>7. Sound(A!Rest)
  BY <1>2 DEF Sound
<1> QED BY <1>1, <1>2, <1>4, <1>5, <1>6, <1>7 DEF LeaseInv

LEMMA LeaseRevokeBegins ==
    ASSUME LeaseInv, NEW c \in Call, A!RevokeBegins(c)
    PROVE  LeaseInv'
<1>1. /\ command[c].pc = "begun" /\ command[c].verb # "grant"
      /\ acl' = acl /\ granted' = granted /\ given' = given /\ calm' = calm
  BY DEF A!RevokeBegins
<1>2. /\ Sound(command[c]) /\ command[c] \in Commands /\ granted \in Leases \cup {A!NoLease}
      /\ given \in Nat /\ calm \in BOOLEAN
      /\ calm => \A d \in Call : command[d].pc # "idle" => Grants(command[d]) = Grants(command[c])
  BY <1>1 DEF LeaseInv, LeaseTypes
<1>3. ~Vouches(command[c])
  BY <1>1 DEF Vouches
<1>4. CASE A!Ends(c)
  BY <1>1, <1>2, <1>3, <1>4, EndMoves
<1>5. CASE granted # A!NoLease /\ command' = [command EXCEPT ![c].held = granted, ![c].pc = "remove"]
  <2> DEFINE o == command[c]
             k == [o EXCEPT !.held = granted, !.pc = "remove"]
  <2>1. command' = [command EXCEPT ![c] = k]
    BY <1>5
  <2> HIDE DEF o
  <2>2. /\ k \in Commands /\ k.pc = "remove" /\ k.verb = o.verb /\ k.id = o.id /\ k.held = granted
    BY <1>2 DEF Commands, o
  <2> HIDE DEF k
  <2>3. Sound(k) /\ Grants(k) = Grants(o)
    BY <1>1, <1>2, <1>5, <2>2 DEF Sound, Grants, o
  <2> QED BY <1>1, <1>2, <1>3, <2>1, <2>2, <2>3, QuietMove DEF o
<1> QED BY <1>4, <1>5 DEF A!RevokeBegins

\* icacls /remove:g leaves nothing that can be read.
LEMMA LeaseRemoveAce ==
    ASSUME LeaseInv, NEW c \in Call, A!RemoveAce(c)
    PROVE  LeaseInv'
<1>1. /\ command[c].pc = "remove"
      /\ granted' = granted /\ given' = given /\ calm' = calm
  BY DEF A!RemoveAce
<1>2. /\ Sound(command[c]) /\ command[c] \in Commands
      /\ given \in Nat /\ calm \in BOOLEAN
      /\ calm => \A d \in Call : command[d].pc # "idle" => Grants(command[d]) = Grants(command[c])
  BY <1>1 DEF LeaseInv, LeaseTypes
<1>3. CASE acl' = {} /\ A!Turn(c, "mark")
  <2>1. PICK k \in Commands : /\ command' = [command EXCEPT ![c] = k]
                              /\ k.pc = "mark" /\ k.verb = command[c].verb /\ k.id = command[c].id
                              /\ k.held = command[c].held
    BY <1>3, TurnMoves
  <2>2. /\ command' \in [Call -> Commands]
        /\ command'[c] = k /\ \A d \in Call \ {c} : command'[d] = command[d]
    BY <2>1, OneMoves
  <2>3. Sound(k) /\ Grants(k) = Grants(command[c]) /\ ~Grants(k)
    BY <1>1, <1>2, <2>1 DEF Sound, Grants
  <2>4. LeaseTypes'
    BY <1>1, <1>3, <2>2 DEF LeaseInv, LeaseTypes
  <2>5. \A d \in Call : Sound(command'[d])
    BY <2>2, <2>3 DEF LeaseInv
  <2>6. ASSUME calm' PROVE \A d, e \in Call : command'[d].pc # "idle" /\ command'[e].pc # "idle"
                             => Grants(command'[d]) = Grants(command'[e])
    BY <1>1, <2>1, <2>2, <2>3, <2>6 DEF LeaseInv
  <2>7. ~Readable(acl')
    BY <1>3 DEF Readable
  <2>8. ASSUME calm' PROVE \A d \in Call : command'[d].pc \notin {"grant", "after"}
    BY <1>1, <1>2, <2>1, <2>2, <2>3, <2>8 DEF LeaseInv, Sound, Grants
  <2> QED BY <2>4, <2>5, <2>6, <2>7, <2>8 DEF LeaseInv
<1>4. CASE A!Ends(c) /\ acl' = acl
  <2>1. ~Vouches(command[c])
    BY <1>1 DEF Vouches
  <2> QED BY <1>1, <1>2, <1>4, <2>1, EndMoves
<1> QED BY <1>3, <1>4 DEF A!RemoveAce

\* A lease is marked as revoked when the rights are gone.
LEMMA LeaseMark ==
    ASSUME LeaseInv, NEW c \in Call, A!Mark(c)
    PROVE  LeaseInv'
<1>1. /\ command[c].pc = "mark" /\ A!Ends(c)
      /\ acl' = acl /\ given' = given /\ calm' = calm
      /\ granted' = [command[c].held EXCEPT !.revoked = TRUE]
  BY DEF A!Mark
<1>2. command' = [command EXCEPT ![c] = A!Rest] /\ A!Rest \in Commands /\ A!Rest.pc = "idle"
  BY <1>1, LeaseRest DEF A!Ends
<1>3. command[c].held \in Leases
  BY <1>1 DEF LeaseInv, Sound
<1>4. granted' \in Leases
  BY <1>1, <1>3 DEF Leases
<1>5. /\ command' \in [Call -> Commands]
      /\ command'[c] = A!Rest /\ \A d \in Call \ {c} : command'[d] = command[d]
  BY <1>2, OneMoves
<1>6. LeaseTypes'
  BY <1>1, <1>4, <1>5 DEF LeaseInv, LeaseTypes
<1>7. Sound(A!Rest)
  BY <1>2 DEF Sound
<1>8. calm => ~Readable(acl)
  BY <1>1 DEF LeaseInv
<1> QED BY <1>1, <1>2, <1>5, <1>6, <1>7, <1>8 DEF LeaseInv

\* A command cut short takes its promise along only where the ghost says so.
LEMMA LeaseCut ==
    ASSUME LeaseInv, NEW c \in Call, A!Cut(c)
    PROVE  LeaseInv'
<1>1. /\ A!Ends(c) /\ calm' = (calm /\ command[c].pc \notin {"after", "write"})
      /\ acl' = acl /\ granted' = granted /\ given' = given
  BY DEF A!Cut
<1>2. calm' \in BOOLEAN /\ (calm' => calm) /\ (calm' => ~Vouches(command[c]))
  BY <1>1 DEF LeaseInv, LeaseTypes, Vouches
<1> QED BY <1>1, <1>2, EndMoves

LEMMA LeaseForeign ==
    ASSUME LeaseInv, NEW right \in A!Right, A!Foreign(right)
    PROVE  LeaseInv'
<1>1. /\ calm' = (calm /\ right = "write") /\ acl' \in {acl \ {right}, acl \cup {right}}
      /\ granted' = granted /\ command' = command /\ given' = given
  BY DEF A!Foreign
<1>2. LeaseTypes'
  BY <1>1 DEF LeaseInv, LeaseTypes
<1>3. calm' => Readable(acl') = Readable(acl)
  BY <1>1 DEF Readable
<1>4. calm' => calm
  BY <1>1
<1> QED BY <1>1, <1>2, <1>3, <1>4 DEF LeaseInv

LEMMA LeaseStep ==
    ASSUME LeaseInv, A!LeaseNext \/ UNCHANGED leaseVars
    PROVE  LeaseInv'
<1>1. CASE UNCHANGED leaseVars \/ \E l \in 1..MaxLeaseCommands : A!Expire(l)
  <2>1. acl' = acl /\ granted' = granted /\ command' = command /\ given' = given /\ calm' = calm
    BY <1>1 DEF leaseVars, A!Expire
  <2> QED BY <2>1 DEF LeaseInv, LeaseTypes
<1>2. ASSUME NEW c \in Call,
             \/ \E verb \in {"grant", "revoke", "sweep"}, asked \in {"flat", "deep"} :
                   A!Give(c, verb, asked)
             \/ A!GrantBegins(c) \/ A!ReadBefore(c) \/ A!GrantAce(c) \/ A!ReadAfter(c)
             \/ A!WriteLease(c) \/ A!RevokeBegins(c) \/ A!RemoveAce(c) \/ A!Mark(c) \/ A!Cut(c)
      PROVE  LeaseInv'
  BY <1>2, LeaseGive, LeaseGrant, LeaseGrantAce, LeaseWrite, LeaseRevokeBegins, LeaseRemoveAce,
     LeaseMark, LeaseCut
<1> QED BY <1>1, <1>2, LeaseForeign DEF A!LeaseNext

-----------------------------------------------------------------------------
(* LiveStream *)

\* Only what the worker listens to is on the wire, and a worker that runs and has an
\* endpoint listens, or a reconnect is due.
StreamInv ==
    /\ dials \in Nat /\ reply \in 0..dials
    /\ DOMAIN wire = IF reply = 0 THEN {} ELSE {reply}
    /\ alive => reply # 0
    /\ running /\ url # L!None => reply # 0 \/ timer
    /\ ~running => reply = 0

LEMMA StreamInitial == L!StreamInit => StreamInv
  BY DEF L!StreamInit, StreamInv

\* A connection that is given up is off the wire, and there was no other.
LEMMA NoneLeft ==
    ASSUME StreamInv, NEW c, c = reply \/ c \in DOMAIN wire
    PROVE  DOMAIN L!Drop(wire, c) = {}
  BY DEF StreamInv, L!Drop

OpenedTo(u) ==
    /\ dials' \in Nat /\ reply' \in 0..dials'
    /\ DOMAIN wire' = IF reply' = 0 THEN {} ELSE {reply'}
    /\ alive' => reply' # 0
    /\ u # L!None => reply' # 0

\* Opening again gives a number that no connection has had.
LEMMA OpenedOne ==
    ASSUME NEW w, NEW r \in 0..dials, NEW u, dials \in Nat,
           DOMAIN w = IF r = 0 THEN {} ELSE {r}, L!Opened(w, r, u),
           alive => reply # 0, reply = r \/ u # L!None
    PROVE  OpenedTo(u)
<1>1. CASE u # L!None /\ r = 0
  <2>1. /\ dials' = dials + 1 /\ reply' = dials + 1
        /\ wire' = [n \in DOMAIN w \cup {dials + 1} |-> IF n \in DOMAIN w THEN w[n] ELSE "open"]
    BY <1>1 DEF L!Opened
  <2>2. DOMAIN wire' = {dials + 1}
    BY <1>1, <2>1
  <2> QED BY <2>1, <2>2 DEF OpenedTo
<1>2. CASE ~(u # L!None /\ r = 0)
  <2>1. wire' = w /\ reply' = r /\ dials' = dials /\ alive' = alive
    BY <1>2 DEF L!Opened
  <2> QED BY <1>2, <2>1 DEF OpenedTo
<1> QED BY <1>1, <1>2

LEMMA StreamStep ==
    ASSUME StreamInv, L!StreamNext \/ UNCHANGED streamVars
    PROVE  StreamInv'
<1>1. CASE L!Start
  <2>1. L!Opened(wire, reply, url) /\ url' = url /\ running'
    BY <1>1 DEF L!Start
  <2>2. OpenedTo(url)
    BY <2>1, OpenedOne DEF StreamInv
  <2> QED BY <2>1, <2>2 DEF StreamInv, OpenedTo
<1>2. CASE L!Refresh
  <2>1. L!Opened(wire, reply, url) /\ url' = url /\ url # L!None /\ running /\ running' = running
    BY <1>2 DEF L!Refresh, L!Command
  <2>2. OpenedTo(url)
    BY <2>1, OpenedOne DEF StreamInv
  <2> QED BY <2>1, <2>2 DEF StreamInv, OpenedTo
<1>3. CASE L!Stop
  <2>1. /\ wire' = L!Drop(wire, reply) /\ reply' = 0 /\ ~alive' /\ ~running' /\ dials' = dials
    BY <1>3 DEF L!Stop
  <2> QED BY <2>1, NoneLeft DEF StreamInv
<1>4. CASE L!ReconnectTick
  <2>1. CASE running /\ ~alive
    <3>1. L!Opened(wire, reply, url) /\ url' = url /\ running' = running
      BY <1>4, <2>1 DEF L!ReconnectTick
    <3>2. OpenedTo(url)
      BY <3>1, OpenedOne DEF StreamInv
    <3> QED BY <2>1, <3>1, <3>2 DEF StreamInv, OpenedTo
  <2>2. CASE ~(running /\ ~alive)
    <3>1. wire' = wire /\ reply' = reply /\ alive' = alive /\ dials' = dials
          /\ running' = running /\ url' = url
      BY <1>4, <2>2 DEF L!ReconnectTick
    <3> QED BY <2>2, <3>1 DEF StreamInv
  <2> QED BY <2>1, <2>2
<1>5. ASSUME NEW u \in Url \cup {L!None}, L!Retarget(u) PROVE StreamInv'
  <2>1. CASE u # L!None
    <3>1. L!Opened(L!Drop(wire, reply), 0, u) /\ url' = u /\ running /\ running' = running
      BY <1>5, <2>1 DEF L!Retarget, L!Command
    <3>2. DOMAIN L!Drop(wire, reply) = {} /\ dials \in Nat /\ (alive => reply # 0) /\ 0 \in 0..dials
      BY NoneLeft DEF StreamInv
    <3>3. OpenedTo(u)
      BY <2>1, <3>1, <3>2, OpenedOne
    <3> QED BY <2>1, <3>1, <3>3 DEF StreamInv, OpenedTo
  <2>2. CASE u = L!None
    <3>1. wire' = L!Drop(wire, reply) /\ reply' = 0 /\ ~alive' /\ dials' = dials /\ url' = u
      BY <1>5, <2>2 DEF L!Retarget
    <3> QED BY <2>2, <3>1, NoneLeft DEF StreamInv
  <2> QED BY <2>1, <2>2
<1>6. ASSUME NEW c \in DOMAIN wire, L!Fail(c) PROVE StreamInv'
  <2>1. /\ wire' = [wire EXCEPT ![c] = "failed"]
        /\ reply' = reply /\ dials' = dials /\ url' = url /\ running' = running
    BY <1>6 DEF L!Fail
  <2>2. (running => timer' = TRUE /\ alive' = FALSE) /\ (~running => timer' = timer /\ alive' = alive)
    BY <1>6 DEF L!Fail, L!Schedule
  <2>3. DOMAIN wire' = DOMAIN wire
    BY <2>1
  <2> QED BY <2>1, <2>2, <2>3 DEF StreamInv
<1>7. ASSUME NEW c \in DOMAIN wire, L!Finish(c) PROVE StreamInv'
  <2>1. wire' = L!Drop(wire, c) /\ dials' = dials /\ url' = url /\ running' = running
    BY <1>7 DEF L!Finish
  <2>2. CASE running
    <3>1. reply' = 0 /\ alive' = FALSE /\ timer' = TRUE
      BY <1>7, <2>2 DEF L!Finish, L!Schedule
    <3> QED BY <2>1, <3>1, NoneLeft DEF StreamInv
  <2>3. CASE ~running
    <3> QED BY <2>3 DEF StreamInv
  <2> QED BY <2>2, <2>3
<1>8. CASE \/ L!SelectSession \/ L!StepStarts \/ L!TextStarts \/ L!TextEnds
           \/ (\E n \in 1..MaxLength : L!Delta(n)) \/ UNCHANGED streamVars
  <2>1. wire' = wire /\ reply' = reply /\ alive' = alive /\ dials' = dials /\ timer' = timer
        /\ running' = running /\ url' = url
    BY <1>8 DEF L!SelectSession, L!StepStarts, L!TextStarts, L!TextEnds, L!Delta, L!Rest, L!link,
                streamVars
  <2> QED BY <2>1 DEF StreamInv
<1> QED BY <1>1, <1>2, <1>3, <1>4, <1>5, <1>6, <1>7, <1>8 DEF L!StreamNext

-----------------------------------------------------------------------------
(* MirrorBackup *)

Times == [File -> Nat]
Rounds == [pc : {"wait", "archive", "copy"}, hash : Times, left : SUBSET File, seen : SUBSET File,
           open : SUBSET File, edited : BOOLEAN]

MirrorTypes ==
    /\ source \in Times /\ mirror \in Times /\ lastHash \subseteq Times /\ round \in Rounds
    /\ edits \in Nat \ {0} /\ missed \subseteq File

\* No time is of an edit still to come.
Past(times) == \A f \in File : times[f] <= edits
\* What the folder has as it was hashed is in the mirror as it is in the folder.
Caught(hash, f) == source[f] # 0 /\ source[f] = hash[f] => mirror[f] = source[f]

\* Of a file that is not excepted: the mirror is behind the folder, never ahead; it has
\* caught up with the hash that is kept and, once the walk has passed it, with the one the
\* walk is taken by.
Kept(f) ==
    /\ source[f] # 0 => mirror[f] <= source[f]
    /\ \A h \in lastHash : Caught(h, f)
    /\ round.pc # "wait" /\ f \notin round.left =>
         Caught(round.hash, f) /\ (source[f] # 0 /\ source[f] = round.hash[f] => f \in round.seen)

\* A file is excepted while it is being copied.
MirrorInv ==
    /\ MirrorTypes
    /\ Past(source) /\ Past(mirror) /\ Past(round.hash) /\ \A h \in lastHash : Past(h)
    /\ round.open \subseteq missed
    /\ \A f \in File \ missed : Kept(f)

LEMMA MirrorWaiting ==
    M!Waiting \in Rounds /\ M!Waiting.pc = "wait" /\ M!Waiting.hash = M!Empty
    /\ M!Waiting.open = {} /\ M!Empty \in Times /\ \A f \in File : M!Empty[f] = 0
<1>1. M!Empty \in Times /\ \A f \in File : M!Empty[f] = 0
  BY DEF M!Empty, Times
<1> QED BY <1>1 DEF M!Waiting, Rounds

LEMMA MirrorInitial == M!MirrorInit => MirrorInv
<1> SUFFICES ASSUME M!MirrorInit PROVE MirrorInv
  OBVIOUS
<1>1. /\ source \in Times /\ \A f \in File : source[f] \in {0, 1}
      /\ mirror = M!Empty /\ lastHash = {} /\ round = M!Waiting /\ edits = 1 /\ missed = {}
  BY DEF M!MirrorInit, Times
<1>2. MirrorTypes
  BY <1>1, MirrorWaiting DEF MirrorTypes
<1>3. Past(source) /\ Past(mirror) /\ Past(round.hash) /\ \A h \in lastHash : Past(h)
  BY <1>1, MirrorWaiting DEF Past
<1>4. \A f \in File : Kept(f)
  BY <1>1, MirrorWaiting DEF Kept
<1> QED BY <1>1, <1>2, <1>3, <1>4, MirrorWaiting DEF MirrorInv

\* The round changes, and nothing else the mirror is measured by.
LEMMA RoundMoves ==
    ASSUME MirrorInv, source' = source, mirror' = mirror, edits' = edits, lastHash' = lastHash,
           missed' = missed, round' \in Rounds, round'.open \subseteq round.open,
           round'.hash = round.hash \/ round'.hash = source \/ \A f \in File : round'.hash[f] = 0,
           \/ round'.pc = "wait" \/ round'.left = File
           \/ round.pc # "wait" /\ round'.hash = round.hash /\ round'.left = round.left
              /\ round'.seen = round.seen
    PROVE  MirrorInv'
<1>1. MirrorTypes'
  BY DEF MirrorInv, MirrorTypes
<1>2. Past(round.hash)'
  BY DEF MirrorInv, MirrorTypes, Past
<1>3. Past(source)' /\ Past(mirror)' /\ (\A h \in lastHash : Past(h))'
  BY DEF MirrorInv, Past
<1>4. ASSUME NEW f \in File \ missed PROVE Kept(f)'
  <2>1. Kept(f)
    BY <1>4 DEF MirrorInv
  <2> QED BY <2>1 DEF Kept, Caught
<1> QED BY <1>1, <1>2, <1>3, <1>4 DEF MirrorInv

LEMMA MirrorHash ==
    ASSUME MirrorInv, M!Hash
    PROVE  MirrorInv'
<1>1. /\ round.pc = "wait" /\ UNCHANGED <<source, mirror, edits, lastHash, missed>>
      /\ source \in Times
  BY DEF M!Hash, MirrorInv, MirrorTypes
<1>2. CASE round' = M!Waiting
  BY <1>1, <1>2, MirrorWaiting, RoundMoves
<1>3. CASE round' = M!Syncing(source) \/ round' = [M!Syncing(source) EXCEPT !.pc = "archive"]
  <2> DEFINE q == M!Syncing(source)
  <2>1. q \in Rounds /\ q.hash = source /\ q.left = File /\ q.open = {}
    BY <1>1 DEF M!Syncing, Rounds
  <2> HIDE DEF q
  <2>2. round' \in Rounds /\ round'.hash = source /\ round'.left = File /\ round'.open = {}
    BY <1>3, <2>1 DEF Rounds, q
  <2> QED BY <1>1, <2>2, RoundMoves
<1> QED BY <1>2, <1>3 DEF M!Hash

LEMMA MirrorArchive ==
    ASSUME MirrorInv, M!Archive
    PROVE  MirrorInv'
<1>1. /\ round.pc = "archive" /\ round' = [round EXCEPT !.pc = "copy"]
      /\ UNCHANGED <<source, mirror, edits, lastHash, missed>> /\ round \in Rounds
  BY DEF M!Archive, MirrorInv, MirrorTypes
<1>2. /\ round' \in Rounds /\ round'.hash = round.hash /\ round'.left = round.left
      /\ round'.seen = round.seen /\ round'.open = round.open
  BY <1>1 DEF Rounds
<1> QED BY <1>1, <1>2, RoundMoves

\* A step of the walk at one file g: of the other files nothing changes but that they may
\* be excepted too, and g is excepted or has caught up.
LEMMA WalkMoves ==
    ASSUME MirrorInv, NEW g \in File, UNCHANGED <<source, edits, lastHash>>,
           round' \in Rounds, round'.pc = round.pc, round'.hash = round.hash,
           round'.left = round.left \/ round'.left = round.left \ {g},
           round.seen \subseteq round'.seen,
           mirror' \in Times, mirror'[g] <= edits, \A f \in File \ {g} : mirror'[f] = mirror[f],
           missed' \subseteq File, missed \ {g} \subseteq missed', round'.open \subseteq missed',
           g \in missed' \/ (source[g] # 0 => mirror'[g] = source[g] /\ g \in round'.seen)
    PROVE  MirrorInv'
<1>1. /\ source \in Times /\ mirror \in Times /\ lastHash \subseteq Times /\ round \in Rounds
      /\ edits \in Nat \ {0} /\ source[g] \in Nat
  BY DEF MirrorInv, MirrorTypes, Times
<1>2. MirrorTypes'
  BY <1>1 DEF MirrorTypes
<1>3. Past(source)' /\ Past(mirror)' /\ Past(round.hash)' /\ (\A h \in lastHash : Past(h))'
  BY DEF MirrorInv, Past
<1>4. ASSUME NEW f \in File \ missed' PROVE Kept(f)'
  <2>1. CASE f = g
    BY <1>1, <1>4, <2>1 DEF Kept, Caught
  <2>2. CASE f # g
    <3>1. Kept(f) /\ f \in File \ missed
      BY <1>4, <2>2 DEF MirrorInv
    <3>2. mirror'[f] = mirror[f] /\ (f \in round'.left <=> f \in round.left)
      BY <1>4, <2>2
    <3> QED BY <3>1, <3>2 DEF Kept, Caught
  <2> QED BY <2>1, <2>2
<1> QED BY <1>2, <1>3, <1>4 DEF MirrorInv

LEMMA PassedMoves ==
    ASSUME MirrorInv, NEW g \in File, round' = M!Passed(g)
    PROVE  /\ round' \in Rounds /\ round'.pc = round.pc /\ round'.hash = round.hash
           /\ round'.left = round.left \ {g} /\ round.seen \subseteq round'.seen
           /\ source[g] # 0 => g \in round'.seen
           /\ round'.open = {}
<1>1. round \in Rounds
  BY DEF MirrorInv, MirrorTypes
<1> QED BY <1>1 DEF M!Passed, Rounds

\* A file that is passed by has caught up, or is excepted.
LEMMA MirrorPasses ==
    ASSUME MirrorInv, NEW g \in File, M!PassFile(g)
    PROVE  MirrorInv'
<1>1. /\ round' = M!Passed(g) /\ UNCHANGED <<source, mirror, edits, lastHash>>
      /\ \/ ~M!Outdated(g) /\ missed' = missed
         \/ missed' = missed \cup {g}
  BY DEF M!PassFile
<1>2. /\ source \in Times /\ mirror \in Times /\ missed \subseteq File /\ Past(mirror)
  BY DEF MirrorInv, MirrorTypes
<1>3. source[g] \in Nat /\ mirror[g] \in Nat /\ mirror[g] <= edits
  BY <1>2 DEF Times, Past
<1>4. ASSUME g \notin missed' PROVE source[g] # 0 => mirror[g] = source[g]
  <2>1. Kept(g) /\ ~M!Outdated(g)
    BY <1>1, <1>4 DEF MirrorInv
  <2> QED BY <1>3, <2>1 DEF Kept, M!Outdated
<1> QED BY <1>1, <1>2, <1>3, <1>4, PassedMoves, WalkMoves

LEMMA MirrorOpens ==
    ASSUME MirrorInv, NEW g \in File, M!OpenFile(g)
    PROVE  MirrorInv'
<1>1. /\ round' = [round EXCEPT !.open = {g}, !.seen = @ \cup {g}]
      /\ mirror' = [mirror EXCEPT ![g] = edits] /\ missed' = missed \cup {g}
      /\ UNCHANGED <<source, edits, lastHash>>
  BY DEF M!OpenFile
<1>2. mirror \in Times /\ round \in Rounds /\ edits \in Nat /\ missed \subseteq File
  BY DEF MirrorInv, MirrorTypes
<1>3. /\ round' \in Rounds /\ round'.pc = round.pc /\ round'.hash = round.hash
      /\ round'.left = round.left /\ round.seen \subseteq round'.seen /\ round'.open = {g}
  BY <1>1, <1>2 DEF Rounds
<1>4. mirror' \in Times /\ mirror'[g] <= edits /\ \A f \in File \ {g} : mirror'[f] = mirror[f]
  BY <1>1, <1>2 DEF Times
<1> QED BY <1>1, <1>2, <1>3, <1>4, WalkMoves

LEMMA MirrorCloses ==
    ASSUME MirrorInv, NEW g \in File, M!CloseFile(g)
    PROVE  MirrorInv'
<1>1. /\ round' = M!Passed(g) /\ mirror' = [mirror EXCEPT ![g] = source[g]]
      /\ missed' = IF round.edited THEN missed ELSE missed \ {g}
      /\ UNCHANGED <<source, edits, lastHash>> /\ source[g] # 0
  BY DEF M!CloseFile
<1>2. /\ source \in Times /\ mirror \in Times /\ missed \subseteq File /\ Past(source)
  BY DEF MirrorInv, MirrorTypes
<1>3. /\ mirror' \in Times /\ mirror'[g] = source[g] /\ mirror'[g] <= edits
      /\ \A f \in File \ {g} : mirror'[f] = mirror[f]
  BY <1>1, <1>2 DEF Times, Past
<1>4. missed' \subseteq File /\ missed \ {g} \subseteq missed'
  BY <1>1, <1>2
<1> QED BY <1>1, <1>3, <1>4, PassedMoves, WalkMoves

\* A copy that is cut short changes no file but one that is excepted.
LEMMA CutMirror ==
    ASSUME MirrorInv, M!CutShort
    PROVE  /\ mirror' \in Times /\ \A f \in File : mirror'[f] <= edits
           /\ \A f \in File \ missed : mirror'[f] = mirror[f]
           /\ mirror' # mirror => \E g \in round.open : mirror' = [mirror EXCEPT ![g] = edits]
<1>1. mirror \in Times /\ edits \in Nat /\ Past(mirror) /\ round.open \subseteq missed
  BY DEF MirrorInv, MirrorTypes
<1>2. CASE mirror' = mirror
  BY <1>1, <1>2 DEF Past
<1>3. CASE mirror' # mirror
  <2>1. PICK g \in round.open : mirror' = [mirror EXCEPT ![g] = edits]
    BY <1>3 DEF M!CutShort
  <2>2. mirror' \in Times
    BY <1>1, <2>1 DEF Times
  <2>3. \A f \in File : mirror'[f] <= edits
    BY <1>1, <2>1 DEF Times, Past
  <2>4. \A f \in File \ missed : mirror'[f] = mirror[f]
    BY <1>1, <2>1 DEF Times
  <2> QED BY <2>1, <2>2, <2>3, <2>4
<1> QED BY <1>2, <1>3

LEMMA MirrorBreaks ==
    ASSUME MirrorInv, NEW g \in File, M!BreakFile(g)
    PROVE  MirrorInv'
<1>1. /\ round' = M!Passed(g) /\ M!CutShort /\ g \in round.open
      /\ UNCHANGED <<source, edits, lastHash, missed>>
  BY DEF M!BreakFile
<1>2. /\ mirror \in Times /\ missed \subseteq File /\ round.open \subseteq missed
  BY DEF MirrorInv, MirrorTypes
<1>3. round' \in Rounds /\ round'.pc = round.pc /\ round'.hash = round.hash
      /\ round'.left = round.left \ {g} /\ round.seen \subseteq round'.seen /\ round'.open = {}
  BY <1>1, PassedMoves
<1>4. /\ mirror' \in Times /\ Past(mirror)'
  BY <1>1, CutMirror DEF Past
<1>5. MirrorTypes'
  BY <1>1, <1>3, <1>4 DEF MirrorInv, MirrorTypes
<1>6. Past(source)' /\ Past(round.hash)' /\ (\A h \in lastHash : Past(h))'
  BY <1>1, <1>3 DEF MirrorInv, Past
<1>7. ASSUME NEW f \in File \ missed PROVE Kept(f)'
  <2>1. Kept(f) /\ f # g
    BY <1>1, <1>2, <1>7 DEF MirrorInv
  <2>2. mirror'[f] = mirror[f]
    BY <1>1, <1>7, CutMirror
  <2> QED BY <1>1, <1>3, <2>1, <2>2 DEF Kept, Caught
<1> QED BY <1>1, <1>3, <1>4, <1>5, <1>6, <1>7 DEF MirrorInv

\* What the walk did not meet goes; what is as it was hashed was met.
LEMMA MirrorSyncEnds ==
    ASSUME MirrorInv, M!SyncEnds
    PROVE  MirrorInv'
<1>1. /\ round.pc = "copy" /\ round.left = {} /\ round' = M!Waiting /\ round \in Rounds
      /\ mirror' = [f \in File |-> IF f \in round.seen THEN mirror[f] ELSE 0]
      /\ lastHash' = {round.hash} /\ UNCHANGED <<source, edits, missed>>
  BY DEF M!SyncEnds, MirrorInv, MirrorTypes
<1>2. round' \in Rounds /\ round'.pc = "wait" /\ round'.hash = M!Empty /\ round'.open = {}
  BY <1>1, MirrorWaiting
<1>3. /\ source \in Times /\ mirror \in Times /\ mirror' \in Times /\ edits \in Nat
      /\ round.hash \in Times
  BY <1>1 DEF MirrorInv, MirrorTypes, Times, Rounds
<1>4. MirrorTypes'
  BY <1>1, <1>2, <1>3 DEF MirrorInv, MirrorTypes
<1>5. Past(source)' /\ Past(mirror)' /\ Past(round.hash)' /\ (\A h \in lastHash : Past(h))'
  BY <1>1, <1>2, <1>3, MirrorWaiting DEF MirrorInv, Past
<1>6. ASSUME NEW f \in File \ missed PROVE Kept(f)'
  <2>1. Kept(f) /\ f \notin round.left
    BY <1>1, <1>6 DEF MirrorInv
  <2>2. mirror'[f] = IF f \in round.seen THEN mirror[f] ELSE 0
    BY <1>1, <1>6
  <2>3. source[f] \in Nat
    BY <1>3, <1>6 DEF Times
  <2>4. source[f] # 0 => mirror'[f] <= source[f]
    BY <2>1, <2>2, <2>3 DEF Kept
  <2>5. Caught(round.hash, f) /\ (source[f] # 0 /\ source[f] = round.hash[f] => f \in round.seen)
    BY <1>1, <2>1 DEF Kept
  <2>6. (source[f] # 0 /\ source[f] = round.hash[f]) => mirror'[f] = source[f]
    BY <2>2, <2>5 DEF Caught
  <2> QED BY <1>1, <1>2, <2>4, <2>6 DEF Kept, Caught
<1> QED BY <1>1, <1>2, <1>4, <1>5, <1>6 DEF MirrorInv

LEMMA MirrorStops ==
    ASSUME MirrorInv, M!SyncFails \/ M!Restart
    PROVE  MirrorInv'
<1>1. /\ round' = M!Waiting /\ UNCHANGED <<source, edits>> /\ round \in Rounds /\ M!CutShort
      /\ missed \subseteq missed' /\ missed' \subseteq File
      /\ \/ lastHash' \subseteq lastHash
         \/ round.pc = "copy" /\ lastHash' = {round.hash} /\ round.left \subseteq missed'
  BY DEF M!SyncFails, M!Restart, MirrorInv, MirrorTypes, Rounds
<1>2. round' \in Rounds /\ round'.pc = "wait" /\ round'.hash = M!Empty /\ round'.open = {}
  BY <1>1, MirrorWaiting
<1>3. round.hash \in Times
  BY <1>1 DEF Rounds
<1>4. mirror' \in Times /\ Past(mirror)'
  BY <1>1, CutMirror DEF Past
<1>5. MirrorTypes'
  BY <1>1, <1>2, <1>3, <1>4 DEF MirrorInv, MirrorTypes
<1>6. Past(source)' /\ Past(round.hash)' /\ (\A h \in lastHash : Past(h))'
  BY <1>1, <1>2, MirrorWaiting DEF MirrorInv, MirrorTypes, Past
<1>7. ASSUME NEW f \in File \ missed' PROVE Kept(f)'
  <2>1. Kept(f) /\ f \in File \ missed
    BY <1>1, <1>7 DEF MirrorInv
  <2>2. mirror'[f] = mirror[f]
    BY <1>1, <2>1, CutMirror
  <2>3. ASSUME NEW h \in lastHash' PROVE Caught(h, f)
    BY <1>1, <1>7, <2>1, <2>3 DEF Kept
  <2> QED BY <1>1, <1>2, <2>1, <2>2, <2>3 DEF Kept, Caught
<1> QED BY <1>2, <1>4, <1>5, <1>6, <1>7 DEF MirrorInv

\* An edit gives a time that no hash and no copy has, or removes the file; or the ghost
\* names it.
LEMMA MirrorEdit ==
    ASSUME MirrorInv, NEW g \in File, NEW time \in {0, 1, edits + 1}, M!EditFile(g, time)
    PROVE  MirrorInv'
<1>1. /\ edits' = edits + 1 /\ source' = [source EXCEPT ![g] = time]
      /\ round' = IF g \in round.open THEN [round EXCEPT !.edited = TRUE] ELSE round
      /\ missed' = IF time \in 1..edits THEN missed \cup {g}
                   ELSE IF g \in round.open THEN missed ELSE missed \ {g}
      /\ UNCHANGED <<mirror, lastHash>> /\ MirrorTypes /\ round.open \subseteq missed
  BY DEF M!EditFile, MirrorInv
<1>2. /\ edits \in Nat \ {0} /\ time \in Nat /\ time <= edits + 1 /\ round \in Rounds
      /\ missed \subseteq File
  BY <1>1 DEF MirrorTypes
<1>3. /\ source' \in Times /\ source'[g] = time /\ \A f \in File \ {g} : source'[f] = source[f]
      /\ source \in Times /\ mirror \in Times /\ round.hash \in Times /\ lastHash \subseteq Times
  BY <1>1, <1>2 DEF MirrorTypes, Times, Rounds
<1>4. /\ missed' \subseteq File /\ missed \ {g} \subseteq missed' /\ round.open \subseteq missed'
      /\ g \notin missed' => time = 0 \/ time = edits + 1
  <2>1. time \in 1..edits \/ time = 0 \/ time = edits + 1
    BY <1>2
  <2> QED BY <1>1, <1>2, <2>1
<1>5. /\ round' \in Rounds /\ round'.pc = round.pc /\ round'.hash = round.hash
      /\ round'.left = round.left /\ round'.seen = round.seen /\ round'.open = round.open
  BY <1>1, <1>2 DEF Rounds
<1>6. MirrorTypes'
  BY <1>1, <1>2, <1>3, <1>4, <1>5 DEF MirrorTypes
<1>7. ASSUME NEW t \in Times, Past(t) PROVE \A f \in File : t[f] <= edits + 1 /\ t[f] # edits + 1
  <2> TAKE f \in File
  <2>1. t[f] \in Nat /\ t[f] <= edits
    BY <1>7 DEF Past, Times
  <2> QED BY <1>2, <2>1
<1>8. Past(mirror)' /\ Past(round.hash)' /\ (\A h \in lastHash : Past(h))'
  BY <1>1, <1>3, <1>5, <1>7 DEF MirrorInv, Past
<1>9. Past(source)'
  BY <1>1, <1>2, <1>3, <1>7 DEF MirrorInv, Past
<1>10. ASSUME NEW f \in File \ missed' PROVE Kept(f)'
  <2>1. CASE f = g
    <3>1. time = 0 \/ time = edits + 1
      BY <1>4, <1>10, <2>1
    <3>2. mirror[g] <= edits + 1 /\ round.hash[g] # edits + 1 /\ \A h \in lastHash : h[g] # edits + 1
      BY <1>3, <1>7 DEF MirrorInv
    <3> QED BY <1>1, <1>2, <1>3, <1>5, <2>1, <3>1, <3>2 DEF Kept, Caught
  <2>2. CASE f # g
    <3>1. Kept(f) /\ source'[f] = source[f]
      BY <1>3, <1>4, <1>10, <2>2 DEF MirrorInv
    <3> QED BY <1>1, <1>5, <3>1 DEF Kept, Caught
  <2> QED BY <2>1, <2>2
<1> QED BY <1>4, <1>5, <1>6, <1>8, <1>9, <1>10 DEF MirrorInv

LEMMA MirrorStep ==
    ASSUME MirrorInv, M!MirrorNext \/ UNCHANGED mirrorVars
    PROVE  MirrorInv'
<1>1. CASE UNCHANGED mirrorVars
  <2>1. UNCHANGED <<source, mirror, edits, lastHash, missed, round>>
    BY <1>1 DEF mirrorVars
  <2> QED BY <2>1 DEF MirrorInv, MirrorTypes, Past, Kept, Caught
<1> QED BY <1>1, MirrorHash, MirrorArchive, MirrorPasses, MirrorOpens, MirrorCloses, MirrorBreaks,
           MirrorSyncEnds, MirrorStops, MirrorEdit
    DEF M!MirrorNext

-----------------------------------------------------------------------------
(* ClipboardPlus *)

\* The pictures that may be saved: all but those it knows for its own.
Images == {"image", "stray"} \X Photo
Words == {"dirty", "safe"} \X Note
Held(items) == {<<>>} \cup {<<x>> : x \in items}
Stored == [where : C!Folder, data : Images]
\* The monitor's memory, but for its hashes.
Monitors(hashes) ==
    [path : {"chosen", "other"}, fallback : BOOLEAN, eff : C!Folder \cup {""}, ok : BOOLEAN,
     hashes : {hashes}, pending : Held(Images), last : Nat, ignore : BOOLEAN, timer : BOOLEAN]
Eyes == [pc : {"idle", "retry", "look", "grab", "save", "put", "stamp", "note"}, cur : Nat, data : C!Item]
Hands == [pc : {"idle", "store", "write", "stamp", "note"}, item : C!Item, seq : Nat]

ClipTypes ==
    /\ clip \in [seq : Nat, item : C!Item]
    /\ files \in Seq(Stored)
    /\ options \in [path : {"chosen", "other"}, fallback : BOOLEAN]
    /\ life \in {"down", "up", "stopping"}
    /\ mon \in Monitors(mon.hashes)
    /\ eye \in Eyes /\ main \in Eyes
    /\ safes \in Held(Words) /\ hand \in [C!Caller -> Hands]

\* What a thread is about to save or to put back is a picture of somebody else's.
Foreign(thread) == thread.pc \in {"retry", "save", "put"} => thread.data \in Images
IsOwn(item) == item[1] = "own"
\* The monitor has seen what is on the clipboard, or is about to write down that it has:
\* it will read the number, or has read it and it is still the clipboard's.
Seen == \/ eye.pc = "stamp"
        \/ eye.pc = "note" /\ eye.cur = clip.seq
        \/ eye.pc \in {"idle", "retry", "look"} /\ mon.last = clip.seq

ClipInv ==
    /\ ClipTypes
    /\ Foreign(eye) /\ Foreign(main)
    /\ \A c \in C!Caller : hand[c].pc \in {"store", "write"} => hand[c].item \in Words
    /\ life = "down" => eye.pc = "idle"
    /\ life # "down" /\ IsOwn(clip.item) => Seen

LEMMA Kinds ==
    /\ \A x \in Images : x \in C!Item /\ x[1] # "own"
    /\ \A x \in C!Item : C!Picture(x) => <<"own", x[2]>> \in C!Item /\ <<"stray", x[2]>> \in Images
    /\ \A x \in Words : x \in C!Item /\ x[1] # "own" /\ <<"safe", x[2]>> \in Words
    /\ \A x \in C!Item : x[1] = "dirty" => x \in Words
    /\ \A x \in C!Item : C!Picture(x) => x \in Images \/ x[1] = "own"
    /\ \A x \in Images : C!Picture(x)
    /\ C!Nothing \in C!Item
<1>1. ASSUME NEW x \in Images PROVE x \in C!Item /\ x[1] # "own" /\ C!Picture(x)
  BY DEF Images, C!Item, C!Picture
<1>2. ASSUME NEW x \in Words PROVE x \in C!Item /\ x[1] # "own" /\ <<"safe", x[2]>> \in Words
  BY DEF Words, C!Item
<1>3. C!Nothing \in C!Item /\ C!Nothing[1] = "none"
  BY DEF C!Nothing, C!Item
<1>4. ASSUME NEW x \in C!Item
      PROVE  /\ x[1] = "dirty" => x \in Words
             /\ C!Picture(x) => x \in Images \/ x[1] = "own"
             /\ C!Picture(x) => <<"own", x[2]>> \in C!Item /\ <<"stray", x[2]>> \in Images
  <2>1. x \in Images \/ x \in {"own"} \X Photo \/ x \in Words \/ x = C!Nothing
    BY DEF C!Item, Images, Words
  <2>2. CASE x \in Images \/ x \in {"own"} \X Photo
    BY <2>2 DEF C!Item, Images
  <2>3. CASE x \in Words \/ x = C!Nothing
    BY <1>3, <2>3 DEF Words, C!Picture
  <2> QED BY <2>1, <2>2, <2>3
<1> QED BY <1>1, <1>2, <1>3, <1>4

LEMMA HeldFirst ==
    ASSUME NEW items, NEW h \in Held(items), h # <<>>
    PROVE  h[1] \in items
  BY DEF Held

LEMMA PreparedKeeps ==
    ASSUME NEW h, NEW m \in Monitors(h)
    PROVE  /\ C!Prepared(m) \in Monitors(h)
           /\ C!Prepared(m).last = m.last /\ C!Prepared(m).pending = m.pending
<1>1. m.path \in C!Folder /\ "spare" \in C!Folder
  BY DEF Monitors, C!Folder
<1>2. CASE m.path \in usable
  BY <1>1, <1>2 DEF C!Prepared, Monitors
<1>3. CASE m.path \notin usable /\ m.fallback /\ C!Spare \in usable
  BY <1>1, <1>3 DEF C!Prepared, Monitors, C!Spare
<1>4. CASE m.path \notin usable /\ ~(m.fallback /\ C!Spare \in usable)
  BY <1>4 DEF C!Prepared, Monitors
<1> QED BY <1>2, <1>3, <1>4

LEMMA TargetIsFolder ==
    ASSUME NEW h, NEW m \in Monitors(h)
    PROVE  C!Target(m) \in C!Folder
  BY DEF Monitors, C!Target, C!Folder

LEMMA ClipInitial == C!Init => ClipInv
<1> SUFFICES ASSUME C!Init PROVE ClipInv
  OBVIOUS
<1> DEFINE m == [path |-> "chosen", fallback |-> FALSE, eff |-> "", ok |-> FALSE, hashes |-> <<>>,
              pending |-> <<>>, last |-> 0, ignore |-> FALSE, timer |-> FALSE]
<1>1. m \in Monitors(m.hashes)
  BY DEF Monitors, Held
<1>2. mon = m
  BY DEF C!Init
<1>3. C!Quiet \in Eyes /\ C!Quiet.pc = "idle"
  BY Kinds DEF C!Quiet, Eyes
<1>4. C!Free \in Hands /\ C!Free.pc = "idle"
  BY Kinds DEF C!Free, Hands
<1> HIDE DEF m
<1>5. /\ clip.item = C!Nothing /\ clip \in [seq : Nat, item : C!Item] /\ files = <<>> /\ life = "down"
      /\ options \in [path : {"chosen", "other"}, fallback : BOOLEAN]
      /\ eye = C!Quiet /\ main = C!Quiet /\ safes = <<>> /\ hand = [c \in C!Caller |-> C!Free]
  BY Kinds DEF C!Init
<1>6. ClipTypes
  BY <1>1, <1>2, <1>3, <1>4, <1>5 DEF ClipTypes, Held
<1> QED BY <1>3, <1>4, <1>5, <1>6 DEF ClipInv, Foreign

LEMMA QuietEye == C!Quiet \in Eyes /\ C!Quiet.pc = "idle"
  BY Kinds DEF C!Quiet, Eyes

LEMMA FreeHand == C!Free \in Hands /\ C!Free.pc = "idle"
  BY Kinds DEF C!Free, Hands

\* The eye moves, the monitor's memory may, the clipboard and the callers stay.
EyeMoved ==
    /\ clip' = clip /\ options' = options /\ life' = life /\ main' = main /\ safes' = safes /\ hand' = hand
    /\ files' \in Seq(Stored) /\ mon' \in Monitors(mon'.hashes)
    /\ eye' \in Eyes /\ Foreign(eye')

LEMMA EyeMove ==
    ASSUME ClipInv, EyeMoved, life # "down",
           IsOwn(clip.item) => \/ eye'.pc = "stamp"
                               \/ eye'.pc = "note" /\ eye'.cur = clip.seq
                               \/ eye'.pc \in {"idle", "retry", "look"} /\ mon'.last = clip.seq
    PROVE  ClipInv'
<1>1. ClipTypes'
  BY DEF ClipInv, ClipTypes, EyeMoved
<1>2. Foreign(eye)' /\ Foreign(main)'
  BY DEF ClipInv, EyeMoved, Foreign
<1>3. (\A c \in C!Caller : hand[c].pc \in {"store", "write"} => hand[c].item \in Words)'
  BY DEF ClipInv, EyeMoved
<1>4. (life = "down" => eye.pc = "idle")' /\ (life # "down" /\ IsOwn(clip.item) => Seen)'
  BY DEF EyeMoved, Seen
<1> QED BY <1>1, <1>2, <1>3, <1>4 DEF ClipInv

LEMMA ClipPoll ==
    ASSUME ClipInv, C!Poll
    PROVE  ClipInv'
<1>1. PICK due \in BOOLEAN :
        LET m == IF mon.pending # <<>> /\ ~mon.ok /\ due THEN C!Prepared(mon) ELSE mon
        IN /\ mon' = m
           /\ eye' = IF m.pending # <<>> /\ m.ok
                     THEN [C!Quiet EXCEPT !.pc = "retry", !.data = m.pending[1]]
                     ELSE [C!Quiet EXCEPT !.pc = "look"]
  BY DEF C!Poll
<1>2. mon \in Monitors(mon.hashes) /\ eye.pc = "idle" /\ life = "up"
  BY DEF ClipInv, ClipTypes, C!Poll
<1>3. mon' \in Monitors(mon.hashes) /\ mon'.last = mon.last /\ mon'.pending = mon.pending
  BY <1>1, <1>2, PreparedKeeps
<1>4. mon' \in Monitors(mon'.hashes)
  BY <1>3 DEF Monitors
<1>5. mon'.pending # <<>> => mon'.pending[1] \in Images /\ mon'.pending[1] \in C!Item
  <2>1. mon'.pending \in Held(Images)
    BY <1>3 DEF Monitors
  <2> QED BY <2>1, HeldFirst, Kinds
<1>6. eye' \in Eyes /\ Foreign(eye') /\ eye'.pc \in {"retry", "look"}
  <2>1. CASE mon'.pending # <<>> /\ mon'.ok
    <3>1. eye' = [C!Quiet EXCEPT !.pc = "retry", !.data = mon'.pending[1]]
      BY <1>1, <2>1
    <3> QED BY <1>5, <2>1, <3>1, QuietEye DEF Eyes, Foreign
  <2>2. CASE ~(mon'.pending # <<>> /\ mon'.ok)
    <3>1. eye' = [C!Quiet EXCEPT !.pc = "look"]
      BY <1>1, <2>2
    <3> QED BY <3>1, QuietEye DEF Eyes, Foreign
  <2> QED BY <2>1, <2>2
<1>7. EyeMoved
  BY <1>4, <1>6 DEF EyeMoved, C!Poll, C!world, ClipInv, ClipTypes
<1> QED BY <1>2, <1>3, <1>6, <1>7, EyeMove DEF ClipInv, Seen

\* A picture written to a folder, by either thread.
LEMMA RetriedKeeps ==
    ASSUME ClipInv, NEW data \in Images, C!Retried(data, mon)
    PROVE  files' \in Seq(Stored) /\ mon' \in Monitors(mon'.hashes) /\ mon'.last = mon.last
<1>1. mon \in Monitors(mon.hashes) /\ files \in Seq(Stored)
  BY DEF ClipInv, ClipTypes
<1>2. CASE C!Target(mon) \in usable
  <2>1. /\ files' = Append(files, [where |-> C!Target(mon), data |-> data])
        /\ mon' = [mon EXCEPT !.ok = TRUE, !.pending = <<>>, !.hashes = C!Add(mon.hashes, data)]
    BY <1>2 DEF C!Retried
  <2>2. [where |-> C!Target(mon), data |-> data] \in Stored
    BY <1>1, TargetIsFolder DEF Stored
  <2>3. mon' \in Monitors(C!Add(mon.hashes, data)) /\ mon'.last = mon.last
    BY <1>1, <2>1 DEF Monitors, Held
  <2>4. files' \in Seq(Stored)
    BY <1>1, <2>1, <2>2
  <2>5. mon'.hashes = C!Add(mon.hashes, data)
    BY <2>3 DEF Monitors
  <2> QED BY <2>3, <2>4, <2>5
<1>3. CASE C!Target(mon) \notin usable
  <2>1. mon' = [mon EXCEPT !.ok = FALSE] /\ files' = files
    BY <1>3 DEF C!Retried
  <2>2. mon' \in Monitors(mon.hashes) /\ mon'.last = mon.last
    BY <1>1, <2>1 DEF Monitors
  <2> QED BY <1>1, <2>1, <2>2 DEF Monitors
<1> QED BY <1>2, <1>3

LEMMA ClipRetry ==
    ASSUME ClipInv, C!Retry
    PROVE  ClipInv'
<1>1. eye.data \in Images /\ C!Retried(eye.data, mon) /\ eye' = [C!Quiet EXCEPT !.pc = "look"]
      /\ eye.pc = "retry"
  BY DEF C!Retry, ClipInv, Foreign
<1>2. eye' \in Eyes /\ eye'.pc = "look"
  BY <1>1, QuietEye DEF Eyes
<1>3. EyeMoved /\ mon'.last = mon.last
  BY <1>1, <1>2, RetriedKeeps DEF EyeMoved, C!Retry, C!world, Foreign
<1> QED BY <1>1, <1>2, <1>3, EyeMove DEF ClipInv, Seen

LEMMA ClipLook ==
    ASSUME ClipInv, C!Look
    PROVE  ClipInv'
<1>1. eye.pc = "look" /\ mon' = mon /\ files' = files /\ clip.seq \in Nat /\ life # "down"
      /\ mon \in Monitors(mon.hashes) /\ files \in Seq(Stored)
  BY DEF C!Look, ClipInv, ClipTypes, C!Alive
<1>2. CASE clip.seq = mon.last
  <2>1. eye' = C!Quiet
    BY <1>2 DEF C!Look
  <2>2. EyeMoved
    BY <1>1, <2>1, QuietEye DEF EyeMoved, C!Look, C!world, Foreign
  <2> QED BY <1>1, <1>2, <2>1, <2>2, EyeMove, QuietEye
<1>3. CASE clip.seq # mon.last
  <2>1. eye' = [C!Quiet EXCEPT !.pc = "grab", !.cur = clip.seq]
    BY <1>3 DEF C!Look
  <2>2. eye' \in Eyes /\ eye'.pc = "grab"
    BY <1>1, <2>1, QuietEye DEF Eyes
  <2>3. EyeMoved
    BY <1>1, <2>2 DEF EyeMoved, C!Look, C!world, Foreign
  <2>4. ~IsOwn(clip.item)
    BY <1>1, <1>3 DEF ClipInv, Seen
  <2> QED BY <1>1, <2>3, <2>4, EyeMove
<1> QED BY <1>2, <1>3

\* While the eye takes a picture or saves it the clipboard does not hold one of its own.
LEMMA ClipGrab ==
    ASSUME ClipInv, C!Grab
    PROVE  ClipInv'
<1>1. eye.pc = "grab" /\ files' = files /\ life # "down" /\ eye \in Eyes /\ clip.item \in C!Item
      /\ mon \in Monitors(mon.hashes) /\ files \in Seq(Stored)
  BY DEF C!Grab, ClipInv, ClipTypes, C!Alive
<1>2. ~IsOwn(clip.item)
  BY <1>1 DEF ClipInv, Seen
<1>3. CASE eye' = [eye EXCEPT !.pc = "save", !.data = clip.item] /\ mon' = mon /\ C!Picture(clip.item)
  <2>1. eye' \in Eyes /\ eye'.data \in Images
    BY <1>1, <1>2, <1>3, Kinds DEF Eyes, IsOwn
  <2>2. EyeMoved
    BY <1>1, <1>3, <2>1 DEF EyeMoved, C!Grab, C!world, Foreign
  <2> QED BY <1>1, <1>2, <2>2, EyeMove
<1>4. CASE eye' = C!Quiet /\ mon' = [mon EXCEPT !.last = eye.cur]
  <2>1. eye.cur \in Nat
    BY <1>1 DEF Eyes
  <2>2. mon' \in Monitors(mon'.hashes)
    BY <1>1, <1>4, <2>1 DEF Monitors
  <2>3. EyeMoved
    BY <1>1, <1>4, <2>2, QuietEye DEF EyeMoved, C!Grab, C!world, Foreign
  <2> QED BY <1>1, <1>2, <2>3, EyeMove
<1> QED BY <1>3, <1>4 DEF C!Grab

LEMMA ClipSave ==
    ASSUME ClipInv, C!Save
    PROVE  ClipInv'
<1>1. eye.pc = "save" /\ life # "down" /\ eye \in Eyes /\ eye.data \in Images
      /\ mon \in Monitors(mon.hashes) /\ files \in Seq(Stored)
  BY DEF C!Save, ClipInv, ClipTypes, C!Alive, Foreign
<1>2. ~IsOwn(clip.item)
  BY <1>1 DEF ClipInv, Seen
<1>3. CASE /\ files' = Append(files, [where |-> C!Target(mon), data |-> eye.data])
           /\ mon' = [mon EXCEPT !.ok = TRUE, !.hashes = C!Add(mon.hashes, eye.data)]
           /\ eye' = [eye EXCEPT !.pc = "put"]
  <2>1. [where |-> C!Target(mon), data |-> eye.data] \in Stored
    BY <1>1, TargetIsFolder DEF Stored
  <2>2. files' \in Seq(Stored)
    BY <1>1, <1>3, <2>1
  <2>3. mon' \in Monitors(mon'.hashes)
    BY <1>1, <1>3 DEF Monitors
  <2>4. eye' \in Eyes /\ eye'.data = eye.data
    BY <1>1, <1>3 DEF Eyes
  <2>5. EyeMoved
    BY <1>1, <2>2, <2>3, <2>4 DEF EyeMoved, C!Save, C!world, Foreign
  <2> QED BY <1>1, <1>2, <2>5, EyeMove
<1>4. CASE /\ mon' = [mon EXCEPT !.ok = FALSE, !.last = eye.cur, !.pending = <<eye.data>>]
           /\ eye' = C!Quiet /\ files' = files
  <2>1. mon' \in Monitors(mon'.hashes)
    BY <1>1, <1>4 DEF Monitors, Held, Eyes
  <2>2. EyeMoved
    BY <1>1, <1>4, <2>1, QuietEye DEF EyeMoved, C!Save, C!world, Foreign
  <2> QED BY <1>1, <1>2, <2>2, EyeMove
<1> QED BY <1>3, <1>4 DEF C!Save

\* set_image_to_clipboard: its own picture comes with the promise to write down its number.
LEMMA ClipPut ==
    ASSUME ClipInv, C!Put
    PROVE  ClipInv'
<1>1. /\ eye.pc = "put" /\ life # "down" /\ eye \in Eyes /\ eye.data \in Images
      /\ mon \in Monitors(mon.hashes) /\ clip \in [seq : Nat, item : C!Item]
      /\ UNCHANGED <<files, options, life, main, safes, hand>>
      /\ \/ eye' = C!Quiet /\ clip' = clip /\ mon' = mon
         \/ eye' = C!Quiet /\ clip' = clip /\ mon' = [mon EXCEPT !.ignore = TRUE, !.timer = TRUE]
         \/ /\ clip' = [seq |-> clip.seq + 1, item |-> <<"stray", eye.data[2]>>]
            /\ eye' = C!Quiet /\ mon' = [mon EXCEPT !.ignore = TRUE, !.timer = TRUE]
         \/ /\ clip' = [seq |-> clip.seq + 1, item |-> <<"own", eye.data[2]>>]
            /\ mon' = [mon EXCEPT !.ignore = TRUE] /\ eye' = [eye EXCEPT !.pc = "stamp"]
  BY DEF C!Put, C!world, ClipInv, ClipTypes, C!Alive, Foreign
<1>2. ~IsOwn(clip.item)
  BY <1>1 DEF ClipInv, Seen
<1>3. mon' \in Monitors(mon'.hashes)
  <2>1. CASE mon' = mon
    BY <1>1, <2>1
  <2>2. CASE mon' = [mon EXCEPT !.ignore = TRUE, !.timer = TRUE] \/ mon' = [mon EXCEPT !.ignore = TRUE]
    BY <1>1, <2>2 DEF Monitors
  <2> QED BY <1>1, <2>1, <2>2
<1>4. CASE clip' = clip /\ eye' = C!Quiet
  <2>1. EyeMoved
    BY <1>1, <1>3, <1>4, QuietEye DEF EyeMoved, Foreign, ClipInv, ClipTypes
  <2> QED BY <1>1, <1>2, <2>1, EyeMove
<1>5. CASE clip' = [seq |-> clip.seq + 1, item |-> <<"own", eye.data[2]>>] /\ eye' = [eye EXCEPT !.pc = "stamp"]
  <2>1. clip' \in [seq : Nat, item : C!Item]
    BY <1>1, <1>5, Kinds
  <2>2. eye' \in Eyes /\ eye'.pc = "stamp"
    BY <1>1, <1>5 DEF Eyes
  <2>3. ClipTypes'
    BY <1>1, <1>3, <2>1, <2>2 DEF ClipInv, ClipTypes
  <2> QED BY <1>1, <2>2, <2>3 DEF ClipInv, Foreign, Seen
<1>6. CASE clip' = [seq |-> clip.seq + 1, item |-> <<"stray", eye.data[2]>>] /\ eye' = C!Quiet
  <2>1. clip' \in [seq : Nat, item : C!Item] /\ ~IsOwn(clip'.item)
    BY <1>1, <1>6, Kinds DEF IsOwn
  <2>2. ClipTypes'
    BY <1>1, <1>3, <1>6, <2>1, QuietEye DEF ClipInv, ClipTypes
  <2> QED BY <1>1, <1>6, <2>1, <2>2, QuietEye DEF ClipInv, Foreign
<1> QED BY <1>1, <1>4, <1>5, <1>6

LEMMA ClipStamp ==
    ASSUME ClipInv, C!Stamp
    PROVE  ClipInv'
<1>1. /\ life # "down" /\ mon' = mon /\ eye' = [eye EXCEPT !.pc = "note", !.cur = clip.seq]
      /\ mon \in Monitors(mon.hashes) /\ clip.seq \in Nat /\ eye \in Eyes
  BY DEF C!Stamp, ClipInv, ClipTypes, C!Alive
<1>2. eye' \in Eyes /\ eye'.pc = "note" /\ eye'.cur = clip.seq
  BY <1>1 DEF Eyes
<1>3. EyeMoved
  BY <1>1, <1>2 DEF EyeMoved, C!Stamp, C!world, Foreign, ClipInv, ClipTypes
<1> QED BY <1>1, <1>2, <1>3, EyeMove

\* A picture of its own that is still on the clipboard has the number that was read.
LEMMA ClipRemember ==
    ASSUME ClipInv, C!Remember
    PROVE  ClipInv'
<1>1. /\ life # "down" /\ mon' = [mon EXCEPT !.last = eye.cur, !.timer = TRUE] /\ eye' = C!Quiet
      /\ eye.pc = "note" /\ mon \in Monitors(mon.hashes) /\ eye \in Eyes
  BY DEF C!Remember, ClipInv, ClipTypes, C!Alive
<1>2. mon' \in Monitors(mon'.hashes) /\ mon'.last = eye.cur
  BY <1>1 DEF Monitors, Eyes
<1>3. EyeMoved
  BY <1>1, <1>2, QuietEye DEF EyeMoved, C!Remember, C!world, Foreign, ClipInv, ClipTypes
<1>4. IsOwn(clip.item) => eye.cur = clip.seq
  BY <1>1 DEF ClipInv, Seen
<1> QED BY <1>1, <1>2, <1>3, <1>4, QuietEye, EyeMove

\* Steps of the other threads: the eye stays; the number seen stays, or is the clipboard's, or
\* is about to be written again.
LEMMA OtherMove ==
    ASSUME ClipInv, eye' = eye, ClipTypes', Foreign(main'),
           \A c \in C!Caller : hand'[c].pc \in {"store", "write"} => hand'[c].item \in Words,
           life' = life \/ (life = "up" /\ life' = "stopping") \/ (life = "down" /\ mon'.last = clip'.seq),
           \/ clip' = clip /\ (mon'.last = mon.last \/ mon'.last = clip.seq \/ eye.pc \in {"stamp", "note"})
           \/ ~IsOwn(clip'.item)
    PROVE  ClipInv'
<1>1. Foreign(eye)' /\ (life = "down" => eye.pc = "idle")'
  BY DEF ClipInv, Foreign
<1>2. (life # "down" /\ IsOwn(clip.item) => Seen)'
  <2>1. CASE ~IsOwn(clip'.item)
    BY <2>1
  <2>2. CASE IsOwn(clip'.item)
    <3>1. clip' = clip /\ (mon'.last = mon.last \/ mon'.last = clip.seq \/ eye.pc \in {"stamp", "note"})
      BY <2>2
    <3>2. CASE life = "down"
      BY <3>1, <3>2 DEF ClipInv, Seen
    <3>3. CASE life # "down"
      BY <2>2, <3>1, <3>3 DEF ClipInv, Seen
    <3> QED BY <3>2, <3>3
  <2> QED BY <2>1, <2>2
<1> QED BY <1>1, <1>2 DEF ClipInv

LEMMA ClipResetFlag ==
    ASSUME ClipInv, C!ResetFlag
    PROVE  ClipInv'
<1>1. /\ mon' = [mon EXCEPT !.timer = FALSE, !.ignore = FALSE] /\ mon \in Monitors(mon.hashes)
      /\ life # "down" /\ UNCHANGED <<clip, files, options, life, eye, main, safes, hand>>
  BY DEF C!ResetFlag, C!world, C!Alive, ClipInv, ClipTypes
<1>2. mon' \in Monitors(mon'.hashes) /\ mon'.last = mon.last
  BY <1>1 DEF Monitors
<1>3. ClipTypes'
  BY <1>1, <1>2 DEF ClipInv, ClipTypes
<1> QED BY <1>1, <1>2, <1>3, OtherMove DEF ClipInv

\* Safe Copy and Restore put words on the clipboard, and no pictures.
LEMMA ClipReadText ==
    ASSUME ClipInv, NEW c \in C!Caller, C!ReadText(c)
    PROVE  ClipInv'
<1>1. /\ clip.item[1] = "dirty" /\ clip.item \in C!Item
      /\ hand' = [hand EXCEPT ![c] = [C!Free EXCEPT !.pc = "store", !.item = clip.item]]
      /\ UNCHANGED <<clip, files, options, life, mon, eye, main, safes>>
  BY DEF C!ReadText, C!world, ClipInv, ClipTypes
<1> DEFINE k == [C!Free EXCEPT !.pc = "store", !.item = clip.item]
<1>2. k \in Hands /\ k.item \in Words
  BY <1>1, Kinds, FreeHand DEF Hands
<1>3. hand' = [hand EXCEPT ![c] = k]
  BY <1>1
<1> HIDE DEF k
<1>4. /\ hand' \in [C!Caller -> Hands]
      /\ \A d \in C!Caller : hand'[d].pc \in {"store", "write"} => hand'[d].item \in Words
  BY <1>2, <1>3 DEF ClipInv, ClipTypes
<1>5. ClipTypes'
  BY <1>1, <1>4 DEF ClipInv, ClipTypes
<1> QED BY <1>1, <1>4, <1>5, OtherMove DEF ClipInv

LEMMA ClipStore ==
    ASSUME ClipInv, NEW c \in C!Caller, C!Store(c)
    PROVE  ClipInv'
<1>1. /\ hand[c].pc = "store" /\ hand[c].item \in Words /\ mon \in Monitors(mon.hashes)
      /\ hand' = [hand EXCEPT ![c].pc = "write", ![c].item = <<"safe", hand[c].item[2]>>]
      /\ hand \in [C!Caller -> Hands]
      /\ \/ safes' = safes /\ mon' = mon
         \/ safes' = <<hand[c].item>> /\ mon' = [mon EXCEPT !.ignore = TRUE]
      /\ UNCHANGED <<clip, files, options, life, eye, main>>
  BY DEF C!Store, C!world, ClipInv, ClipTypes
<1> DEFINE k == [hand[c] EXCEPT !.pc = "write", !.item = <<"safe", hand[c].item[2]>>]
<1>2. k \in Hands /\ k.item \in Words
  BY <1>1, Kinds DEF Hands
<1>3. hand' = [hand EXCEPT ![c] = k]
  BY <1>1
<1> HIDE DEF k
<1>4. /\ hand' \in [C!Caller -> Hands]
      /\ \A d \in C!Caller : hand'[d].pc \in {"store", "write"} => hand'[d].item \in Words
  BY <1>2, <1>3 DEF ClipInv, ClipTypes
<1>5. mon' \in Monitors(mon'.hashes) /\ mon'.last = mon.last
  <2>1. CASE mon' = mon
    BY <1>1, <2>1
  <2>2. CASE mon' = [mon EXCEPT !.ignore = TRUE]
    BY <1>1, <2>2 DEF Monitors
  <2> QED BY <1>1, <2>1, <2>2
<1>6. safes' \in Held(Words)
  BY <1>1 DEF Held, ClipInv, ClipTypes
<1>7. ClipTypes'
  BY <1>1, <1>4, <1>5, <1>6 DEF ClipInv, ClipTypes
<1> QED BY <1>1, <1>4, <1>5, <1>7, OtherMove DEF ClipInv

LEMMA ClipRetrieve ==
    ASSUME ClipInv, C!Retrieve
    PROVE  ClipInv'
<1>1. /\ safes # <<>> /\ safes' = <<>> /\ mon \in Monitors(mon.hashes) /\ safes \in Held(Words)
      /\ \/ mon' = mon /\ hand' = hand
         \/ /\ mon' = [mon EXCEPT !.ignore = TRUE]
            /\ hand' = [hand EXCEPT !["control"] = [C!Free EXCEPT !.pc = "write", !.item = safes[1]]]
      /\ UNCHANGED <<clip, files, options, life, eye, main>>
  BY DEF C!Retrieve, C!world, ClipInv, ClipTypes
<1> DEFINE k == [C!Free EXCEPT !.pc = "write", !.item = safes[1]]
<1>2. k \in Hands /\ k.item \in Words
  BY <1>1, HeldFirst, Kinds, FreeHand DEF Hands
<1>3. hand' = hand \/ hand' = [hand EXCEPT !["control"] = k]
  BY <1>1
<1> HIDE DEF k
<1>4. /\ hand' \in [C!Caller -> Hands]
      /\ \A d \in C!Caller : hand'[d].pc \in {"store", "write"} => hand'[d].item \in Words
  BY <1>2, <1>3 DEF ClipInv, ClipTypes
<1>5. mon' \in Monitors(mon'.hashes) /\ mon'.last = mon.last
  <2>1. CASE mon' = mon
    BY <1>1, <2>1
  <2>2. CASE mon' = [mon EXCEPT !.ignore = TRUE]
    BY <1>1, <2>2 DEF Monitors
  <2> QED BY <1>1, <2>1, <2>2
<1>6. ClipTypes'
  BY <1>1, <1>4, <1>5 DEF ClipInv, ClipTypes, Held
<1> QED BY <1>1, <1>4, <1>5, <1>6, OtherMove DEF ClipInv

LEMMA ClipWriteText ==
    ASSUME ClipInv, NEW c \in C!Caller, C!WriteText(c)
    PROVE  ClipInv'
<1>1. /\ hand[c].pc = "write" /\ hand[c].item \in Words /\ hand \in [C!Caller -> Hands]
      /\ clip' = clip \/ clip' = [seq |-> clip.seq + 1, item |-> hand[c].item]
      /\ hand' = [hand EXCEPT ![c] = IF c = "once" THEN C!Free ELSE [hand[c] EXCEPT !.pc = "stamp"]]
      /\ clip \in [seq : Nat, item : C!Item]
      /\ UNCHANGED <<files, options, life, mon, eye, main, safes>>
  BY DEF C!WriteText, C!world, ClipInv, ClipTypes
<1> DEFINE k == IF c = "once" THEN C!Free ELSE [hand[c] EXCEPT !.pc = "stamp"]
<1>2. k \in Hands /\ k.pc \in {"idle", "stamp"}
  <2>1. CASE c = "once"
    BY <2>1, Kinds DEF C!Free, Hands
  <2>2. CASE c # "once"
    BY <1>1, <2>2 DEF Hands
  <2> QED BY <2>1, <2>2
<1>3. hand' = [hand EXCEPT ![c] = k]
  BY <1>1
<1> HIDE DEF k
<1>4. /\ hand' \in [C!Caller -> Hands]
      /\ \A d \in C!Caller : hand'[d].pc \in {"store", "write"} => hand'[d].item \in Words
  BY <1>2, <1>3 DEF ClipInv, ClipTypes
<1>5. clip' \in [seq : Nat, item : C!Item] /\ (clip' = clip \/ ~IsOwn(clip'.item))
  <2>1. hand[c].item \in C!Item /\ ~IsOwn(hand[c].item)
    BY <1>1, Kinds DEF IsOwn
  <2>2. CASE clip' = clip
    BY <1>1, <2>2
  <2>3. CASE clip' = [seq |-> clip.seq + 1, item |-> hand[c].item]
    BY <1>1, <2>1, <2>3
  <2> QED BY <1>1, <2>2, <2>3
<1>6. ClipTypes'
  BY <1>1, <1>4, <1>5 DEF ClipInv, ClipTypes
<1> QED BY <1>1, <1>4, <1>5, <1>6, OtherMove DEF ClipInv

LEMMA ClipStampText ==
    ASSUME ClipInv, NEW c \in C!Caller, C!StampText(c)
    PROVE  ClipInv'
<1>1. /\ hand' = [hand EXCEPT ![c].pc = "note", ![c].seq = clip.seq]
      /\ hand \in [C!Caller -> Hands] /\ clip.seq \in Nat
      /\ UNCHANGED <<clip, files, options, life, mon, eye, main, safes>>
  BY DEF C!StampText, C!world, ClipInv, ClipTypes
<1> DEFINE k == [hand[c] EXCEPT !.pc = "note", !.seq = clip.seq]
<1>2. k \in Hands /\ k.pc = "note"
  BY <1>1 DEF Hands
<1>3. hand' = [hand EXCEPT ![c] = k]
  BY <1>1
<1> HIDE DEF k
<1>4. /\ hand' \in [C!Caller -> Hands]
      /\ \A d \in C!Caller : hand'[d].pc \in {"store", "write"} => hand'[d].item \in Words
  BY <1>2, <1>3 DEF ClipInv, ClipTypes
<1>5. ClipTypes'
  BY <1>1, <1>4 DEF ClipInv, ClipTypes
<1> QED BY <1>1, <1>4, <1>5, OtherMove DEF ClipInv

\* A number that is stored late leaves no picture that is known for its own.
LEMMA ClipRememberText ==
    ASSUME ClipInv, NEW c \in C!Caller, C!RememberText(c)
    PROVE  ClipInv'
<1>1. /\ hand' = [hand EXCEPT ![c] = C!Free] /\ mon' = [mon EXCEPT !.last = hand[c].seq]
      /\ clip' = IF C!Overtaken(hand[c].seq) THEN [clip EXCEPT !.item = <<"stray", clip.item[2]>>]
                 ELSE clip
      /\ mon \in Monitors(mon.hashes) /\ hand \in [C!Caller -> Hands]
      /\ clip \in [seq : Nat, item : C!Item]
      /\ UNCHANGED <<files, options, life, eye, main, safes>>
  BY DEF C!RememberText, C!world, ClipInv, ClipTypes
<1>2. /\ hand' \in [C!Caller -> Hands]
      /\ \A d \in C!Caller : hand'[d].pc \in {"store", "write"} => hand'[d].item \in Words
  BY <1>1, FreeHand DEF ClipInv, ClipTypes
<1>3. mon' \in Monitors(mon'.hashes) /\ mon'.last = hand[c].seq
  <2>1. hand[c].seq \in Nat
    BY <1>1 DEF Hands
  <2> QED BY <1>1, <2>1 DEF Monitors
<1>4. CASE C!Overtaken(hand[c].seq)
  <2>1. C!Picture(clip.item)
    BY <1>4 DEF C!Overtaken, C!Picture
  <2>2. clip' \in [seq : Nat, item : C!Item] /\ ~IsOwn(clip'.item)
    BY <1>1, <1>4, <2>1, Kinds DEF IsOwn
  <2>3. ClipTypes'
    BY <1>1, <1>2, <1>3, <2>2 DEF ClipInv, ClipTypes
  <2> QED BY <1>1, <1>2, <2>2, <2>3, OtherMove DEF ClipInv
<1>5. CASE ~C!Overtaken(hand[c].seq)
  <2>1. clip' = clip
    BY <1>1, <1>5
  <2>2. ClipTypes'
    BY <1>1, <1>2, <1>3, <2>1 DEF ClipInv, ClipTypes
  <2>3. ~IsOwn(clip.item) \/ mon'.last = clip.seq \/ eye.pc \in {"stamp", "note"}
    BY <1>3, <1>5 DEF C!Overtaken, IsOwn
  <2> QED BY <1>1, <1>2, <2>1, <2>2, <2>3, OtherMove DEF ClipInv
<1> QED BY <1>4, <1>5

\* A resident begins with what is on the clipboard behind it.
LEMMA ClipStart ==
    ASSUME ClipInv, C!Start
    PROVE  ClipInv'
<1>1. /\ life = "down" /\ life' = "up" /\ mon' = C!NewMonitor(options)
      /\ options \in [path : {"chosen", "other"}, fallback : BOOLEAN] /\ clip.seq \in Nat
      /\ UNCHANGED <<clip, files, options, eye, main, safes, hand>>
  BY DEF C!Start, ClipInv, ClipTypes
<1> DEFINE blank == [path |-> options.path, fallback |-> options.fallback, eff |-> "", ok |-> FALSE,
                     hashes |-> <<>>, pending |-> <<>>, last |-> clip.seq,
                     ignore |-> FALSE, timer |-> FALSE]
           m == C!Prepared(blank)
<1>2. blank \in Monitors(<<>>) /\ blank.last = clip.seq
  BY <1>1 DEF Monitors, Held
<1>3. mon' = IF m.eff = "" THEN m ELSE [m EXCEPT !.hashes = C!Known(m.eff)]
  BY <1>1 DEF C!NewMonitor
<1> HIDE DEF blank
<1>4. m \in Monitors(<<>>) /\ m.last = clip.seq
  BY <1>2, PreparedKeeps
<1> HIDE DEF m
<1>5. mon' \in Monitors(mon'.hashes) /\ mon'.last = clip.seq
  <2>1. CASE m.eff = ""
    <3>1. mon' = m
      BY <1>3, <2>1
    <3> QED BY <1>4, <3>1 DEF Monitors
  <2>2. CASE m.eff # ""
    <3>1. mon' = [m EXCEPT !.hashes = C!Known(m.eff)]
      BY <1>3, <2>2
    <3>2. mon' \in Monitors(C!Known(m.eff)) /\ mon'.last = clip.seq
      BY <1>4, <3>1 DEF Monitors
    <3> QED BY <3>2 DEF Monitors
  <2> QED BY <2>1, <2>2
<1>6. ClipTypes'
  BY <1>1, <1>5 DEF ClipInv, ClipTypes
<1> QED BY <1>1, <1>5, <1>6, OtherMove DEF ClipInv

LEMMA ClipReload ==
    ASSUME ClipInv, C!Reload
    PROVE  ClipInv'
<1> DEFINE m == [mon EXCEPT !.fallback = options.fallback]
           p == [m EXCEPT !.path = options.path]
           n == IF options.path = m.path THEN m ELSE C!Prepared(p)
<1>1. /\ mon' = n /\ mon \in Monitors(mon.hashes)
      /\ \/ main' = main
         \/ main' = [C!Quiet EXCEPT !.pc = "retry", !.data = n.pending[1]] /\ n.pending # <<>>
      /\ options \in [path : {"chosen", "other"}, fallback : BOOLEAN]
      /\ UNCHANGED <<clip, files, options, life, eye, safes, hand>>
  BY DEF C!Reload, ClipInv, ClipTypes
<1>2. m \in Monitors(mon.hashes) /\ m.last = mon.last
  BY <1>1 DEF Monitors
<1> HIDE DEF m
<1>3. p \in Monitors(mon.hashes) /\ p.last = mon.last
  BY <1>1, <1>2 DEF Monitors
<1> HIDE DEF p
<1>4. n \in Monitors(mon.hashes) /\ n.last = mon.last
  BY <1>2, <1>3, PreparedKeeps
<1> HIDE DEF n
<1>5. mon' \in Monitors(mon'.hashes) /\ mon'.last = mon.last
  BY <1>1, <1>4 DEF Monitors
<1>6. main' \in Eyes /\ Foreign(main')
  <2>1. CASE main' = main
    BY <2>1 DEF ClipInv, ClipTypes
  <2>2. CASE main' = [C!Quiet EXCEPT !.pc = "retry", !.data = n.pending[1]] /\ n.pending # <<>>
    <3>1. n.pending \in Held(Images)
      BY <1>4 DEF Monitors
    <3>2. n.pending[1] \in Images /\ n.pending[1] \in C!Item
      BY <2>2, <3>1, HeldFirst, Kinds
    <3> QED BY <2>2, <3>2, QuietEye DEF Eyes, Foreign
  <2> QED BY <1>1, <2>1, <2>2
<1>7. ClipTypes'
  BY <1>1, <1>5, <1>6 DEF ClipInv, ClipTypes
<1> QED BY <1>1, <1>5, <1>6, <1>7, OtherMove DEF ClipInv

LEMMA ClipMainRetry ==
    ASSUME ClipInv, C!MainRetry
    PROVE  ClipInv'
<1>1. /\ main.data \in Images /\ C!Retried(main.data, mon) /\ main' = C!Quiet
      /\ UNCHANGED <<clip, options, life, eye, safes, hand>>
  BY DEF C!MainRetry, C!world, ClipInv, Foreign
<1>2. files' \in Seq(Stored) /\ mon' \in Monitors(mon'.hashes) /\ mon'.last = mon.last
  BY <1>1, RetriedKeeps
<1>3. ClipTypes' /\ Foreign(main')
  BY <1>1, <1>2, QuietEye DEF ClipInv, ClipTypes, Foreign
<1> QED BY <1>1, <1>2, <1>3, OtherMove DEF ClipInv

LEMMA ClipEnd ==
    ASSUME ClipInv, C!End
    PROVE  ClipInv'
<1>1. /\ life' = "down" /\ eye' = C!Quiet /\ main' = C!Quiet /\ safes' = <<>>
      /\ hand' = [c \in C!Caller |-> IF c = "once" THEN hand[c] ELSE C!Free]
      /\ mon' = [mon EXCEPT !.pending = <<>>, !.hashes = <<>>, !.ignore = FALSE, !.timer = FALSE,
                            !.eff = "", !.ok = FALSE]
      /\ UNCHANGED <<clip, files, options>>
  BY DEF C!End
<1>2. mon' \in Monitors(mon'.hashes)
  <2>1. mon \in Monitors(mon.hashes)
    BY DEF ClipInv, ClipTypes
  <2>2. mon' \in Monitors(<<>>)
    BY <1>1, <2>1 DEF Monitors, Held
  <2> QED BY <2>2 DEF Monitors
<1>3. C!Free \in Hands /\ C!Free.pc = "idle"
  BY Kinds DEF C!Free, Hands
<1>4. /\ hand' \in [C!Caller -> Hands]
      /\ \A d \in C!Caller : hand'[d].pc \in {"store", "write"} => hand'[d].item \in Words
  BY <1>1, <1>3 DEF ClipInv, ClipTypes
<1>5. ClipTypes'
  BY <1>1, <1>2, <1>4, QuietEye DEF ClipInv, ClipTypes, Held
<1> QED BY <1>1, <1>4, <1>5, QuietEye DEF ClipInv, Foreign

LEMMA ClipWorld ==
    ASSUME ClipInv,
           \/ C!SignalStop \/ C!Notice \/ UNCHANGED clipVars
           \/ (\E d \in C!Folder : C!FolderTurns(d))
           \/ \E path \in {"chosen", "other"}, fallback \in BOOLEAN : C!SaveOptions(path, fallback)
    PROVE  ClipInv'
<1>1. /\ UNCHANGED <<clip, files, mon, eye, main, safes, hand>>
      /\ life' = life \/ (life = "up" /\ life' = "stopping")
      /\ options' = options \/ options' \in [path : {"chosen", "other"}, fallback : BOOLEAN]
  BY DEF C!SignalStop, C!Notice, C!FolderTurns, C!SaveOptions, clipVars
<1>2. ClipTypes'
  BY <1>1 DEF ClipInv, ClipTypes
<1> QED BY <1>1, <1>2, OtherMove DEF ClipInv

LEMMA ClipCopy ==
    ASSUME ClipInv, NEW item \in ({"image"} \X Photo) \cup ({"dirty"} \X Note), C!Copy(item)
    PROVE  ClipInv'
<1>1. /\ clip' = [seq |-> clip.seq + 1, item |-> item] /\ clip \in [seq : Nat, item : C!Item]
      /\ UNCHANGED <<files, options, life, mon, eye, main, safes, hand>>
  BY DEF C!Copy, C!world, ClipInv, ClipTypes
<1>2. item \in C!Item /\ ~IsOwn(item)
  BY DEF C!Item, IsOwn
<1>3. ClipTypes'
  BY <1>1, <1>2 DEF ClipInv, ClipTypes
<1> QED BY <1>1, <1>2, <1>3, OtherMove DEF ClipInv

LEMMA ClipStep ==
    ASSUME ClipInv, C!Next \/ UNCHANGED clipVars
    PROVE  ClipInv'
<1>1. CASE \/ C!Poll \/ C!Retry \/ C!Look \/ C!Grab \/ C!Save \/ C!Put \/ C!Stamp \/ C!Remember
           \/ C!ResetFlag
  BY <1>1, ClipPoll, ClipRetry, ClipLook, ClipGrab, ClipSave, ClipPut, ClipStamp, ClipRemember,
     ClipResetFlag
<1>2. ASSUME NEW c \in C!Caller, \/ C!ReadText(c) \/ C!Store(c) \/ C!WriteText(c) \/ C!StampText(c)
                                 \/ C!RememberText(c)
      PROVE  ClipInv'
  BY <1>2, ClipReadText, ClipStore, ClipWriteText, ClipStampText, ClipRememberText
<1>3. CASE C!Retrieve \/ C!Start \/ C!Reload \/ C!MainRetry \/ C!End
  BY <1>3, ClipRetrieve, ClipStart, ClipReload, ClipMainRetry, ClipEnd
<1> QED BY <1>1, <1>2, <1>3, ClipWorld, ClipCopy DEF C!Next

-----------------------------------------------------------------------------
(* LogRelay *)

\* A nonempty bounded set of numbers has a greatest.
LEMMA Greatest ==
    ASSUME NEW n \in Nat, NEW I, I \subseteq 1..n, I # {}
    PROVE  \E m \in I : \A i \in I : m >= i
<1> DEFINE R0 == OpToRel(<, Nat)
           T == {n - i : i \in I}
<1>1. IsWellFoundedOn(R0, Nat)
  BY NatLessThanWellFounded
<1>2. T \subseteq Nat /\ T # {}
  <2>1. \A i \in I : n - i \in Nat
    OBVIOUS
  <2> QED BY <2>1
<1>3. PICK x \in T : \A y \in T : <<y, x>> \notin R0
  <2> HIDE DEF R0, T
  <2> QED BY <1>1, <1>2, WFMin
<1>4. \A y \in T : ~(y < x)
  <2>1. \A y \in Nat, z \in Nat : y < z => <<y, z>> \in R0
    BY DEF OpToRel
  <2> HIDE DEF R0, T
  <2> QED BY <1>2, <1>3, <2>1
<1>5. PICK m \in I : x = n - m
  BY <1>3
<1>6. \A i \in I : m >= i
  <2> SUFFICES ASSUME NEW i \in I PROVE m >= i
    OBVIOUS
  <2>1. ~(n - i < n - m)
    BY <1>4, <1>5
  <2>2. i \in Nat /\ m \in Nat
    OBVIOUS
  <2> QED BY <2>1, <2>2
<1> QED BY <1>6

\* _split_lines: whole lines first, the rest behind them.
LEMMA LinesAndRest ==
    ASSUME NEW S, NEW s \in Seq(S)
    PROVE  \E k \in 0..Len(s) : R!Lines(s) = SubSeq(s, 1, k) /\ R!Rest(s) = SubSeq(s, k + 1, Len(s))
<1> DEFINE I == {i \in 1..Len(s) : s[i] \in ends}
           k == IF I # {} THEN R!Max(I) ELSE 0
<1>1. R!Lines(s) = SubSeq(s, 1, k) /\ R!Rest(s) = SubSeq(s, k + 1, Len(s))
  BY DEF R!Lines, R!Rest, R!SelectLastInSeq
<1>2. k \in 0..Len(s)
  <2>1. CASE I = {}
    BY <2>1
  <2>2. CASE I # {}
    <3>1. \E m \in I : \A i \in I : m >= i
      <4>1. Len(s) \in Nat /\ I \subseteq 1..Len(s)
        OBVIOUS
      <4> HIDE DEF I
      <4> QED BY <2>2, <4>1, Greatest
    <3>2. R!Max(I) \in I
      BY <3>1 DEF R!Max
    <3> QED BY <2>2, <3>2
  <2> QED BY <2>1, <2>2
<1> QED BY <1>1, <1>2


Entries == {R!Gap, R!Begin, R!Seam} \cup R!Unit
\* Units side by side in s were written side by side; units alone, all of them.
Honest(h) == \A i \in 1..(Len(h) - 1) : h[i] \in R!Unit /\ h[i + 1] \in R!Unit => h[i + 1] = h[i] + 1
Running(s) == \A i \in 1..(Len(s) - 1) : s[i + 1] = s[i] + 1
EndsInUnit(h) == h # <<>> /\ h[Len(h)] \in R!Unit
EndOf(s) == s[Len(s)]

States == [id : Nat, offset : Nat, pending : Seq(R!Unit), quiet : BOOLEAN, missing : BOOLEAN,
           unsafe : BOOLEAN, lost : BOOLEAN, epoch : Nat]
\* What a poll works on, but for the generations.
Polling(gens) == [st : States, hist : Seq(Entries), gens : {gens}, ok : BOOLEAN, blind : BOOLEAN]

\* The pending part and the offset are of one reading of the source.
Follows(st) ==
    /\ Running(st.pending)
    /\ st.offset = 0 => st.pending = <<>>
    /\ st.epoch <= src.epoch
    /\ st.epoch = src.epoch /\ st.offset > 0 =>
         /\ st.offset <= Len(src.data)
         /\ st.pending # <<>> => EndOf(st.pending) = src.data[st.offset]
\* What is published next goes on where the published ends, if no marker ends it.
Joins(h, st) ==
    EndsInUnit(h) =>
      /\ st.offset > 0
      /\ st.pending # <<>> => st.pending[1] = EndOf(h) + 1
      /\ st.epoch = src.epoch /\ st.pending = <<>> => EndOf(h) = src.data[st.offset]

SourceFits ==
    /\ src.data \in Seq(R!Unit) /\ Running(src.data) /\ src.epoch \in Nat /\ src.id \in Nat
    /\ units \in Nat /\ (src.data # <<>> => EndOf(src.data) = units)

\* A poll's record fits: it is honest so far, and can go on being so.
Typed(r) == r \in Polling(r.gens)
Loose(r) == Typed(r) /\ (~r.blind => Honest(r.hist) /\ Follows(r.st))
Fits(r) == Loose(r) /\ (~r.blind => Joins(r.hist, r.st))

LEMMA NoUnits == R!Begin \notin R!Unit /\ R!Seam \notin R!Unit /\ R!Begin \in Entries /\ R!Seam \in Entries
  BY ToolConstants DEF R!Begin, R!Seam, R!Unit, Entries

LEMMA GapIsNoUnit == R!Gap \notin R!Unit /\ R!Gap \in Entries
  BY DEF R!Gap, R!Unit, Entries

\* A marker, whatever it is, may stand anywhere.
LEMMA MarkedHonest ==
    ASSUME NEW h \in Seq(Entries), NEW e \in Entries, e \notin R!Unit
    PROVE  /\ Append(h, e) \in Seq(Entries) /\ ~EndsInUnit(Append(h, e))
           /\ Honest(h) => Honest(Append(h, e))
<1> DEFINE g == Append(h, e)
<1>1. /\ g \in Seq(Entries) /\ Len(g) = Len(h) + 1 /\ g[Len(h) + 1] = e /\ Len(h) \in Nat
      /\ \A i \in 1..Len(h) : g[i] = h[i]
  OBVIOUS
<1> HIDE DEF g
<1>2. ASSUME Honest(h), NEW i \in 1..(Len(g) - 1), g[i] \in R!Unit, g[i + 1] \in R!Unit
      PROVE  g[i + 1] = g[i] + 1
  <2>1. i # Len(h)
    BY <1>1, <1>2
  <2>2. i \in 1..(Len(h) - 1) /\ i + 1 \in 1..Len(h)
    BY <1>1, <2>1
  <2> QED BY <1>1, <1>2, <2>2 DEF Honest
<1> QED BY <1>1, <1>2 DEF Honest, EndsInUnit, g

\* Units that run on from the end of what is published.
LEMMA SaidHonest ==
    ASSUME NEW h \in Seq(Entries), NEW s \in Seq(R!Unit), Honest(h), Running(s),
           EndsInUnit(h) /\ s # <<>> => s[1] = EndOf(h) + 1
    PROVE  /\ h \o s \in Seq(Entries) /\ Honest(h \o s)
           /\ s # <<>> => EndsInUnit(h \o s) /\ EndOf(h \o s) = EndOf(s)
           /\ s = <<>> => h \o s = h
<1>1. s \in Seq(Entries) /\ Len(s) \in Nat /\ Len(h) \in Nat
  BY DEF Entries
<1>2. CASE s = <<>>
  BY <1>2, ConcatEmptySeq
<1>3. CASE s # <<>>
  <2> DEFINE g == h \o s
  <2>1. /\ g \in Seq(Entries) /\ Len(g) = Len(h) + Len(s)
        /\ \A i \in 1..Len(h) + Len(s) : g[i] = IF i <= Len(h) THEN h[i] ELSE s[i - Len(h)]
    BY <1>1, ConcatProperties
  <2>2. Len(s) > 0 /\ \A i \in 1..Len(s) : s[i] \in R!Unit
    BY <1>1, <1>3
  <2> HIDE DEF g
  <2>3. ASSUME NEW i \in 1..(Len(g) - 1), g[i] \in R!Unit, g[i + 1] \in R!Unit PROVE g[i + 1] = g[i] + 1
    <3>1. CASE i < Len(h)
      <4>1. /\ i \in 1..(Len(h) - 1) /\ i \in 1..(Len(h) + Len(s)) /\ i + 1 \in 1..(Len(h) + Len(s))
            /\ i <= Len(h) /\ i + 1 <= Len(h)
        BY <1>1, <2>1, <3>1
      <4>2. g[i] = h[i] /\ g[i + 1] = h[i + 1]
        BY <2>1, <4>1
      <4> QED BY <2>3, <4>1, <4>2 DEF Honest
    <3>2. CASE i = Len(h)
      <4>1. g[i] = EndOf(h) /\ g[i + 1] = s[1] /\ h # <<>>
        BY <1>1, <2>1, <2>2, <3>2 DEF EndOf
      <4> QED BY <1>3, <2>3, <3>2, <4>1 DEF EndsInUnit, EndOf
    <3>3. CASE i > Len(h)
      <4>1. /\ g[i] = s[i - Len(h)] /\ g[i + 1] = s[i - Len(h) + 1]
            /\ i - Len(h) \in 1..(Len(s) - 1)
        BY <1>1, <2>1, <3>3
      <4> QED BY <4>1 DEF Running
    <3> QED BY <1>1, <3>1, <3>2, <3>3
  <2>4. g # <<>> /\ g[Len(g)] = s[Len(s)]
    BY <1>1, <2>1, <2>2
  <2> QED BY <1>3, <2>1, <2>2, <2>3, <2>4 DEF Honest, EndsInUnit, EndOf, g
<1> QED BY <1>2, <1>3

-----------------------------------------------------------------------------
\* What a poll makes of its record.

LEMMA MarkedFits ==
    ASSUME NEW r, Loose(r)
    PROVE  /\ Fits(R!Marked(r)) /\ R!Marked(r).st = r.st
           /\ ~EndsInUnit(R!Marked(r).hist) /\ R!Marked(r).blind = r.blind
<1> DEFINE m == R!Marked(r)
           h == Append(r.hist, R!Gap)
           g == R!Appended(r.gens, r.hist, <<R!Gap>>)
<1>1. m = [r EXCEPT !.hist = h, !.gens = g]
  BY DEF R!Marked
<1>2. r \in Polling(r.gens) /\ (~r.blind => Honest(r.hist) /\ Follows(r.st)) /\ r.hist \in Seq(Entries)
  BY DEF Loose, Typed, Polling
<1>3. h \in Seq(Entries) /\ (~r.blind => Honest(h)) /\ ~EndsInUnit(h)
  BY <1>2, MarkedHonest, GapIsNoUnit
<1> HIDE DEF m, h, g
<1>4. /\ m \in Polling(g) /\ m.hist = h /\ m.st = r.st /\ m.blind = r.blind /\ m.gens = g
  BY <1>1, <1>2, <1>3 DEF Polling
<1> QED BY <1>2, <1>3, <1>4 DEF Fits, Loose, Typed, Joins, m

\* Another state for the record.
LEMMA StateFits ==
    ASSUME NEW r, Typed(r), NEW st \in States, NEW q, q = [r EXCEPT !.st = st],
           ~r.blind => Honest(r.hist) /\ Follows(st) /\ Joins(r.hist, st)
    PROVE  Fits(q) /\ q.blind = r.blind /\ q.st = st /\ q.hist = r.hist
<1>1. /\ q \in Polling(r.gens) /\ q.st = st /\ q.hist = r.hist /\ q.blind = r.blind
      /\ q.gens = r.gens
  BY DEF Typed, Polling
<1> QED BY <1>1 DEF Fits, Loose, Typed

\* Flags and names say nothing of the stream.
LEMMA FlagsFit ==
    ASSUME NEW r, Fits(r), NEW st \in States, NEW q, q = [r EXCEPT !.st = st],
           st.offset = r.st.offset, st.pending = r.st.pending, st.epoch = r.st.epoch
    PROVE  Fits(q) /\ q.blind = r.blind /\ q.st = st /\ q.hist = r.hist
<1>1. ~r.blind => Honest(r.hist) /\ Follows(st) /\ Joins(r.hist, st)
  BY DEF Fits, Loose, Follows, Joins
<1> QED BY <1>1, StateFits DEF Fits, Loose

\* A stream that starts over behind a marker.
LEMMA ResetFits ==
    ASSUME NEW r, Fits(r), ~EndsInUnit(r.hist), NEW st \in States, NEW q, q = [r EXCEPT !.st = st],
           st.offset = 0, st.pending = <<>>, st.epoch = r.st.epoch
    PROVE  Fits(q) /\ q.blind = r.blind /\ q.st = st /\ q.hist = r.hist
<1>1. Running(<<>>)
  BY DEF Running
<1>2. ~r.blind => Honest(r.hist) /\ Follows(st) /\ Joins(r.hist, st)
  BY <1>1 DEF Fits, Loose, Follows, Joins
<1> QED BY <1>2, StateFits DEF Fits, Loose

LEMMA StateIs == ASSUME NEW r, Typed(r) PROVE r.st \in States /\ r.hist \in Seq(Entries) /\ r.blind \in BOOLEAN
  BY DEF Typed, Polling

LEMMA FlushesFit ==
    ASSUME NEW r, Fits(r), NEW q \in R!Flushes(r)
    PROVE  Fits(q) /\ q.blind = r.blind
<1> DEFINE p == r.st.pending
           o == r.st
<1>1. o \in States /\ Typed(r) /\ Loose(r)
  BY StateIs DEF Fits, Loose
<1>2. CASE p = <<>>
  <2> DEFINE st == [o EXCEPT !.quiet = FALSE]
  <2>1. q = [r EXCEPT !.st = st]
    BY <1>2 DEF R!Flushes
  <2> HIDE DEF o
  <2>2. st \in States /\ st.offset = o.offset /\ st.pending = o.pending /\ st.epoch = o.epoch
    BY <1>1 DEF States
  <2> QED BY <2>1, <2>2, FlagsFit DEF o
<1>3. CASE p # <<>> /\ q = [r EXCEPT !.st = [o EXCEPT !.quiet = TRUE]]
  <2> DEFINE st == [o EXCEPT !.quiet = TRUE]
  <2>1. q = [r EXCEPT !.st = st]
    BY <1>3
  <2> HIDE DEF o, p
  <2>2. st \in States /\ st.offset = o.offset /\ st.pending = o.pending /\ st.epoch = o.epoch
    BY <1>1 DEF States
  <2> HIDE DEF st
  <2>3. o = r.st
    BY DEF o
  <2> QED BY <2>1, <2>2, <2>3, FlagsFit
<1>4. CASE q = r
  BY <1>4
<1>5. CASE p # <<>> /\ q = [R!Said(R!Marked(r), p) EXCEPT !.st.pending = <<>>, !.st.quiet = FALSE]
  <2> DEFINE m == R!Marked(r)
             st == [o EXCEPT !.pending = <<>>, !.quiet = FALSE]
             h == m.hist \o p
             g == R!Appended(m.gens, m.hist, p)
             s == [m EXCEPT !.hist = h, !.gens = g]
  <2>1. Fits(m) /\ m.st = o /\ m.blind = r.blind /\ ~EndsInUnit(m.hist)
    BY <1>1, MarkedFits
  <2>2. s = R!Said(m, p)
    BY DEF R!Said
  <2>3. p \in Seq(R!Unit)
    BY <1>1 DEF States
  <2>4. ~m.blind => /\ Honest(m.hist) /\ Running(p) /\ o.offset > 0 /\ o.epoch <= src.epoch
                    /\ o.epoch = src.epoch => o.offset <= Len(src.data) /\ EndOf(p) = src.data[o.offset]
    BY <1>1, <1>5, <2>1 DEF Fits, Loose, Follows, States
  <2> HIDE DEF m
  <2>5. /\ m \in Polling(m.gens) /\ m.hist \in Seq(Entries)
    BY <2>1 DEF Fits, Loose, Typed, Polling
  <2>6. ~m.blind => /\ h \in Seq(Entries) /\ Honest(h)
                    /\ EndsInUnit(h) /\ EndOf(h) = EndOf(p)
    BY <1>5, <2>1, <2>3, <2>4, <2>5, SaidHonest
  <2>7. h \in Seq(Entries)
    BY <2>3, <2>5, ConcatProperties DEF Entries
  <2> HIDE DEF h, g
  <2>8. s \in Polling(g) /\ s.hist = h /\ s.st = m.st /\ s.blind = m.blind /\ s.gens = g
    BY <2>5, <2>7 DEF Polling
  <2>9. q = [s EXCEPT !.st = [s.st EXCEPT !.pending = <<>>, !.quiet = FALSE]]
    BY <1>5, <2>2 DEF m
  <2> HIDE DEF s, p, o
  <2>10. q = [s EXCEPT !.st = st]
    BY <2>1, <2>8, <2>9
  <2>15. <<>> \in Seq(R!Unit)
    OBVIOUS
  <2>11. /\ st \in States /\ st.pending = <<>> /\ st.offset = o.offset /\ st.epoch = o.epoch
    BY <1>1, <2>15 DEF States
  <2> HIDE DEF st
  <2>12. Running(<<>>)
    BY DEF Running
  <2>13. ~s.blind => Honest(s.hist) /\ Follows(st) /\ Joins(s.hist, st)
    BY <2>4, <2>6, <2>8, <2>11, <2>12 DEF Follows, Joins
  <2>14. Typed(s)
    BY <2>8 DEF Typed
  <2> QED BY <2>1, <2>8, <2>10, <2>11, <2>13, <2>14, StateFits
<1> QED BY <1>2, <1>3, <1>4, <1>5 DEF R!Flushes

LEMMA AbsentFits ==
    ASSUME NEW r, Fits(r), NEW q \in R!Absent(r)
    PROVE  Fits(q) /\ q.blind = r.blind
<1> DEFINE a == R!Marked(r)
           m == IF r.st.missing THEN r ELSE [a EXCEPT !.st.missing = TRUE]
           b == R!Marked(m)
           n == [b EXCEPT !.st.lost = TRUE]
<1>1. Fits(m) /\ m.blind = r.blind
  <2>1. CASE r.st.missing
    BY <2>1
  <2>2. CASE ~r.st.missing
    <3>1. Fits(a) /\ a.blind = r.blind /\ Typed(a)
      BY MarkedFits DEF Fits, Loose
    <3>2. m = [a EXCEPT !.st = [a.st EXCEPT !.missing = TRUE]]
      BY <2>2
    <3> HIDE DEF a, m
    <3>3. a.st \in States
      BY <3>1, StateIs
    <3> DEFINE o == a.st
               st == [o EXCEPT !.missing = TRUE]
    <3>4. m = [a EXCEPT !.st = st] /\ o \in States
      BY <3>2, <3>3
    <3>5. st \in States /\ st.offset = o.offset /\ st.pending = o.pending /\ st.epoch = o.epoch
      <4> HIDE DEF o
      <4> QED BY <3>4 DEF States
    <3> HIDE DEF st
    <3> QED BY <3>1, <3>4, <3>5, FlagsFit DEF o
  <2> QED BY <2>1, <2>2
<1>2. q \in UNION {R!Flushes(x) : x \in {m} \cup (IF m.st.lost THEN {} ELSE {n})}
  BY DEF R!Absent
<1> HIDE DEF m
<1>3. Fits(n) /\ n.blind = r.blind
  <2>1. Fits(b) /\ b.blind = r.blind /\ Typed(b)
    BY <1>1, MarkedFits DEF Fits, Loose
  <2>2. n = [b EXCEPT !.st = [b.st EXCEPT !.lost = TRUE]]
    OBVIOUS
  <2> HIDE DEF b, n
  <2>3. b.st \in States
    BY <2>1, StateIs
  <2> DEFINE o == b.st
             st == [o EXCEPT !.lost = TRUE]
  <2>4. n = [b EXCEPT !.st = st] /\ o \in States
    BY <2>2, <2>3
  <2>5. st \in States /\ st.offset = o.offset /\ st.pending = o.pending /\ st.epoch = o.epoch
    <3> HIDE DEF o
    <3> QED BY <2>4 DEF States
  <2> HIDE DEF st
  <2> QED BY <2>1, <2>4, <2>5, FlagsFit DEF o
<1> HIDE DEF n
<1>4. PICK x \in {m, n} : q \in R!Flushes(x)
  BY <1>2
<1> QED BY <1>1, <1>3, <1>4, FlushesFit

LEMMA ReturnedFits ==
    ASSUME NEW r, Fits(r)
    PROVE  Fits(R!Returned(r)) /\ R!Returned(r).blind = r.blind
<1> DEFINE a == R!Marked(r)
           q == [a EXCEPT !.st.missing = FALSE, !.st.unsafe = FALSE]
<1>1. Fits(q) /\ q.blind = r.blind
  <2>1. Fits(a) /\ a.blind = r.blind /\ Typed(a)
    BY MarkedFits DEF Fits, Loose
  <2>2. q = [a EXCEPT !.st = [a.st EXCEPT !.missing = FALSE, !.unsafe = FALSE]]
    BY <2>1 DEF Typed, Polling
  <2> HIDE DEF a, q
  <2>3. a.st \in States
    BY <2>1, StateIs
  <2> DEFINE o == a.st
             st == [o EXCEPT !.missing = FALSE, !.unsafe = FALSE]
  <2>4. q = [a EXCEPT !.st = st] /\ o \in States
    BY <2>2, <2>3
  <2>5. st \in States /\ st.offset = o.offset /\ st.pending = o.pending /\ st.epoch = o.epoch
    <3> HIDE DEF o
    <3> QED BY <2>4 DEF States
  <2> HIDE DEF st
  <2> QED BY <2>1, <2>4, <2>5, FlagsFit DEF o
<1>2. R!Returned(r) = IF ~r.st.missing THEN r ELSE q
  BY DEF R!Returned
<1> HIDE DEF q
<1> QED BY <1>1, <1>2

LEMMA ReplacedFits ==
    ASSUME NEW r, Fits(r), NEW id \in Nat
    PROVE  Fits(R!Replaced(r, id)) /\ R!Replaced(r, id).blind = r.blind
<1> DEFINE q == R!Replaced(r, id)
           a == R!Marked(r)
<1>1. Typed(r) /\ r.st \in States
  BY StateIs DEF Fits, Loose
<1>2. CASE r.st.id \in {R!NoId, id}
  <2> DEFINE o == r.st
             st == [o EXCEPT !.id = id]
  <2>1. q = [r EXCEPT !.st = st]
    BY <1>2 DEF R!Replaced
  <2>2. st \in States /\ st.offset = o.offset /\ st.pending = o.pending /\ st.epoch = o.epoch
    <3> HIDE DEF o
    <3> QED BY <1>1 DEF States, o
  <2> HIDE DEF st, q
  <2> QED BY <2>1, <2>2, FlagsFit DEF o, q
<1>3. CASE r.st.id \notin {R!NoId, id}
  <2>1. Fits(a) /\ a.blind = r.blind /\ Typed(a) /\ ~EndsInUnit(a.hist)
    BY MarkedFits DEF Fits, Loose
  <2>2. q = [a EXCEPT !.st.id = id, !.st.offset = 0, !.st.pending = <<>>,
                      !.st.quiet = FALSE, !.st.lost = FALSE]
    BY <1>3 DEF R!Replaced
  <2> HIDE DEF a, q
  <2>3. a.st \in States
    BY <2>1, StateIs
  <2> DEFINE o == a.st
             st == [o EXCEPT !.id = id, !.offset = 0, !.pending = <<>>, !.quiet = FALSE, !.lost = FALSE]
  <2>4. q = [a EXCEPT !.st = st] /\ o \in States
    BY <2>1, <2>2, <2>3 DEF Typed, Polling
  <2>5. <<>> \in Seq(R!Unit)
    OBVIOUS
  <2>6. st \in States /\ st.offset = 0 /\ st.pending = <<>> /\ st.epoch = o.epoch
    <3> HIDE DEF o
    <3> QED BY <2>4, <2>5 DEF States
  <2> HIDE DEF st
  <2> QED BY <2>1, <2>4, <2>6, ResetFits DEF o, q
<1> QED BY <1>2, <1>3

LEMMA TruncatedFits ==
    ASSUME NEW r, Fits(r), NEW size \in Nat
    PROVE  Fits(R!Truncated(r, size)) /\ R!Truncated(r, size).blind = r.blind
<1> DEFINE q == R!Truncated(r, size)
           a == R!Marked(r)
<1>1. CASE size >= r.st.offset
  BY <1>1 DEF R!Truncated
<1>2. CASE ~(size >= r.st.offset)
  <2>1. Fits(a) /\ a.blind = r.blind /\ Typed(a) /\ ~EndsInUnit(a.hist)
    BY MarkedFits DEF Fits, Loose
  <2>2. q = [a EXCEPT !.st.offset = 0, !.st.pending = <<>>, !.st.quiet = FALSE]
    BY <1>2 DEF R!Truncated
  <2> HIDE DEF a, q
  <2>3. a.st \in States
    BY <2>1, StateIs
  <2> DEFINE o == a.st
             st == [o EXCEPT !.offset = 0, !.pending = <<>>, !.quiet = FALSE]
  <2>4. q = [a EXCEPT !.st = st] /\ o \in States
    BY <2>1, <2>2, <2>3 DEF Typed, Polling
  <2>5. <<>> \in Seq(R!Unit)
    OBVIOUS
  <2>6. st \in States /\ st.offset = 0 /\ st.pending = <<>> /\ st.epoch = o.epoch
    <3> HIDE DEF o
    <3> QED BY <2>4, <2>5 DEF States
  <2> HIDE DEF st
  <2> QED BY <2>1, <2>4, <2>6, ResetFits DEF o, q
<1> QED BY <1>1, <1>2

\* Names for the provers, which need not look into them.
Part(s, a, b) == SubSeq(s, a, b)
Both(p, c) == p \o c

\* A part of a running sequence runs.
LEMMA PartRuns ==
    ASSUME NEW s \in Seq(R!Unit), NEW a \in Nat \ {0}, NEW b \in 0..Len(s),
           NEW c, c = Part(s, a, b)
    PROVE  /\ c \in Seq(R!Unit) /\ (Running(s) => Running(c))
           /\ a > b => c = <<>>
           /\ a <= b => Len(c) = b - a + 1 /\ c # <<>> /\ c[1] = s[a] /\ EndOf(c) = s[b]
<1>0. Len(s) \in Nat /\ c = SubSeq(s, a, b)
  BY DEF Part
<1>1. CASE a > b
  <2>1. c = <<>>
    <3>1. a \in Int /\ b \in Int /\ b < a
      BY <1>0, <1>1
    <3> QED BY <1>0, <3>1, SubSeqEmpty
  <2>2. c \in Seq(R!Unit) /\ Running(c) /\ ~(a <= b)
    BY <1>0, <1>1, <2>1 DEF Running
  <2> QED BY <1>1, <2>1, <2>2
<1>2. CASE a <= b
  <2>1. /\ c \in Seq(R!Unit) /\ Len(c) = b - a + 1
        /\ \A i \in 1..b - a + 1 : c[i] = s[a + i - 1]
    <3>1. /\ a \in 1..Len(s) + 1 /\ b \in a - 1..Len(s)
      BY <1>0, <1>2
    <3>2. /\ SubSeq(s, a, b) \in Seq(R!Unit)
          /\ Len(SubSeq(s, a, b)) = IF a <= b THEN b - a + 1 ELSE 0
          /\ \A i \in 1..b - a + 1 : SubSeq(s, a, b)[i] = s[a + i - 1]
      BY <3>1, SubSeqProperties
    <3> QED BY <1>0, <1>2, <3>2
  <2>2. c # <<>> /\ c[1] = s[a] /\ EndOf(c) = s[b]
    BY <1>0, <1>2, <2>1 DEF EndOf
  <2>3. ASSUME Running(s) PROVE Running(c)
    <3> SUFFICES ASSUME NEW i \in 1..(Len(c) - 1) PROVE c[i + 1] = c[i] + 1
      BY DEF Running
    <3>1. /\ i \in 1..b - a + 1 /\ i + 1 \in 1..b - a + 1
          /\ a + i - 1 \in 1..(Len(s) - 1) /\ a + (i + 1) - 1 = (a + i - 1) + 1
      BY <1>0, <1>2, <2>1
    <3>2. c[i] = s[a + i - 1] /\ c[i + 1] = s[(a + i - 1) + 1]
      BY <2>1, <3>1
    <3> QED BY <2>3, <3>1, <3>2 DEF Running
  <2>4. ~(a > b)
    BY <1>0, <1>2
  <2> QED BY <1>2, <2>1, <2>2, <2>3, <2>4
<1>3. a > b \/ a <= b
  BY <1>0
<1> QED BY <1>1, <1>2, <1>3

\* Units that run on from others run with them.
LEMMA TogetherRun ==
    ASSUME NEW p \in Seq(R!Unit), NEW c \in Seq(R!Unit), Running(p), Running(c),
           p # <<>> /\ c # <<>> => c[1] = EndOf(p) + 1,
           NEW a, a = Both(p, c)
    PROVE  /\ a \in Seq(R!Unit) /\ Running(a)
           /\ c = <<>> => a = p
           /\ p = <<>> => a = c
           /\ p # <<>> => a # <<>> /\ a[1] = p[1]
           /\ c # <<>> => a # <<>> /\ EndOf(a) = EndOf(c)
<1>0. a = p \o c
  BY DEF Both
<1>1. p \in Seq(Entries) /\ Honest(p) /\ a \in Seq(R!Unit) /\ Len(p) \in Nat /\ Len(c) \in Nat
  <2>1. p \in Seq(Entries)
    BY DEF Entries
  <2>2. a \in Seq(R!Unit)
    BY <1>0, ConcatProperties
  <2> QED BY <2>1, <2>2 DEF Running, Honest
<1>2. Honest(a) /\ (c # <<>> => a # <<>> /\ EndOf(a) = EndOf(c)) /\ (c = <<>> => a = p)
  <2>1. EndsInUnit(p) /\ c # <<>> => c[1] = EndOf(p) + 1
    BY DEF EndsInUnit
  <2>2. /\ Honest(p \o c)
        /\ c # <<>> => EndsInUnit(p \o c) /\ EndOf(p \o c) = EndOf(c)
        /\ c = <<>> => p \o c = p
    BY <1>1, <2>1, SaidHonest
  <2> HIDE DEF Honest, EndOf
  <2>3. Honest(a) /\ (c # <<>> => EndsInUnit(a) /\ EndOf(a) = EndOf(c)) /\ (c = <<>> => a = p)
    BY <1>0, <2>2
  <2>4. EndsInUnit(a) => a # <<>>
    BY DEF EndsInUnit
  <2> QED BY <2>3, <2>4
<1>3. Running(a)
  <2> SUFFICES ASSUME NEW i \in 1..(Len(a) - 1) PROVE a[i + 1] = a[i] + 1
    BY DEF Running
  <2>1. i \in 1..Len(a) /\ i + 1 \in 1..Len(a) /\ Len(a) \in Nat
    BY <1>1
  <2>2. a[i] \in R!Unit /\ a[i + 1] \in R!Unit
    BY <1>1, <2>1
  <2> QED BY <1>2, <2>2 DEF Honest
<1>4. p = <<>> => a = c
  BY <1>0, ConcatEmptySeq
<1>5. ASSUME p # <<>> PROVE a # <<>> /\ a[1] = p[1]
  <2>1. Len(p) > 0
    BY <1>1, <1>5
  <2>2. Len(a) = Len(p) + Len(c) /\ \A i \in 1..Len(p) + Len(c) : a[i] = IF i <= Len(p) THEN p[i] ELSE c[i - Len(p)]
    BY <1>0, ConcatProperties
  <2>3. 1 \in 1..Len(p) + Len(c) /\ 1 <= Len(p)
    BY <1>1, <2>1
  <2>4. a[1] = p[1]
    BY <2>2, <2>3
  <2>5. Len(a) > 0
    BY <1>1, <2>1, <2>2
  <2> QED BY <2>4, <2>5
<1> QED BY <1>1, <1>2, <1>3, <1>4, <1>5

\* What the last line end makes of a running sequence.
LEMMA SplitRuns ==
    ASSUME NEW s \in Seq(R!Unit), NEW x, x = R!Lines(s), NEW y, y = R!Rest(s)
    PROVE  /\ x \in Seq(R!Unit) /\ y \in Seq(R!Unit)
           /\ x = <<>> => y = s
           /\ x # <<>> => s # <<>> /\ x[1] = s[1]
           /\ y # <<>> => s # <<>> /\ EndOf(y) = EndOf(s)
           /\ x # <<>> /\ y = <<>> => EndOf(x) = EndOf(s)
           /\ Running(s) => /\ Running(x) /\ Running(y)
                            /\ x # <<>> /\ y # <<>> => y[1] = EndOf(x) + 1
<1>1. PICK k \in 0..Len(s) : x = SubSeq(s, 1, k) /\ y = SubSeq(s, k + 1, Len(s))
  BY LinesAndRest
<1>2. Len(s) \in Nat /\ k \in Nat /\ k <= Len(s) /\ k + 1 \in Nat \ {0} /\ Len(s) \in 0..Len(s) /\ 1 \in Nat \ {0}
  BY <1>1
<1>3. /\ x \in Seq(R!Unit) /\ (Running(s) => Running(x))
      /\ 1 > k => x = <<>>
      /\ 1 <= k => x # <<>> /\ x[1] = s[1] /\ EndOf(x) = s[k]
  <2>1. PICK a \in Nat \ {0} : a = 1
    BY <1>2
  <2>2. x = Part(s, a, k)
    BY <1>1, <2>1 DEF Part
  <2>3. /\ x \in Seq(R!Unit) /\ (Running(s) => Running(x))
        /\ a > k => x = <<>>
        /\ a <= k => x # <<>> /\ x[1] = s[a] /\ EndOf(x) = s[k]
    BY <2>2, PartRuns
  <2> QED BY <2>1, <2>3
<1>4. /\ y \in Seq(R!Unit) /\ (Running(s) => Running(y))
      /\ k + 1 > Len(s) => y = <<>>
      /\ k + 1 <= Len(s) => y # <<>> /\ y[1] = s[k + 1] /\ EndOf(y) = s[Len(s)]
  <2>1. PICK a \in Nat \ {0} : a = k + 1
    BY <1>2
  <2>2. PICK b \in 0..Len(s) : b = Len(s)
    BY <1>2
  <2>3. y = Part(s, a, b)
    BY <1>1, <2>1, <2>2 DEF Part
  <2>4. /\ y \in Seq(R!Unit) /\ (Running(s) => Running(y))
        /\ a > b => y = <<>>
        /\ a <= b => y # <<>> /\ y[1] = s[a] /\ EndOf(y) = s[b]
    BY <2>3, PartRuns
  <2> QED BY <2>1, <2>2, <2>4
<1>5. CASE k = 0
  <2>1. x = <<>> /\ y = s
    <3>1. SubSeq(s, 1, Len(s)) = s
      BY SubSeqFull
    <3> QED BY <1>1, <1>3, <1>5, <3>1
  <2> QED BY <1>3, <1>4, <2>1
<1>6. CASE k = Len(s) /\ k > 0
  <2>1. x # <<>> /\ y = <<>> /\ s # <<>> /\ x[1] = s[1] /\ EndOf(x) = EndOf(s)
    BY <1>2, <1>3, <1>4, <1>6 DEF EndOf
  <2> QED BY <1>3, <1>4, <2>1
<1>7. CASE k < Len(s) /\ k > 0
  <2>1. x # <<>> /\ y # <<>> /\ s # <<>> /\ x[1] = s[1] /\ EndOf(x) = s[k] /\ EndOf(y) = EndOf(s) /\ y[1] = s[k + 1]
    BY <1>2, <1>3, <1>4, <1>7 DEF EndOf
  <2>2. Running(s) => y[1] = EndOf(x) + 1
    BY <1>2, <1>7, <2>1 DEF Running
  <2> QED BY <1>3, <1>4, <2>1, <2>2
<1> QED BY <1>2, <1>5, <1>6, <1>7

LEMMA MarkedIs ==
    ASSUME NEW x, Typed(x), NEW m, m = R!Marked(x)
    PROVE  /\ Typed(m) /\ m.st = x.st /\ m.blind = x.blind
           /\ ~EndsInUnit(m.hist) /\ (Honest(x.hist) => Honest(m.hist))
<1> DEFINE h == Append(x.hist, R!Gap)
           g == R!Appended(x.gens, x.hist, <<R!Gap>>)
<1>1. m = [x EXCEPT !.hist = h, !.gens = g]
  BY DEF R!Marked
<1>2. x \in Polling(x.gens) /\ x.hist \in Seq(Entries)
  BY DEF Typed, Polling
<1>3. h \in Seq(Entries) /\ ~EndsInUnit(h) /\ (Honest(x.hist) => Honest(h))
  BY <1>2, MarkedHonest, GapIsNoUnit
<1> HIDE DEF h, g
<1>4. /\ m \in Polling(g) /\ m.hist = h /\ m.st = x.st /\ m.blind = x.blind /\ m.gens = g
  BY <1>1, <1>2, <1>3 DEF Polling
<1> QED BY <1>3, <1>4 DEF Typed

LEMMA ReadsFit ==
    ASSUME NEW r, Fits(r), SourceFits, NEW size \in Nat, size > r.st.offset,
           NEW q \in R!Reads(r, size)
    PROVE  Fits(q) /\ (~q.blind => ~r.blind)
<1> DEFINE o == r.st
           n == IF size < Len(src.data) THEN size ELSE Len(src.data)
           c == SubSeq(src.data, o.offset + 1, n)
           all == o.pending \o c
           lines == R!Lines(all)
           rest == R!Rest(all)
           e == IF c = <<>> THEN o.epoch ELSE src.epoch
           stale == R!Stale(r, c)
           b == r.blind \/ stale
           kept == [r EXCEPT !.st.pending = rest, !.st.epoch = e, !.blind = b]
           done == [kept EXCEPT !.st.offset = @ + Len(c)]
           d == [o EXCEPT !.pending = rest, !.epoch = e, !.offset = o.offset + Len(c)]
           k == [o EXCEPT !.pending = rest, !.epoch = e]
<1>1. /\ Typed(r) /\ r \in Polling(r.gens) /\ o \in States /\ r.hist \in Seq(Entries) /\ r.blind \in BOOLEAN
      /\ o.offset \in Nat /\ o.pending \in Seq(R!Unit) /\ o.epoch \in Nat
      /\ src.data \in Seq(R!Unit) /\ Running(src.data) /\ src.epoch \in Nat /\ Len(src.data) \in Nat
  BY StateIs DEF Fits, Loose, Typed, States, SourceFits
<1>2. /\ c \in Seq(R!Unit) /\ Running(c) /\ Len(c) \in Nat /\ n \in 0..Len(src.data)
      /\ c # <<>> => /\ o.offset + Len(c) = n /\ c[1] = src.data[o.offset + 1] /\ EndOf(c) = src.data[n]
                     /\ o.offset + 1 <= n /\ n <= Len(src.data)
      /\ c = <<>> => Len(c) = 0
  <2>1. n \in 0..Len(src.data) /\ o.offset + 1 \in Nat \ {0}
    BY <1>1
  <2>2. o.offset + 1 > n \/ o.offset + 1 <= n
    BY <1>1, <2>1
  <2> HIDE DEF n, o
  <2>3. /\ c \in Seq(R!Unit) /\ Running(c)
        /\ o.offset + 1 > n => c = <<>>
        /\ o.offset + 1 <= n => /\ Len(c) = n - (o.offset + 1) + 1 /\ c # <<>>
                                /\ c[1] = src.data[o.offset + 1] /\ EndOf(c) = src.data[n]
    <3>1. PICK a \in Nat \ {0} : a = o.offset + 1
      BY <2>1
    <3>2. PICK s \in Seq(R!Unit) : s = src.data
      BY <1>1
    <3>3. PICK m \in 0..Len(s) : m = n
      BY <2>1, <3>2
    <3>4. PICK t : t = Part(s, a, m)
      OBVIOUS
    <3>5. t = c
      BY <3>1, <3>2, <3>3, <3>4 DEF Part
    <3>6. Running(s)
      BY <1>1, <3>2
    <3>7. /\ t \in Seq(R!Unit) /\ Running(t)
          /\ a > m => t = <<>>
          /\ a <= m => Len(t) = m - a + 1 /\ t # <<>> /\ t[1] = s[a] /\ EndOf(t) = s[m]
      <4>1. t \in Seq(R!Unit) /\ (Running(s) => Running(t))
        BY <3>4, PartRuns
      <4>2. a > m => t = <<>>
        BY <3>4, PartRuns
      <4>3. a <= m => Len(t) = m - a + 1
        BY <3>4, PartRuns
      <4>4. a <= m => t # <<>> /\ t[1] = s[a] /\ EndOf(t) = s[m]
        BY <3>4, PartRuns
      <4> QED BY <3>6, <4>1, <4>2, <4>3, <4>4
    <3> HIDE DEF c
    <3> QED BY <3>1, <3>2, <3>3, <3>5, <3>7
  <2> HIDE DEF c
  <2>4. Len(c) \in Nat /\ (c = <<>> => Len(c) = 0)
    BY <2>3
  <2>5. Len(c) = n - (o.offset + 1) + 1 => o.offset + Len(c) = n
    BY <1>1, <2>1, <2>4
  <2>6. n <= Len(src.data)
    BY <1>1, <2>1
  <2> QED BY <2>1, <2>2, <2>3, <2>4, <2>5, <2>6
<1> HIDE DEF n, o, c
\* If the poll stays sound, the chunk goes on where the pending part ends.
<1>3. ASSUME ~b
      PROVE  /\ Running(all) /\ all \in Seq(R!Unit)
             /\ o.offset + Len(c) = 0 => all = <<>>
             /\ e <= src.epoch
             /\ e = src.epoch /\ o.offset + Len(c) > 0 =>
                  /\ o.offset + Len(c) <= Len(src.data)
                  /\ all # <<>> => EndOf(all) = src.data[o.offset + Len(c)]
             /\ EndsInUnit(r.hist) =>
                  /\ o.offset > 0
                  /\ all # <<>> => all[1] = EndOf(r.hist) + 1
                  /\ e = src.epoch /\ all = <<>> => EndOf(r.hist) = src.data[o.offset + Len(c)]
  <2>1. /\ Honest(r.hist) /\ Follows(o) /\ Joins(r.hist, o)
        /\ c # <<>> => o.epoch = src.epoch \/ (o.offset = 0 /\ o.pending = <<>>)
    <3>1. ~r.blind /\ ~stale
      BY <1>3
    <3>2. Honest(r.hist) /\ Follows(o) /\ Joins(r.hist, o)
      BY <3>1 DEF Fits, Loose, o
    <3>3. c # <<>> /\ o.epoch # src.epoch => ~(o.offset > 0) /\ o.pending = <<>>
      BY <3>1 DEF R!Stale, o
    <3> QED BY <1>1, <3>2, <3>3
  <2>2. o.offset > 0 /\ c # <<>> => c[1] = src.data[o.offset] + 1
    <3>1. o.offset > 0 /\ c # <<>> => o.offset \in 1..(Len(src.data) - 1)
      BY <1>1, <1>2
    <3> QED BY <1>1, <1>2, <3>1 DEF Running
  <2>3. o.pending # <<>> /\ c # <<>> => c[1] = EndOf(o.pending) + 1
    BY <1>1, <2>1, <2>2 DEF Follows
  <2>4. Running(o.pending)
    BY <2>1 DEF Follows
  <2>10. all = Both(o.pending, c) /\ o.pending \in Seq(R!Unit) /\ c \in Seq(R!Unit) /\ Running(c)
    BY <1>1, <1>2 DEF Both
  <2> HIDE DEF all
  <2>5. /\ all \in Seq(R!Unit) /\ Running(all)
        /\ c = <<>> => all = o.pending
        /\ o.pending = <<>> => all = c
        /\ o.pending # <<>> => all # <<>> /\ all[1] = o.pending[1]
        /\ c # <<>> => all # <<>> /\ EndOf(all) = EndOf(c)
    BY <2>3, <2>4, <2>10, TogetherRun
  <2>6. CASE c = <<>>
    <3>1. o.offset + Len(c) = o.offset /\ e = o.epoch /\ all = o.pending
      BY <1>1, <1>2, <2>5, <2>6
    <3> QED BY <2>1, <2>5, <3>1 DEF Follows, Joins
  <2>7. CASE c # <<>>
    <3>1. /\ o.offset + Len(c) > 0 /\ o.offset + Len(c) <= Len(src.data) /\ e = src.epoch
          /\ EndOf(all) = src.data[o.offset + Len(c)] /\ all # <<>> /\ e <= src.epoch
          /\ o.offset + Len(c) # 0
      <4>1. e = src.epoch /\ e <= src.epoch
        BY <1>1, <2>7
      <4>2. o.offset + Len(c) = n /\ n > 0 /\ n <= Len(src.data) /\ n # 0
        <5>1. n \in Nat /\ Len(src.data) \in Nat /\ o.offset \in Nat /\ o.offset + 1 <= n
          BY <1>1, <1>2, <2>7
        <5> QED BY <1>2, <2>7, <5>1
      <4>3. EndOf(all) = src.data[n] /\ all # <<>>
        BY <1>2, <2>5, <2>7
      <4> QED BY <4>1, <4>2, <4>3
    <3>2. ASSUME EndsInUnit(r.hist) PROVE o.offset > 0 /\ all[1] = EndOf(r.hist) + 1
      <4>1. o.offset > 0 /\ o.epoch = src.epoch
        BY <2>1, <2>7, <3>2, <1>1 DEF Joins
      <4>2. CASE o.pending # <<>>
        BY <2>1, <2>5, <3>2, <4>1, <4>2 DEF Joins
      <4>3. CASE o.pending = <<>>
        BY <2>1, <2>2, <2>5, <2>7, <3>2, <4>1, <4>3 DEF Joins
      <4> QED BY <4>1, <4>2, <4>3
    <3> QED BY <2>5, <3>1, <3>2
  <2> QED BY <2>6, <2>7
<1>4. /\ lines \in Seq(R!Unit) /\ rest \in Seq(R!Unit) /\ e \in Nat /\ b \in BOOLEAN
      /\ lines = <<>> => rest = all
      /\ lines # <<>> => all # <<>> /\ lines[1] = all[1]
      /\ rest # <<>> => all # <<>> /\ EndOf(rest) = EndOf(all)
      /\ lines # <<>> /\ rest = <<>> => EndOf(lines) = EndOf(all)
      /\ Running(all) => /\ Running(lines) /\ Running(rest)
                         /\ lines # <<>> /\ rest # <<>> => rest[1] = EndOf(lines) + 1
  <2>1. all \in Seq(R!Unit)
    BY <1>1, <1>2, ConcatProperties
  <2>2. e \in Nat
    BY <1>1
  <2>3. b \in BOOLEAN
    BY <1>1 DEF R!Stale
  <2> HIDE DEF all, e, b
  <2>4. /\ lines \in Seq(R!Unit) /\ rest \in Seq(R!Unit)
        /\ lines = <<>> => rest = all
        /\ lines # <<>> => all # <<>> /\ lines[1] = all[1]
        /\ rest # <<>> => all # <<>> /\ EndOf(rest) = EndOf(all)
        /\ lines # <<>> /\ rest = <<>> => EndOf(lines) = EndOf(all)
        /\ Running(all) => /\ Running(lines) /\ Running(rest)
                           /\ lines # <<>> /\ rest # <<>> => rest[1] = EndOf(lines) + 1
    BY <2>1, SplitRuns
  <2> QED BY <2>2, <2>3, <2>4
<1>5. PICK g \in {r.gens} \cup {rot.gens : rot \in R!Rotations(r.gens)} :
        \/ lines = <<>> /\ q \in R!Flushes(done)
        \/ lines # <<>> /\ q \in R!Flushes(R!Said([done EXCEPT !.gens = g], lines))
        \/ /\ lines # <<>>
           /\ q = [R!Marked([kept EXCEPT !.gens = g]) EXCEPT !.ok = FALSE,
                      !.blind = @ \/ r.st.pending # <<>> \/ rest # <<>>]
  <2>1. c = R!Chunk(r, size)
    BY DEF R!Chunk, c, n, o
  <2>2. \/ lines = <<>> /\ q \in R!Flushes(done)
        \/ lines # <<>> /\ \E rot \in R!Rotations(r.gens) :
              IF rot.ok THEN q \in R!Flushes(R!Said([done EXCEPT !.gens = rot.gens], lines))
              ELSE q \in {[R!Marked([kept EXCEPT !.gens = rot.gens]) EXCEPT !.ok = FALSE,
                      !.blind = @ \/ r.st.pending # <<>> \/ rest # <<>>]}
    BY <2>1 DEF R!Reads, o
  <2> HIDE DEF done, kept, lines, rest
  <2> QED BY <2>2
<1> HIDE DEF all, lines, rest, e, stale, b
<1>6. Len(c) \in Nat
  BY <1>2
<1>7. /\ k \in States /\ k.pending = rest /\ k.epoch = e /\ k.offset = o.offset
      /\ d \in States /\ d.pending = rest /\ d.epoch = e /\ d.offset = o.offset + Len(c)
  <2>1. PICK v \in Nat : v = o.offset + Len(c)
    BY <1>1, <1>6
  <2>2. PICK f \in States : f = o
    BY <1>1
  <2>3. d = [f EXCEPT !.pending = rest, !.epoch = e, !.offset = v] /\ k = [f EXCEPT !.pending = rest, !.epoch = e]
    BY <2>1, <2>2
  <2> HIDE DEF d, k
  <2>4. d \in States /\ d.pending = rest /\ d.epoch = e /\ d.offset = v
    BY <1>4, <2>3 DEF States
  <2>5. k \in States /\ k.pending = rest /\ k.epoch = e /\ k.offset = f.offset
    BY <1>4, <2>3 DEF States
  <2> QED BY <2>1, <2>2, <2>4, <2>5
<1>8. kept = [r EXCEPT !.st = k, !.blind = b]
  <2>1. kept = [r EXCEPT !.st = [o EXCEPT !.pending = rest, !.epoch = e], !.blind = b]
    BY <1>1 DEF o, Polling
  <2> QED BY <2>1
<1> HIDE DEF kept
<1>9. /\ kept \in Polling(r.gens) /\ kept.st = k /\ kept.blind = b /\ kept.hist = r.hist /\ kept.gens = r.gens
  <2> HIDE DEF k
  <2> QED BY <1>1, <1>4, <1>7, <1>8 DEF Polling
<1>10. done = [kept EXCEPT !.st = d]
  <2>1. done = [kept EXCEPT !.st = [kept.st EXCEPT !.offset = kept.st.offset + Len(c)]]
    BY <1>9 DEF Polling
  <2>2. [k EXCEPT !.offset = k.offset + Len(c)] = d
    BY <1>1, <1>7 DEF States
  <2> QED BY <1>9, <2>1, <2>2
<1> HIDE DEF done, k, d
<1>11. done \in Polling(r.gens) /\ done.st = d /\ done.blind = b /\ done.hist = r.hist /\ done.gens = r.gens
  BY <1>7, <1>9, <1>10 DEF Polling
<1>12. ~b => Honest(r.hist)
  BY DEF b, Fits, Loose
\* Behind a read the state follows the source.
<1>13. ASSUME ~b PROVE Follows(d)
  <2>1. /\ Running(rest) /\ (o.offset + Len(c) = 0 => rest = <<>>) /\ e <= src.epoch
        /\ e = src.epoch /\ o.offset + Len(c) > 0 =>
             /\ o.offset + Len(c) <= Len(src.data)
             /\ rest # <<>> => EndOf(rest) = src.data[o.offset + Len(c)]
    BY <1>3, <1>4, <1>13
  <2> QED BY <1>7, <2>1 DEF Follows
<1>14. CASE lines = <<>> /\ q \in R!Flushes(done)
  <2>1. ASSUME ~b PROVE Joins(r.hist, d)
    <3>1. rest = all
      BY <1>4, <1>14
    <3>2. EndsInUnit(r.hist) => o.offset + Len(c) > 0
      BY <1>1, <1>3, <1>6, <2>1
    <3> QED BY <1>3, <1>7, <2>1, <3>1, <3>2 DEF Joins
  <2>2. Fits(done)
    BY <1>11, <1>12, <1>13, <2>1 DEF Fits, Loose, Typed
  <2>3. q.blind = done.blind
    BY <1>14, <2>2, FlushesFit
  <2>4. ~b => ~r.blind
    BY DEF b
  <2> QED BY <1>11, <1>14, <2>2, <2>3, <2>4, FlushesFit
<1>15. CASE lines # <<>> /\ q \in R!Flushes(R!Said([done EXCEPT !.gens = g], lines))
  <2> DEFINE x == [done EXCEPT !.gens = g]
             h == r.hist \o lines
             gg == R!Appended(g, r.hist, lines)
             y == R!Said(x, lines)
  <2>1. x.hist = r.hist /\ x.gens = g /\ x \in Polling(g) /\ x.st = d /\ x.blind = b
    BY <1>11 DEF Polling
  <2>2. y = [x EXCEPT !.hist = h, !.gens = gg]
    BY <2>1 DEF R!Said
  <2>3. h \in Seq(Entries)
    BY <1>1, <1>4, ConcatProperties DEF Entries
  <2>4. ASSUME ~b PROVE Honest(h) /\ EndOf(h) = EndOf(lines)
    <3>1. Running(lines) /\ (EndsInUnit(r.hist) => lines[1] = EndOf(r.hist) + 1)
      BY <1>3, <1>4, <1>15, <2>4
    <3>2. /\ Honest(h)
          /\ lines # <<>> => EndsInUnit(h) /\ EndOf(h) = EndOf(lines)
      BY <1>1, <1>4, <1>12, <2>4, <3>1, SaidHonest
    <3> QED BY <1>15, <3>2
  <2>5. ASSUME ~b PROVE Joins(h, d)
    <3>1. o.offset + Len(c) > 0
      BY <1>1, <1>3, <1>4, <1>6, <1>15, <2>5
    <3>2. rest # <<>> => rest[1] = EndOf(h) + 1
      BY <1>3, <1>4, <1>15, <2>4, <2>5
    <3>3. e = src.epoch /\ rest = <<>> => EndOf(h) = src.data[o.offset + Len(c)]
      BY <1>3, <1>4, <1>15, <2>4, <2>5, <3>1
    <3> QED BY <1>7, <3>1, <3>2, <3>3 DEF Joins
  <2> HIDE DEF x, h, gg
  <2>6. y \in Polling(gg) /\ y.hist = h /\ y.st = d /\ y.blind = b /\ y.gens = gg
    BY <2>1, <2>2, <2>3 DEF Polling
  <2> HIDE DEF y
  <2>7. Fits(y)
    BY <1>13, <2>4, <2>5, <2>6 DEF Fits, Loose, Typed
  <2>8. q \in R!Flushes(y)
    BY <1>15 DEF y, x
  <2>9. ~b => ~r.blind
    BY DEF b
  <2> QED BY <2>6, <2>7, <2>8, <2>9, FlushesFit
<1>16. CASE /\ lines # <<>>
            /\ q = [R!Marked([kept EXCEPT !.gens = g]) EXCEPT !.ok = FALSE,
                      !.blind = @ \/ r.st.pending # <<>> \/ rest # <<>>]
  <2> DEFINE x == [kept EXCEPT !.gens = g]
             m == R!Marked(x)
             bb == m.blind \/ o.pending # <<>> \/ rest # <<>>
  <2>1. x.hist = r.hist /\ x.gens = g /\ x \in Polling(g) /\ x.st = k /\ x.blind = b
    BY <1>9 DEF Polling
  <2>2. Typed(x)
    BY <2>1 DEF Typed
  <2>3. q = [m EXCEPT !.ok = FALSE, !.blind = bb]
    BY <1>16 DEF o
  <2> HIDE DEF x
  <2>4. /\ Typed(m) /\ m.st = x.st /\ m.blind = x.blind
        /\ ~EndsInUnit(m.hist) /\ (Honest(x.hist) => Honest(m.hist))
    BY <2>2, MarkedIs
  <2> HIDE DEF m, bb
  <2>5. bb \in BOOLEAN
    BY <2>4 DEF bb, Typed, Polling
  <2>6. Typed(q) /\ q.st = k /\ q.hist = m.hist /\ q.blind = bb
    BY <2>1, <2>3, <2>4, <2>5 DEF Typed, Polling
  <2>7. ASSUME ~bb PROVE Honest(m.hist) /\ Follows(k) /\ Joins(m.hist, k)
    <3>1. ~b /\ o.pending = <<>> /\ rest = <<>>
      BY <2>1, <2>4, <2>7 DEF bb
    <3>2. Running(rest)
      BY <3>1 DEF Running
    <3>3. e <= src.epoch
      BY <1>3, <3>1
    <3>4. e = src.epoch /\ o.offset > 0 => o.offset <= Len(src.data)
      <4>1. CASE c = <<>>
        <5>1. e = o.epoch
          BY <4>1 DEF e
        <5>2. Follows(o)
          BY <3>1 DEF b, Fits, Loose, o
        <5> QED BY <5>1, <5>2 DEF Follows
      <4>2. CASE c # <<>>
        <5>1. o.offset + 1 <= n /\ n <= Len(src.data) /\ n \in Nat /\ Len(src.data) \in Nat /\ o.offset \in Nat
          BY <1>1, <1>2, <4>2
        <5> QED BY <5>1
      <4> QED BY <4>1, <4>2
    <3>5. Follows(k)
      BY <1>7, <3>1, <3>2, <3>3, <3>4 DEF Follows
    <3>6. Honest(m.hist)
      BY <1>12, <2>1, <2>4, <3>1
    <3>7. Joins(m.hist, k)
      BY <2>4 DEF Joins
    <3> QED BY <3>5, <3>6, <3>7
  <2>8. ~bb => ~r.blind
    BY <2>1, <2>4 DEF bb, b
  <2> QED BY <2>6, <2>7, <2>8 DEF Fits, Loose
<1> QED BY <1>5, <1>14, <1>15, <1>16

LEMMA PresentFits ==
    ASSUME NEW r, Fits(r), SourceFits, NEW id \in Nat, NEW size \in Nat, NEW q \in R!Present(r, id, size)
    PROVE  Fits(q) /\ (~q.blind => ~r.blind)
<1> DEFINE s == R!Truncated(R!Replaced(R!Returned(r), id), size)
<1>1. Fits(s) /\ s.blind = r.blind
  BY ReturnedFits, ReplacedFits, TruncatedFits
<1>2. \/ size <= s.st.offset /\ q \in R!Flushes(s)
      \/ ~(size <= s.st.offset) /\ q \in R!Reads(s, size)
      \/ q = [s EXCEPT !.ok = FALSE]
      \/ q = s
  BY DEF R!Present
<1> HIDE DEF s
<1>3. CASE q = [s EXCEPT !.ok = FALSE]
  <2>1. Typed(q) /\ q.st = s.st /\ q.hist = s.hist /\ q.blind = s.blind
    BY <1>1, <1>3 DEF Fits, Loose, Typed, Polling
  <2> QED BY <1>1, <2>1 DEF Fits, Loose
<1>4. CASE ~(size <= s.st.offset) /\ q \in R!Reads(s, size)
  <2>1. s.st \in States
    BY <1>1, StateIs DEF Fits, Loose
  <2>2. s.st.offset \in Nat
    BY <2>1 DEF States
  <2>3. size > s.st.offset
    BY <1>4, <2>2
  <2> QED BY <1>1, <1>4, <2>3, ReadsFit
<1> QED BY <1>1, <1>2, <1>3, <1>4, FlushesFit

LEMMA PollsFit ==
    ASSUME NEW r, Fits(r), SourceFits,
           NEW p \in [kind : {"OK", "MISSING", "DENIED", "UNSAFE_OBJECT"}, id : Nat, size : Nat],
           NEW q \in R!Polls(r, p)
    PROVE  Fits(q) /\ (~q.blind => ~r.blind)
<1>1. CASE p.kind = "OK"
  <2>1. q \in R!Present(r, p.id, p.size)
    BY <1>1 DEF R!Polls
  <2> QED BY <2>1, PresentFits
<1>2. CASE p.kind = "MISSING"
  <2>1. q \in R!Absent(r)
    BY <1>2 DEF R!Polls
  <2> QED BY <2>1, AbsentFits
<1>3. CASE p.kind = "DENIED"
  BY <1>3 DEF R!Polls
<1>4. CASE p.kind = "UNSAFE_OBJECT"
  <2> DEFINE a == R!Marked(r)
  <2>1. q = r \/ q = [a EXCEPT !.st.unsafe = TRUE]
    BY <1>4 DEF R!Polls
  <2>2. CASE q = [a EXCEPT !.st.unsafe = TRUE]
    <3>1. Fits(a) /\ a.blind = r.blind /\ Typed(a)
      BY MarkedFits DEF Fits, Loose
    <3>2. q = [a EXCEPT !.st = [a.st EXCEPT !.unsafe = TRUE]]
      BY <2>2
    <3> HIDE DEF a
    <3>3. a.st \in States
      BY <3>1, StateIs
    <3> DEFINE o == a.st
               st == [o EXCEPT !.unsafe = TRUE]
    <3>4. q = [a EXCEPT !.st = st] /\ o \in States
      BY <3>2, <3>3
    <3>5. st \in States /\ st.offset = o.offset /\ st.pending = o.pending /\ st.epoch = o.epoch
      <4> HIDE DEF o
      <4> QED BY <3>4 DEF States
    <3> HIDE DEF st
    <3> QED BY <3>1, <3>4, <3>5, FlagsFit DEF o
  <2> QED BY <2>1, <2>2
<1> QED BY <1>1, <1>2, <1>3, <1>4

Probes == [kind : {"OK", "MISSING", "DENIED", "UNSAFE_OBJECT"}, id : Nat, size : Nat]
Sources == [kind : {"OK", "MISSING", "DENIED", "UNSAFE_OBJECT"}, id : Nat, epoch : Nat, data : Seq(R!Unit)]
Quiet == [at : {"lease", "probe", "save"}, st : States, once : BOOLEAN]
Probing == [at : {"poll"}, st : States, once : BOOLEAN, probe : Probes]

Published == hist \in Seq(Entries) /\ blind \in BOOLEAN /\ (~blind => Honest(hist))
\* What is saved can be gone on with without a word, unless more was published since.
SavedFits ==
    /\ disk \in States /\ unsaved \in BOOLEAN
    /\ ~blind => Follows(disk) /\ (~unsaved => Joins(hist, disk))
RunnerFits ==
    /\ runner \in {R!Off} \cup Quiet \cup Probing
    /\ runner.at # "off" /\ ~blind => Follows(runner.st) /\ Joins(hist, runner.st)

LogInv == src \in Sources /\ SourceFits /\ Published /\ SavedFits /\ RunnerFits

LEMMA RunnerIs ==
    ASSUME RunnerFits
    PROVE  /\ runner.at \in {"lease", "probe", "save"} => runner \in Quiet
           /\ runner.at = "poll" => runner \in Probing
           /\ runner.at # "off" => runner.st \in States
<1>1. R!Off.at = "off"
  BY DEF R!Off
<1>2. \A x \in Quiet : x.at \in {"lease", "probe", "save"} /\ x.st \in States
  BY DEF Quiet
<1>3. \A x \in Probing : x.at = "poll" /\ x.st \in States
  BY DEF Probing
<1>4. runner = R!Off \/ runner \in Quiet \/ runner \in Probing
  BY DEF RunnerFits
<1> QED BY <1>1, <1>2, <1>3, <1>4

LEMMA FreshFits == SourceFits => R!Fresh \in States /\ R!Fresh.offset = 0 /\ R!Fresh.pending = <<>> /\ Follows(R!Fresh)
<1> SUFFICES ASSUME SourceFits PROVE R!Fresh \in States /\ R!Fresh.offset = 0 /\ R!Fresh.pending = <<>> /\ Follows(R!Fresh)
  OBVIOUS
<1>1. <<>> \in Seq(R!Unit) /\ Running(<<>>)
  BY DEF Running
<1>2. R!Fresh \in States /\ R!Fresh.offset = 0 /\ R!Fresh.pending = <<>> /\ R!Fresh.epoch = 0
  BY <1>1 DEF R!Fresh, R!NoId, States
<1>3. 0 <= src.epoch
  BY DEF SourceFits
<1> QED BY <1>1, <1>2, <1>3 DEF Follows

LEMMA LogInitial == R!Init => LogInv
<1> SUFFICES ASSUME R!Init PROVE LogInv
  OBVIOUS
<1>1. <<>> \in Seq(R!Unit) /\ <<>> \in Seq(Entries) /\ Running(<<>>) /\ Honest(<<>>)
  BY DEF Running, Honest
<1>2. src \in Sources /\ src.epoch = 1 /\ src.data = <<>> /\ src.id = 1
  BY <1>1 DEF R!Init, Sources
<1>3. SourceFits
  BY <1>1, <1>2 DEF R!Init, SourceFits
<1>4. Published
  BY <1>1 DEF R!Init, Published
<1>5. SavedFits
  <2>1. ~EndsInUnit(hist)
    BY DEF R!Init, EndsInUnit
  <2> QED BY <1>3, <2>1, FreshFits DEF R!Init, SavedFits, Joins
<1>6. RunnerFits
  BY DEF R!Init, RunnerFits, R!Off
<1> QED BY <1>2, <1>3, <1>4, <1>5, <1>6 DEF LogInv

\* What the owner does keeps what was said of a state.
LEMMA SourceMoves ==
    ASSUME SourceFits, SourceFits',
           \/ src'.epoch = src.epoch /\ src'.data = src.data
           \/ src'.epoch > src.epoch
           \/ src'.epoch = src.epoch /\ \E u \in R!Unit : src'.data = Append(src.data, u)
    PROVE  /\ \A st \in States : Follows(st) => Follows(st)'
           /\ \A st \in States, h \in Seq(Entries) : Follows(st) /\ Joins(h, st) => Joins(h, st)'
<1>1. /\ src.data \in Seq(R!Unit) /\ src.epoch \in Nat /\ src'.epoch \in Nat /\ src.epoch <= src'.epoch
      /\ Len(src.data) \in Nat
      /\ src'.epoch # src.epoch \/
           /\ Len(src'.data) \in Nat /\ Len(src.data) <= Len(src'.data)
           /\ \A i \in 1..Len(src.data) : src'.data[i] = src.data[i]
  <2>1. src.data \in Seq(R!Unit) /\ src.epoch \in Nat /\ src'.epoch \in Nat
    BY DEF SourceFits
  <2>2. ASSUME NEW u \in R!Unit, src'.data = Append(src.data, u)
        PROVE  /\ Len(src'.data) \in Nat /\ Len(src.data) <= Len(src'.data)
               /\ \A i \in 1..Len(src.data) : src'.data[i] = src.data[i]
    BY <2>1, <2>2
  <2>3. Len(src.data) \in Nat
    BY <2>1
  <2> QED BY <2>1, <2>2, <2>3
<1>2. ASSUME NEW st \in States, Follows(st) PROVE Follows(st)'
  <2>1. st.epoch \in Nat /\ st.offset \in Nat
    BY DEF States
  <2>2. st.epoch <= src'.epoch
    BY <1>1, <1>2, <2>1 DEF Follows
  <2>3. ASSUME st.epoch = src'.epoch, st.offset > 0
        PROVE  /\ st.offset <= Len(src'.data)
               /\ st.pending # <<>> => EndOf(st.pending) = src'.data[st.offset]
    <3>1. st.epoch = src.epoch /\ src'.epoch = src.epoch
      BY <1>1, <1>2, <2>1, <2>3 DEF Follows
    <3>2. st.offset <= Len(src.data) /\ st.offset \in 1..Len(src.data)
      BY <1>1, <1>2, <2>1, <2>3, <3>1 DEF Follows
    <3>3. st.offset <= Len(src'.data)
      BY <1>1, <2>1, <3>1, <3>2
    <3>4. src'.data[st.offset] = src.data[st.offset]
      BY <1>1, <3>1, <3>2
    <3> QED BY <1>2, <2>3, <3>1, <3>3, <3>4 DEF Follows
  <2> QED BY <1>2, <2>2, <2>3 DEF Follows
<1>3. ASSUME NEW st \in States, NEW h \in Seq(Entries), Follows(st), Joins(h, st) PROVE Joins(h, st)'
  <2> SUFFICES ASSUME EndsInUnit(h), st.epoch = src'.epoch, st.pending = <<>>
               PROVE  EndOf(h) = src'.data[st.offset]
    BY <1>3 DEF Joins
  <2>1. st.epoch \in Nat /\ st.offset \in Nat
    BY DEF States
  <2>2. st.offset > 0
    BY <1>3 DEF Joins
  <2>3. st.epoch = src.epoch /\ src'.epoch = src.epoch
    BY <1>1, <1>3, <2>1 DEF Follows
  <2>4. st.offset \in 1..Len(src.data)
    BY <1>1, <1>3, <2>1, <2>2, <2>3 DEF Follows
  <2>5. src'.data[st.offset] = src.data[st.offset]
    BY <1>1, <2>3, <2>4
  <2> QED BY <1>3, <2>3, <2>5 DEF Joins
<1> QED BY <1>2, <1>3

\* The owner's steps touch nothing of the relay.
LEMMA OwnerKeeps ==
    ASSUME LogInv, SourceFits', src' \in Sources, UNCHANGED <<hist, unsaved, disk, runner, blind>>,
           \/ src'.epoch = src.epoch /\ src'.data = src.data
           \/ src'.epoch > src.epoch
           \/ src'.epoch = src.epoch /\ \E u \in R!Unit : src'.data = Append(src.data, u)
    PROVE  LogInv'
<1>1. /\ \A st \in States : Follows(st) => Follows(st)'
      /\ \A st \in States, h \in Seq(Entries) : Follows(st) /\ Joins(h, st) => Joins(h, st)'
  BY SourceMoves DEF LogInv
<1>2. Published'
  BY DEF LogInv, Published
<1>3. SavedFits'
  <2>1. PICK d \in States : d = disk
    BY DEF LogInv, SavedFits
  <2>2. PICK h \in Seq(Entries) : h = hist
    BY DEF LogInv, Published
  <2>3. ~blind => Follows(d) /\ (~unsaved => Joins(h, d))
    BY <2>1, <2>2 DEF LogInv, SavedFits
  <2>4. ~blind => Follows(d)' /\ (~unsaved => Joins(h, d)')
    BY <1>1, <2>3
  <2>5. disk' = d /\ hist' = h
    BY <2>1, <2>2
  <2> QED BY <2>4, <2>5 DEF LogInv, SavedFits
<1>4. RunnerFits'
  <2>1. CASE runner.at = "off"
    BY <2>1 DEF LogInv, RunnerFits
  <2>2. CASE runner.at # "off"
    <3>1. PICK d \in States : d = runner.st
      BY <2>2, RunnerIs DEF LogInv
    <3>2. PICK h \in Seq(Entries) : h = hist
      BY DEF LogInv, Published
    <3>3. ~blind => Follows(d) /\ Joins(h, d)
      BY <2>2, <3>1, <3>2 DEF LogInv, RunnerFits
    <3>4. ~blind => Follows(d)' /\ Joins(h, d)'
      BY <1>1, <3>3
    <3>5. runner'.st = d /\ hist' = h
      BY <3>1, <3>2
    <3> QED BY <3>4, <3>5 DEF LogInv, RunnerFits
  <2> QED BY <2>1, <2>2
<1> QED BY <1>2, <1>3, <1>4 DEF LogInv

LEMMA WriteKeeps ==
    ASSUME LogInv, R!Write
    PROVE  LogInv'
<1>1. /\ src \in Sources /\ src.data \in Seq(R!Unit) /\ Running(src.data) /\ units \in Nat
      /\ src.data # <<>> => EndOf(src.data) = units
  BY DEF LogInv, SourceFits
<1>2. units + 1 \in R!Unit /\ units' = units + 1
  BY <1>1, ToolConstants DEF R!Write, R!Unit
<1>3. src' = [src EXCEPT !.data = Append(src.data, units + 1)]
  BY DEF R!Write
<1> DEFINE a == Append(src.data, units + 1)
<1>4. a \in Seq(R!Unit)
  BY <1>1, <1>2
<1>5. Running(a) /\ EndOf(a) = units + 1
  <2>1. /\ Len(a) = Len(src.data) + 1 /\ Len(src.data) \in Nat /\ a[Len(src.data) + 1] = units + 1
        /\ \A i \in 1..Len(src.data) : a[i] = src.data[i]
    BY <1>1
  <2> HIDE DEF a
  <2>2. ASSUME NEW i \in 1..(Len(a) - 1) PROVE a[i + 1] = a[i] + 1
    <3>1. CASE i = Len(src.data)
      <4>1. src.data # <<>> /\ src.data[i] = units
        BY <1>1, <3>1, <2>1, <2>2 DEF EndOf
      <4> QED BY <2>1, <2>2, <3>1, <4>1
    <3>2. CASE i # Len(src.data)
      <4>1. i \in 1..(Len(src.data) - 1) /\ i \in 1..Len(src.data) /\ i + 1 \in 1..Len(src.data)
        BY <2>1, <2>2, <3>2
      <4> QED BY <1>1, <2>1, <4>1 DEF Running
    <3> QED BY <3>1, <3>2
  <2> QED BY <2>1, <2>2 DEF Running, EndOf
<1> HIDE DEF a
<1>6. src' = [src EXCEPT !.data = a]
  BY <1>3 DEF a
<1>7. src' \in Sources /\ src'.data = a /\ src'.epoch = src.epoch /\ src'.id = src.id
  BY <1>1, <1>4, <1>6 DEF Sources
<1>8. SourceFits'
  BY <1>1, <1>2, <1>4, <1>5, <1>7 DEF LogInv, SourceFits
<1>9. \E u \in R!Unit : src'.data = Append(src.data, u)
  BY <1>2, <1>7 DEF a
<1>10. UNCHANGED <<hist, unsaved, disk, runner, blind>>
  BY DEF R!Write
<1> QED BY <1>7, <1>8, <1>9, <1>10, OwnerKeeps

LEMMA ChangeKeeps ==
    ASSUME LogInv, R!Change
    PROVE  LogInv'
<1>1. src \in Sources /\ src.epoch \in Nat /\ src.id \in Nat /\ SourceFits
  BY DEF LogInv, SourceFits
<1>2. UNCHANGED <<hist, unsaved, disk, runner, blind, units>>
  BY DEF R!Change
<1>3. <<>> \in Seq(R!Unit) /\ Running(<<>>)
  BY DEF Running
<1>4. \/ src' = [src EXCEPT !.data = <<>>, !.epoch = src.epoch + 1]
      \/ src' = [kind |-> "OK", id |-> src.epoch + 1, epoch |-> src.epoch + 1, data |-> <<>>]
      \/ \E k \in {"MISSING", "DENIED", "UNSAFE_OBJECT", "OK"} : src' = [src EXCEPT !.kind = k]
  BY DEF R!Change
<1>5. src' \in Sources /\
      (\/ src'.epoch = src.epoch + 1 /\ src'.data = <<>>
       \/ src'.epoch = src.epoch /\ src'.data = src.data)
  <2>1. ASSUME src' = [src EXCEPT !.data = <<>>, !.epoch = src.epoch + 1]
        PROVE  src' \in Sources /\ src'.epoch = src.epoch + 1 /\ src'.data = <<>>
    <3>1. PICK e \in Nat : e = src.epoch + 1
      BY <1>1
    <3>2. src' = [src EXCEPT !.data = <<>>, !.epoch = e]
      BY <2>1, <3>1
    <3> QED BY <1>1, <1>3, <3>1, <3>2 DEF Sources
  <2>2. CASE src' = [kind |-> "OK", id |-> src.epoch + 1, epoch |-> src.epoch + 1, data |-> <<>>]
    BY <1>1, <1>3, <2>2 DEF Sources
  <2>3. ASSUME NEW k \in {"MISSING", "DENIED", "UNSAFE_OBJECT", "OK"}, src' = [src EXCEPT !.kind = k]
        PROVE  src' \in Sources /\ src'.epoch = src.epoch /\ src'.data = src.data
    BY <1>1, <2>3 DEF Sources
  <2> QED BY <1>4, <2>1, <2>2, <2>3
<1>6. src'.id \in Nat /\ src'.epoch \in Nat /\ src'.data \in Seq(R!Unit)
  BY <1>5 DEF Sources
<1>7. SourceFits'
  BY <1>1, <1>2, <1>3, <1>5, <1>6 DEF SourceFits
<1>8. src'.epoch > src.epoch \/ (src'.epoch = src.epoch /\ src'.data = src.data)
  <2>1. src'.epoch = src.epoch + 1 => src'.epoch > src.epoch
    BY <1>1, <1>6
  <2>2. src'.epoch = src.epoch + 1 \/ (src'.epoch = src.epoch /\ src'.data = src.data)
    BY <1>5
  <2> HIDE DEF Sources
  <2> QED BY <2>1, <2>2
<1> QED BY <1>2, <1>5, <1>7, <1>8, OwnerKeeps

LEMMA Unmoved ==
    ASSUME src' = src
    PROVE  /\ \A st \in States : Follows(st) => Follows(st)'
           /\ \A st \in States, h \in Seq(Entries) : Joins(h, st) => Joins(h, st)'
  BY DEF Follows, Joins

\* It is enough to look at what the step publishes, saves and goes on with.
LEMMA RelayKeeps ==
    ASSUME LogInv, UNCHANGED <<src, units>>, Published', NEW d \in States, disk' = d, unsaved' \in BOOLEAN,
           ~blind' => Follows(d) /\ (~unsaved' => Joins(hist', d)),
           runner' \in {R!Off} \cup Quiet \cup Probing,
           runner'.at # "off" => \E st \in States : runner'.st = st /\ (~blind' => Follows(st) /\ Joins(hist', st))
    PROVE  LogInv'
<1>1. src' \in Sources /\ SourceFits'
  BY DEF LogInv, SourceFits
<1>2. SavedFits'
  <2>1. PICK h \in Seq(Entries) : h = hist'
    BY Published' DEF Published
  <2>2. ~blind' => Follows(d)' /\ (~unsaved' => Joins(h, d)')
    BY <2>1, Unmoved
  <2> QED BY <2>1, <2>2 DEF SavedFits
<1>3. RunnerFits'
  <2>1. ASSUME runner'.at # "off" PROVE ~blind' => Follows(runner.st)' /\ Joins(hist, runner.st)'
    <3>1. PICK st \in States : /\ runner'.st = st
                               /\ ~blind' => Follows(st) /\ Joins(hist', st)
      BY <2>1
    <3>2. PICK h \in Seq(Entries) : h = hist'
      BY Published' DEF Published
    <3>3. ~blind' => Follows(st)' /\ Joins(h, st)'
      BY <3>1, <3>2, Unmoved
    <3> QED BY <3>1, <3>2, <3>3
  <2> QED BY <2>1 DEF RunnerFits
<1> QED BY <1>1, <1>2, <1>3 DEF LogInv

\* A marker published on its own.
LEMMA MarkKeeps ==
    ASSUME Published, NEW e \in Entries, e \notin R!Unit, hist' = Append(hist, e), blind' = blind
    PROVE  Published' /\ \A st \in States : Joins(hist', st)
<1>1. hist' \in Seq(Entries) /\ ~EndsInUnit(hist') /\ (Honest(hist) => Honest(hist'))
  BY MarkedHonest DEF Published
<1>2. Published'
  BY <1>1 DEF Published
<1>3. \A st \in States : Joins(hist', st)
  BY <1>1 DEF Joins
<1> QED BY <1>2, <1>3

LEMMA CheckKeeps ==
    ASSUME LogInv, R!CheckLease
    PROVE  LogInv'
<1>1. /\ runner \in Quiet /\ runner.at # "off" /\ Published
      /\ ~blind => Follows(runner.st) /\ Joins(hist, runner.st)
  BY RunnerIs DEF LogInv, RunnerFits, R!CheckLease
<1>2. UNCHANGED <<src, units, blind>>
  BY DEF R!CheckLease, R!worldVars
<1>3. CASE lease.revoked \/ lease.expired
  <2>1. hist' = Append(hist, R!Gap) /\ disk' = runner.st /\ runner' = R!Off /\ unsaved' = FALSE
    BY <1>3 DEF R!CheckLease, R!Mark
  <2>2. Published' /\ \A st \in States : Joins(hist', st)
    BY <1>1, <1>2, <2>1, MarkKeeps, GapIsNoUnit
  <2>3. PICK d \in States : d = runner.st
    BY <1>1 DEF Quiet
  <2>4. runner'.at = "off" /\ disk' = d
    BY <2>1, <2>3 DEF R!Off
  <2>5. ~blind' => Follows(d)
    BY <1>1, <1>2, <2>3
  <2> QED BY <1>2, <2>1, <2>2, <2>4, <2>5, RelayKeeps
<1>4. CASE ~(lease.revoked \/ lease.expired)
  <2>1. runner' = [runner EXCEPT !.at = "probe"] /\ UNCHANGED <<hist, unsaved, disk>>
    BY <1>4 DEF R!CheckLease
  <2>2. runner' \in Quiet /\ runner'.st = runner.st /\ runner.st \in States
    BY <1>1, <2>1 DEF Quiet
  <2>3. PICK d \in States : d = disk /\ (~blind => Follows(d) /\ (~unsaved => Joins(hist, d)))
    BY DEF LogInv, SavedFits
  <2>4. Published' /\ unsaved' \in BOOLEAN
    BY <1>1, <1>2, <2>1 DEF Published, LogInv, SavedFits
  <2>5. ~blind' => Follows(d) /\ (~unsaved' => Joins(hist', d))
    BY <1>2, <2>1, <2>3
  <2>6. \E st \in States : runner'.st = st /\ (~blind' => Follows(st) /\ Joins(hist', st))
    BY <1>1, <1>2, <2>1, <2>2
  <2> QED BY <1>2, <2>1, <2>2, <2>3, <2>4, <2>5, <2>6, RelayKeeps
<1> QED BY <1>3, <1>4

\* What the runner goes on with, the copy, the markers and the saved state as they were.
LEMMA WalkKeeps ==
    ASSUME LogInv, UNCHANGED <<src, units, hist, blind>>, runner.at # "off",
           (disk' = disk /\ unsaved' = unsaved) \/ (disk' = runner.st /\ unsaved' = FALSE),
           runner' = R!Off \/ (runner' \in Quiet \cup Probing /\ runner'.st = runner.st)
    PROVE  LogInv'
<1>1. /\ runner.st \in States /\ Published
      /\ ~blind => Follows(runner.st) /\ Joins(hist, runner.st)
  BY RunnerIs DEF LogInv, RunnerFits
<1>2. Published'
  BY <1>1 DEF Published
<1>3. PICK d \in States : d = disk' /\ (~blind => Follows(d) /\ (~unsaved' => Joins(hist, d)))
  BY <1>1 DEF LogInv, SavedFits
<1>6. unsaved' \in BOOLEAN
  BY DEF LogInv, SavedFits
<1>4. runner'.at # "off" => \E st \in States : runner'.st = st /\ (~blind' => Follows(st) /\ Joins(hist', st))
  <2>1. R!Off.at = "off"
    BY DEF R!Off
  <2> QED BY <1>1, <2>1
<1>5. ~blind' => Follows(d) /\ (~unsaved' => Joins(hist', d))
  BY <1>3
<1> QED BY <1>2, <1>3, <1>4, <1>5, <1>6, RelayKeeps

LEMMA ProbeKeeps ==
    ASSUME LogInv, R!Probe
    PROVE  LogInv'
<1>1. runner \in Quiet /\ runner.at # "off" /\ src \in Sources
  BY RunnerIs DEF LogInv, R!Probe
<1>2. UNCHANGED <<src, units, hist, unsaved, blind, disk>>
  BY DEF R!Probe, R!worldVars
<1> DEFINE p == [kind |-> src.kind, id |-> src.id, size |-> Len(src.data)]
<1>3. p \in Probes
  <2>1. Len(src.data) \in Nat
    BY <1>1 DEF Sources
  <2> QED BY <1>1, <2>1 DEF Sources, Probes
<1>4. runner' = [at |-> "poll", st |-> runner.st, once |-> runner.once, probe |-> p]
  BY DEF R!Probe
<1> HIDE DEF p
<1>5. runner' \in Probing /\ runner'.st = runner.st
  BY <1>1, <1>3, <1>4 DEF Quiet, Probing
<1> QED BY <1>1, <1>2, <1>5, WalkKeeps

LEMMA SaveKeeps ==
    ASSUME LogInv, R!Save
    PROVE  LogInv'
<1>1. runner \in Quiet /\ runner.at # "off"
  BY RunnerIs DEF LogInv, R!Save
<1>2. UNCHANGED <<src, units, hist, blind>> /\ disk' = runner.st /\ unsaved' = FALSE
  BY DEF R!Save, R!worldVars
<1>3. runner' = R!Off \/ runner' = [runner EXCEPT !.at = "lease"]
  BY DEF R!Save
<1>4. runner' = R!Off \/ (runner' \in Quiet /\ runner'.st = runner.st)
  BY <1>1, <1>3 DEF Quiet
<1> QED BY <1>1, <1>2, <1>4, WalkKeeps

LEMMA PollKeeps ==
    ASSUME LogInv, R!Poll
    PROVE  LogInv'
<1> DEFINE x == [st |-> runner.st, hist |-> hist, gens |-> staged, ok |-> TRUE, blind |-> blind]
<1>1. /\ runner \in Probing /\ runner.at # "off" /\ SourceFits /\ Published
      /\ ~blind => Follows(runner.st) /\ Joins(hist, runner.st)
  BY RunnerIs DEF LogInv, RunnerFits, R!Poll
<1>2. runner.st \in States /\ runner.probe \in Probes /\ runner.once \in BOOLEAN
  BY <1>1 DEF Probing
<1>3. x \in Polling(staged) /\ x.gens = staged /\ x.st = runner.st /\ x.hist = hist /\ x.blind = blind
  BY <1>1, <1>2 DEF Polling, Published
<1>4. PICK r \in R!Polls(x, runner.probe) :
        /\ hist' = r.hist /\ blind' = r.blind
        /\ runner' = IF r.ok THEN [at |-> "save", st |-> r.st, once |-> runner.once] ELSE R!Off
        /\ disk' = IF r.ok \/ runner.once THEN disk ELSE r.st
        /\ unsaved' = IF r.ok \/ runner.once THEN unsaved \/ hist' # hist ELSE FALSE
  BY DEF R!Poll
<1>5. UNCHANGED <<src, units>>
  BY DEF R!Poll, R!worldVars
<1> HIDE DEF x
<1>6. Fits(x)
  BY <1>1, <1>3 DEF Fits, Loose, Typed, Published
<1>7. Fits(r) /\ (~r.blind => ~x.blind)
  BY <1>1, <1>2, <1>4, <1>6, PollsFit DEF Probes
<1>8. r.st \in States /\ r.hist \in Seq(Entries) /\ r.blind \in BOOLEAN /\ r.ok \in BOOLEAN
  BY <1>7 DEF Fits, Loose, Typed, Polling
<1>9. ~r.blind => Honest(r.hist) /\ Follows(r.st) /\ Joins(r.hist, r.st)
  BY <1>7 DEF Fits, Loose
<1>10. Published'
  BY <1>4, <1>8, <1>9 DEF Published
<1>14. disk \in States /\ unsaved \in BOOLEAN
       /\ (~blind => Follows(disk) /\ (~unsaved => Joins(hist, disk)))
  BY DEF LogInv, SavedFits
<1>11. PICK d \in States : d = disk' /\ (~blind' => Follows(d) /\ (~unsaved' => Joins(hist', d)))
  <2>1. CASE r.ok \/ runner.once
    <3>1. disk' = disk /\ (~blind' => ~blind) /\ (~unsaved' => ~unsaved /\ hist' = hist)
      BY <1>3, <1>4, <1>7, <2>1
    <3> QED BY <1>14, <3>1
  <2>2. CASE ~(r.ok \/ runner.once)
    <3>1. disk' = r.st /\ hist' = r.hist /\ blind' = r.blind
      BY <1>4, <2>2
    <3> QED BY <1>8, <1>9, <3>1
  <2> QED BY <2>1, <2>2
<1>15. unsaved' \in BOOLEAN
  BY <1>4, <1>14
<1>12. CASE r.ok
  <2>1. runner' = [at |-> "save", st |-> r.st, once |-> runner.once]
    BY <1>4, <1>12
  <2>2. runner' \in Quiet /\ runner'.st = r.st
    BY <1>2, <1>8, <2>1 DEF Quiet
  <2>3. \E st \in States : runner'.st = st /\ (~blind' => Follows(st) /\ Joins(hist', st))
    BY <1>4, <1>8, <1>9, <2>2
  <2> QED BY <1>5, <1>10, <1>11, <1>15, <2>2, <2>3, RelayKeeps
<1>13. CASE ~r.ok
  <2>1. runner' = R!Off /\ runner'.at = "off"
    BY <1>4, <1>13 DEF R!Off
  <2> QED BY <1>5, <1>10, <1>11, <1>15, <2>1, RelayKeeps
<1> QED BY <1>8, <1>12, <1>13

LEMMA CrashKeeps ==
    ASSUME LogInv, R!Crash
    PROVE  LogInv'
<1>1. UNCHANGED <<src, units, hist, unsaved, disk, blind>> /\ runner' = R!Off /\ runner # R!Off
  BY DEF R!Crash, R!worldVars
<1>2. runner.at # "off"
  BY <1>1 DEF LogInv, RunnerFits, Quiet, Probing
<1> QED BY <1>1, <1>2, WalkKeeps

LEMMA StartKeeps ==
    ASSUME LogInv, R!Start
    PROVE  LogInv'
<1>1. /\ UNCHANGED <<src, units, blind>> /\ hist' = Append(hist, R!Begin) /\ disk' = R!Fresh
      /\ runner' = [at |-> "lease", st |-> R!Fresh, once |-> FALSE] /\ unsaved' = FALSE
  BY DEF R!Start, R!worldVars
<1>2. Published' /\ \A st \in States : Joins(hist', st)
  BY <1>1, NoUnits, MarkKeeps DEF LogInv
<1>3. PICK f \in States : f = R!Fresh /\ Follows(f)
  BY FreshFits DEF LogInv
<1>4. runner' \in Quiet /\ runner'.st = f /\ disk' = f
  BY <1>1, <1>3 DEF Quiet
<1> QED BY <1>1, <1>2, <1>3, <1>4, RelayKeeps

\* A state that is taken up goes on behind a word, behind a seam, or where it was saved.
LEMMA TakeUpKeeps ==
    ASSUME LogInv, NEW at \in {"lease", "probe"}, NEW once \in BOOLEAN, R!TakesUp(at, once),
           R!Restarted \/ R!Silently
    PROVE  LogInv'
<1>1. /\ UNCHANGED <<src, units, blind, disk>> /\ unsaved' = FALSE
      /\ runner' = [at |-> at, st |-> disk, once |-> once]
  BY DEF R!TakesUp, R!worldVars
<1>2. PICK d \in States : d = disk /\ (~blind => Follows(d) /\ (~unsaved => Joins(hist, d)))
  BY DEF LogInv, SavedFits
<1>3. runner' \in Quiet /\ runner'.st = d /\ disk' = d
  BY <1>1, <1>2 DEF Quiet
<1>4. Published' /\ (~blind' => Joins(hist', d))
  <2>1. CASE hist' = Append(hist, R!Gap)
    BY <1>1, <2>1, GapIsNoUnit, MarkKeeps DEF LogInv
  <2>2. CASE hist' = Append(hist, R!Seam)
    BY <1>1, <2>2, NoUnits, MarkKeeps DEF LogInv
  <2>3. CASE hist' = hist /\ ~unsaved
    BY <1>1, <1>2, <2>3 DEF LogInv, Published
  <2> QED BY <2>1, <2>2, <2>3 DEF R!Restarted, R!Mark, R!Silently
<1>5. ~blind' => Follows(d)
  BY <1>1, <1>2
<1> QED BY <1>1, <1>2, <1>3, <1>4, <1>5, RelayKeeps

LEMMA StopKeeps ==
    ASSUME LogInv, R!Stop
    PROVE  LogInv'
<1>1. UNCHANGED <<src, units, blind, unsaved, disk, runner>> /\ hist' = Append(hist, R!Gap)
  BY DEF R!Stop, R!Mark, R!worldVars
<1>2. Published' /\ \A st \in States : Joins(hist', st)
  BY <1>1, GapIsNoUnit, MarkKeeps DEF LogInv
<1>3. PICK d \in States : d = disk' /\ (~blind' => Follows(d))
  BY <1>1 DEF LogInv, SavedFits
<1>6. unsaved' \in BOOLEAN /\ Joins(hist', d)
  BY <1>1, <1>2 DEF LogInv, SavedFits
<1>4. runner'.at # "off" => \E st \in States : runner'.st = st /\ (~blind' => Follows(st) /\ Joins(hist', st))
  BY <1>1, <1>2, RunnerIs DEF LogInv, RunnerFits
<1>5. runner' \in {R!Off} \cup Quiet \cup Probing
  BY <1>1 DEF LogInv, RunnerFits
<1> QED BY <1>1, <1>2, <1>3, <1>4, <1>5, <1>6, RelayKeeps

LEMMA RestKeeps ==
    ASSUME LogInv, UNCHANGED <<src, units, hist, unsaved, disk, runner, blind>>
    PROVE  LogInv'
<1>1. (src \in Sources)' /\ SourceFits'
  BY DEF LogInv, SourceFits
<1>2. Published'
  BY DEF LogInv, Published
<1>3. SavedFits' /\ RunnerFits'
  BY DEF LogInv, SavedFits, RunnerFits, Follows, Joins
<1> QED BY <1>1, <1>2, <1>3 DEF LogInv

LEMMA LogStep ==
    ASSUME LogInv, R!Next \/ UNCHANGED logVars
    PROVE  LogInv'
<1>1. CASE R!Write
  BY <1>1, WriteKeeps
<1>2. CASE R!Change
  BY <1>2, ChangeKeeps
<1>3. CASE R!CheckLease
  BY <1>3, CheckKeeps
<1>4. CASE R!Probe
  BY <1>4, ProbeKeeps
<1>5. CASE R!Poll
  BY <1>5, PollKeeps
<1>6. CASE R!Save
  BY <1>6, SaveKeeps
<1>7. CASE R!Crash
  BY <1>7, CrashKeeps
<1>8. CASE R!Start
  BY <1>8, StartKeeps
<1>9. CASE R!Resume \/ R!Once
  BY <1>9, TakeUpKeeps DEF R!Resume, R!Once
<1>10. CASE R!Stop
  BY <1>10, StopKeeps
<1>11. CASE R!Expire \/ UNCHANGED logVars
  <2>1. UNCHANGED <<src, units, hist, unsaved, disk, runner, blind>>
    BY <1>11 DEF R!Expire, R!worldVars, logVars
  <2> QED BY <2>1, RestKeeps
<1> QED BY <1>1, <1>2, <1>3, <1>4, <1>5, <1>6, <1>7, <1>8, <1>9, <1>10, <1>11 DEF R!Next

LEMMA LogSays == LogInv => R!NoSilentGap
  BY DEF LogInv, Published, Honest, R!NoSilentGap

-----------------------------------------------------------------------------
(* The tools together. *)

LEMMA Parts ==
    ASSUME [AllNext]_<<part, logVars, leaseVars, hookVars, mirrorVars, clipVars, streamVars>>
    PROVE  /\ R!Next \/ UNCHANGED logVars
           /\ A!LeaseNext \/ UNCHANGED leaseVars
           /\ M!MirrorNext \/ UNCHANGED mirrorVars
           /\ C!Next \/ UNCHANGED clipVars
           /\ L!StreamNext \/ UNCHANGED streamVars
  BY DEF AllNext

\* LogRelay: what stands side by side in the staged stream was written side by side,
\* through truncations, replacements, refused rotations, crashes, resumptions and single
\* cycles of the relay (accounts/sai_relay.py), for any number of each.  Excepted are the
\* place where a process silently takes up a state from before the last publication, and a
\* history with a source the relay cannot tell from the one it read (`blind`).
THEOREM NoGapIsSilent == AllSpec => []NoSilentGap
<1>1. AllInit => LogInv
  BY LogInitial DEF AllInit
<1>2. LogInv /\ [AllNext]_<<part, logVars, leaseVars, hookVars, mirrorVars, clipVars, streamVars>>
        => LogInv'
  BY LogStep, Parts
<1>3. LogInv => NoSilentGap
  BY LogSays DEF NoSilentGap
<1> QED BY <1>1, <1>2, <1>3, PTL DEF AllSpec

\* AccessLease: while no command is under way, a readable right has a lease that is not
\* revoked, however many commands of one kind ran at once and whichever of them failed or
\* were cut short - but a grant that was cut between its ACE and its lease, after which, as
\* after a grant beside a revocation, nothing is said (`calm`; accounts/sai_access.py).
THEOREM AccessStaysLeased == AllSpec => []AccessIsLeased
<1>1. AllInit => LeaseInv
  BY LeaseInitial DEF AllInit
<1>2. LeaseInv /\ [AllNext]_<<part, logVars, leaseVars, hookVars, mirrorVars, clipVars, streamVars>>
        => LeaseInv'
  BY LeaseStep, Parts
<1>3. LeaseInv => AccessIsLeased
  <2> SUFFICES ASSUME LeaseInv, calm, \A c \in Call : command[c].pc = "idle", acl \cap {"flat", "deep"} # {}
               PROVE  granted # A!NoLease /\ ~granted.revoked
    BY DEF AccessIsLeased, A!AccessIsLeased
  <2>1. Readable(acl)
    BY DEF Readable
  <2>2. ~\E c \in Call : Vouches(command[c])
    BY DEF Vouches
  <2>3. granted \in Leases /\ ~granted.revoked
    BY <2>1, <2>2 DEF LeaseInv
  <2>4. A!NoLease \notin Leases
    BY DEF A!NoLease, Leases
  <2> QED BY <2>3, <2>4
<1> QED BY <1>1, <1>2, <1>3, PTL DEF AllSpec

\* MirrorBackup: a mirror that is held for done has every file of the folder as it is,
\* whatever is edited while the monitor hashes, archives and copies, and wherever a copy is
\* cut short - but the files that `missed` names, each until its next edit: those whose copy
\* was cut or edited under, that were locked, left by a failed first round or put back old
\* (scenarios/services/backup/BACKUP.py).
THEOREM MirrorHasCaughtUp == AllSpec => []MirrorCatchesUp
<1>1. AllInit => MirrorInv
  BY MirrorInitial DEF AllInit
<1>2. MirrorInv /\ [AllNext]_<<part, logVars, leaseVars, hookVars, mirrorVars, clipVars, streamVars>>
        => MirrorInv'
  BY MirrorStep, Parts
<1>3. MirrorInv => MirrorCatchesUp
  BY DEF MirrorInv, Kept, Caught, MirrorCatchesUp, M!MirrorCatchesUp
<1> QED BY <1>1, <1>2, <1>3, PTL DEF AllSpec

\* ClipboardPlus: no file it saves is a picture it put on the clipboard itself and noted,
\* however its threads and its commands interleave, each reading the clipboard's number in
\* one step and storing it in another.  A picture that was never noted, or over whose number
\* an older one was stored, is not spoken of (saipatch/clipboard+.pyw).
THEOREM OwnStaysUnsaved == AllSpec => []OwnIsNotSaved
<1>1. AllInit => ClipInv
  BY ClipInitial DEF AllInit
<1>2. ClipInv /\ [AllNext]_<<part, logVars, leaseVars, hookVars, mirrorVars, clipVars, streamVars>>
        => ClipInv'
  BY ClipStep, Parts
<1>3. ClipInv => OwnIsNotSaved
  <2> SUFFICES ASSUME ClipInv, NEW i \in DOMAIN files PROVE files[i].data[1] # "own"
    BY DEF OwnIsNotSaved, C!OwnIsNotSaved
  <2>1. files[i] \in Stored
    BY DEF ClipInv, ClipTypes
  <2>2. files[i].data \in Images
    BY <2>1 DEF Stored
  <2> QED BY <2>2 DEF Images
<1> QED BY <1>1, <1>2, <1>3, PTL DEF AllSpec

\* LiveStream: a server never has two streams of the viewer, and a viewer that runs and
\* has an endpoint has a stream, or a reconnect is due (saipatch/queue_viewer.pyw).
THEOREM StreamStaysOne == AllSpec => []OneStream
<1>1. AllInit => StreamInv
  BY StreamInitial DEF AllInit
<1>2. StreamInv /\ [AllNext]_<<part, logVars, leaseVars, hookVars, mirrorVars, clipVars, streamVars>>
        => StreamInv'
  BY StreamStep, Parts
<1>3. StreamInv => OneStream
  <2> SUFFICES ASSUME StreamInv PROVE OneStream
    OBVIOUS
  <2> DEFINE open == {c \in DOMAIN wire : wire[c] = "open"}
  <2>1. open \subseteq {reply}
    BY DEF StreamInv
  <2>2. IsFiniteSet({reply}) /\ Cardinality({reply}) = 1
    BY FS_Singleton
  <2> HIDE DEF open
  <2>3. Cardinality(open) <= Cardinality({reply})
    BY <2>1, <2>2, FS_Subset
  <2>4. Cardinality({c \in DOMAIN wire : wire[c] = "open"}) <= 1
    BY <2>2, <2>3 DEF open
  <2>5. running /\ url # L!None => reply # 0 \/ timer
    BY DEF StreamInv
  <2>6. L!Cardinality(open) = Cardinality(open)
    BY DEF Cardinality, L!Cardinality
  <2> QED BY <2>4, <2>5, <2>6 DEF OneStream, L!OneStream, open
<1> QED BY <1>1, <1>2, <1>3, PTL DEF AllSpec
=============================================================================
