--------------------------- MODULE SaipatchProofs ---------------------------
(***************************************************************************)
(* Theorems about the message queue and the sending of a prompt            *)
(* (MCSaipatch), for every value of the constants.                         *)
(*                                                                         *)
(* MessageQueue rests on what a row that may still run carries: it has not *)
(* run, and if an edit of it was answered it has that text; and ids are    *)
(* never given twice, so what left the queue does not come back.           *)
(*                                                                         *)
(* ViewerSend rests on where the one request is: as long as somebody holds *)
(* the reservation his request is in exactly one place -- a dialog, the    *)
(* files to read, the jobs, the sender, the answers -- under his number,   *)
(* and every other place is empty.                                         *)
(***************************************************************************)
EXTENDS MCSaipatch, SequenceTheorems, TLAPS

(* The queue. *)

\* A row by its columns.
Row(r) == r \in [session : {r.session}, text : {r.text}, seq : {r.seq},
                 promoted : {r.promoted}, delivery : {r.delivery}]

\* A row that is still pending has not run, and holds what was promised of it.
Waits(i) == ran[i] = Q!Nothing /\ (promise[i] # Q!Nothing => rows[i].text = promise[i])

Queue ==
    /\ made \in 0..MaxPrompts /\ DOMAIN rows \subseteq 1..made
    /\ DOMAIN promise = Q!Id /\ DOMAIN ran = Q!Id
    /\ \A i \in DOMAIN rows : Row(rows[i])
    /\ \A i \in Q!Id : i > made => promise[i] = Q!Nothing /\ ran[i] = Q!Nothing
    /\ \A i \in DOMAIN rows : Q!Pending(rows[i]) => Waits(i)
    /\ Q!AnswerHolds

LEMMA RowSet ==
    ASSUME NEW r, Row(r), NEW x
    PROVE  /\ Row([r EXCEPT !.promoted = x]) /\ [r EXCEPT !.promoted = x].promoted = x
           /\ [r EXCEPT !.promoted = x].text = r.text
           /\ Row([r EXCEPT !.text = x]) /\ [r EXCEPT !.text = x].promoted = r.promoted
           /\ [r EXCEPT !.text = x].text = x
           /\ Row([r EXCEPT !.seq = x]) /\ [r EXCEPT !.seq = x].promoted = r.promoted
           /\ [r EXCEPT !.seq = x].text = r.text
  BY DEF Row

LEMMA RowMade ==
    ASSUME NEW s, NEW t, NEW q, NEW d
    PROVE  Row([session |-> s, text |-> t, seq |-> q, promoted |-> FALSE, delivery |-> d])
  BY DEF Row

\* Rows that go, and rows whose other columns change, break no promise.
LEMMA Fewer ==
    ASSUME Queue, made' = made, promise' = promise, ran' = ran,
           DOMAIN rows' \subseteq DOMAIN rows,
           \A i \in DOMAIN rows' : /\ Row(rows'[i]) /\ rows'[i].text = rows[i].text
                                   /\ rows'[i].promoted = rows[i].promoted
    PROVE  Queue'
  BY DEF Queue, Waits, Q!Pending, Q!AnswerHolds

LEMMA WithoutKeeps ==
    ASSUME Queue, made' = made, promise' = promise, ran' = ran, NEW ids, rows' = Q!Without(ids)
    PROVE  Queue'
  <1>1. DOMAIN rows' = DOMAIN rows \ ids /\ \A i \in DOMAIN rows' : rows'[i] = rows[i]
    BY DEF Q!Without
  <1>. QED  BY <1>1, Fewer DEF Queue

\* A row that is dropped was pending: it never ran, and never will.
LEMMA DropsKeep ==
    ASSUME Queue, made' = made, ran' = ran, NEW i, Q!Drops(i)
    PROVE  Queue'
  <1>1. CASE ~Q!CanDrop(i)
    <2>1. rows' = rows /\ promise' = promise  BY <1>1 DEF Q!Drops
    <2>. QED  BY <2>1, Fewer DEF Queue
  <1>2. CASE Q!CanDrop(i)
    <2>1. /\ DOMAIN rows' = DOMAIN rows \ {i} /\ \A j \in DOMAIN rows' : rows'[j] = rows[j]
          /\ promise' = [promise EXCEPT ![i] = Q!Dropped]
      BY <1>2 DEF Q!Drops, Q!Without
    <2>2. i \in Q!Id /\ i <= made /\ ran[i] = Q!Nothing
      BY <1>2, SaipatchConstants DEF Q!CanDrop, Queue, Waits, Q!Id
    <2>. HIDE DEF Q!CanDrop
    <2>3. \A j \in Q!Id : j # i => promise'[j] = promise[j]  BY <2>1 DEF Queue
    <2>. QED  BY <2>1, <2>2, <2>3 DEF Queue, Waits, Q!AnswerHolds, Q!Pending, Q!Id
  <1>. QED  BY <1>1, <1>2

LEMMA InsertedKeeps ==
    ASSUME Queue, made < MaxPrompts, made' = made + 1, promise' = promise, ran' = ran,
           NEW r, Row(r), r.promoted = FALSE, rows' = Q!Inserted(made + 1, r)
    PROVE  Queue'
  <1>1. /\ DOMAIN rows' = DOMAIN rows \cup {made + 1} /\ rows'[made + 1] = r
        /\ \A i \in DOMAIN rows : i # made + 1 => rows'[i] = rows[i]
    BY DEF Q!Inserted
  <1>2. made + 1 \in Q!Id /\ made \in Nat /\ made + 1 \notin DOMAIN rows
    BY SaipatchConstants DEF Queue, Q!Id
  <1>3. promise[made + 1] = Q!Nothing /\ ran[made + 1] = Q!Nothing
    BY <1>2 DEF Queue
  <1>4. made' \in 0..MaxPrompts /\ DOMAIN rows' \subseteq 1..made'
    BY <1>1, <1>2, SaipatchConstants DEF Queue
  <1>5. \A i \in DOMAIN rows' : Row(rows'[i])  BY <1>1, <1>2 DEF Queue
  <1>6. \A i \in DOMAIN rows' : Q!Pending(rows'[i]) => Waits(i)'
    BY <1>1, <1>2, <1>3 DEF Queue, Waits, Q!Pending
  <1>7. \A i \in Q!Id : i > made' => promise'[i] = Q!Nothing /\ ran'[i] = Q!Nothing
    BY <1>2, SaipatchConstants DEF Queue, Q!Id
  <1>. QED  BY <1>4, <1>5, <1>6, <1>7 DEF Queue, Q!AnswerHolds

\* A row of the swap keeps all but its number.
LEMMA RenumberedRows ==
    ASSUME NEW rs, NEW i, NEW n, \A j \in DOMAIN rs : Row(rs[j])
    PROVE  /\ DOMAIN Q!Renumbered(rs, i, n) = DOMAIN rs
           /\ \A j \in DOMAIN rs : /\ Row(Q!Renumbered(rs, i, n)[j])
                                   /\ Q!Renumbered(rs, i, n)[j].text = rs[j].text
                                   /\ Q!Renumbered(rs, i, n)[j].promoted = rs[j].promoted
  <1>1. CASE i \notin DOMAIN rs  BY <1>1 DEF Q!Renumbered
  <1>2. CASE i \in DOMAIN rs
    <2>. DEFINE r == [rs[i] EXCEPT !.seq = n]
                ren == Q!Renumbered(rs, i, n)
    <2>1. ren = [rs EXCEPT ![i] = r]
      BY <1>2 DEF Q!Renumbered
    <2>2. Row(r) /\ r.text = rs[i].text /\ r.promoted = rs[i].promoted  BY <1>2, RowSet
    <2>. HIDE DEF r, ren
    <2>3. /\ DOMAIN ren = DOMAIN rs /\ ren[i] = r
          /\ \A j \in DOMAIN rs : j # i => ren[j] = rs[j]
      BY <1>2, <2>1
    <2>4. /\ DOMAIN ren = DOMAIN rs
          /\ \A j \in DOMAIN rs : /\ Row(ren[j]) /\ ren[j].text = rs[j].text
                                  /\ ren[j].promoted = rs[j].promoted
      BY <2>2, <2>3
    <2>. QED  BY <2>4 DEF ren
  <1>. QED  BY <1>1, <1>2

LEMMA SwapKeeps ==
    ASSUME Queue, made' = made, promise' = promise, ran' = ran, NEW one, NEW two, NEW a, NEW b,
           NEW n, rows' = Q!Committed(rows, Q!Renumbered(rows, one, n),
                                Q!Renumbered(Q!Renumbered(rows, one, n), two, a),
                                Q!Renumbered(Q!Renumbered(Q!Renumbered(rows, one, n), two, a), one, b))
    PROVE  Queue'
  <1>. DEFINE parked == Q!Renumbered(rows, one, n)
              half == Q!Renumbered(parked, two, a)
              whole == Q!Renumbered(half, one, b)
              Like(rs) == /\ DOMAIN rs = DOMAIN rows
                          /\ \A j \in DOMAIN rows : /\ Row(rs[j]) /\ rs[j].text = rows[j].text
                                                    /\ rs[j].promoted = rows[j].promoted
  <1>1. rows' = rows \/ rows' = whole  BY DEF Q!Committed
  <1>2. \A j \in DOMAIN rows : Row(rows[j])  BY DEF Queue
  <1>3. Like(parked)  BY <1>2, RenumberedRows
  <1>. HIDE DEF parked
  <1>4. Like(half)  BY <1>3, RenumberedRows
  <1>. HIDE DEF half
  <1>5. Like(whole)  BY <1>4, RenumberedRows
  <1>. HIDE DEF whole
  <1>. QED  BY <1>1, <1>2, <1>5, Fewer

LEMMA PromoteKeeps ==
    ASSUME Queue, NEW i \in Q!Id, Q!Promote(i)
    PROVE  Queue'
  <1>. DEFINE r == [rows[i] EXCEPT !.promoted = TRUE]
  <1>1. /\ i \in DOMAIN rows /\ Q!Pending(rows[i]) /\ made' = made /\ promise' = promise
        /\ rows' = [rows EXCEPT ![i] = r] /\ ran' = [ran EXCEPT ![i] = rows[i].text]
    BY DEF Q!Promote
  <1>2. Row(r) /\ r.promoted = TRUE /\ r.text = rows[i].text  BY <1>1, RowSet DEF Queue
  <1>. HIDE DEF r
  <1>3. i <= made /\ Waits(i) /\ ran'[i] = rows[i].text /\ \A j \in Q!Id : j # i => ran'[j] = ran[j]
    BY <1>1 DEF Queue, Q!Id
  <1>4. /\ DOMAIN rows' = DOMAIN rows /\ rows'[i] = r
        /\ \A j \in DOMAIN rows : j # i => rows'[j] = rows[j]
    BY <1>1
  <1>5. \A j \in DOMAIN rows' : Q!Pending(rows'[j]) => Waits(j)'
    <2>. SUFFICES ASSUME NEW j \in DOMAIN rows, Q!Pending(rows'[j]) PROVE Waits(j)'
      BY <1>4
    <2>1. j # i  BY <1>2, <1>4 DEF Q!Pending
    <2>2. j \in Q!Id  BY SaipatchConstants DEF Queue, Q!Id
    <2>. QED  BY <1>1, <1>3, <1>4, <2>1, <2>2 DEF Queue, Waits, Q!Pending
  <1>6. \A j \in Q!Id : j > made' => promise'[j] = Q!Nothing /\ ran'[j] = Q!Nothing
    BY <1>1, <1>3 DEF Queue, Q!Id
  <1>7. Q!AnswerHolds'
    BY <1>1, <1>3 DEF Queue, Q!AnswerHolds, Waits
  <1>8. \A j \in DOMAIN rows' : Row(rows'[j])  BY <1>2, <1>4 DEF Queue
  <1>. QED  BY <1>1, <1>4, <1>5, <1>6, <1>7, <1>8 DEF Queue

LEMMA EditKeeps ==
    ASSUME Queue, NEW c, Q!EditWrites(c)
    PROVE  Queue'
  <1>. DEFINE i == call[c].item
              t == call[c].text
              r == [rows[i] EXCEPT !.text = t]
  <1>1. made' = made /\ ran' = ran  BY DEF Q!EditWrites
  <1>2. CASE ~Q!CanUpdate(i)
    <2>1. rows' = rows /\ promise' = promise  BY <1>2 DEF Q!EditWrites
    <2>. QED  BY <1>1, <2>1, Fewer DEF Queue
  <1>3. CASE Q!CanUpdate(i)
    <2>1. /\ i \in DOMAIN rows /\ Q!Pending(rows[i])
          /\ rows' = [rows EXCEPT ![i] = r] /\ promise' = [promise EXCEPT ![i] = t]
      BY <1>3 DEF Q!EditWrites, Q!CanUpdate
    <2>. HIDE DEF i, t
    <2>9. Row(rows[i])  BY <2>1 DEF Queue
    <2>2. Row(r) /\ r.promoted = rows[i].promoted /\ r.text = t  BY <2>9, RowSet
    <2>. HIDE DEF r
    <2>3. i \in Q!Id /\ i <= made /\ Waits(i) /\ promise'[i] = t
          /\ \A j \in Q!Id : j # i => promise'[j] = promise[j]
      BY <2>1, SaipatchConstants DEF Queue, Q!Id
    <2>4. /\ DOMAIN rows' = DOMAIN rows /\ rows'[i] = r
          /\ \A j \in DOMAIN rows : j # i => rows'[j] = rows[j]
      BY <2>1
    <2>5. \A j \in DOMAIN rows' : Q!Pending(rows'[j]) => Waits(j)'
      <3>. SUFFICES ASSUME NEW j \in DOMAIN rows, Q!Pending(rows'[j]) PROVE Waits(j)'
        BY <2>4
      <3>1. j \in Q!Id  BY SaipatchConstants DEF Queue, Q!Id
      <3>2. CASE j = i  BY <1>1, <2>2, <2>3, <2>4, <3>2 DEF Waits
      <3>3. CASE j # i  BY <1>1, <2>3, <2>4, <3>1, <3>3 DEF Queue, Waits, Q!Pending
      <3>. QED  BY <3>2, <3>3
    <2>6. \A j \in Q!Id : j > made' => promise'[j] = Q!Nothing /\ ran'[j] = Q!Nothing
      BY <1>1, <2>3, SaipatchConstants DEF Queue, Q!Id
    <2>7. Q!AnswerHolds'  BY <1>1, <2>3 DEF Queue, Q!AnswerHolds, Waits
    <2>8. \A j \in DOMAIN rows' : Row(rows'[j])  BY <2>2, <2>4 DEF Queue
    <2>. QED  BY <1>1, <2>1, <2>4, <2>6, <2>5, <2>7, <2>8 DEF Queue
  <1>. QED  BY <1>2, <1>3

LEMMA QueueNext ==
    ASSUME Queue, Q!Next
    PROVE  Queue'
  <1>. USE DEF Queue
  <1>1. ASSUME NEW s \in Chat, NEW d \in {"queue", "steer"}, Q!Admit(s, d) PROVE Queue'
    <2>. DEFINE seq == 1 + Q!Max({Q!MaxSeq(s), events[s]})
                r == [session |-> s, text |-> Q!Fresh, seq |-> seq, promoted |-> FALSE, delivery |-> d]
    <2>1. /\ made < MaxPrompts /\ made' = made + 1 /\ promise' = promise /\ ran' = ran
          /\ rows' = Q!Inserted(made + 1, r)
      BY <1>1 DEF Q!Admit
    <2>. HIDE DEF seq
    <2>2. Row(r) /\ r.promoted = FALSE  BY RowMade
    <2>. HIDE DEF r
    <2>. QED  BY <2>1, <2>2, InsertedKeeps
  <1>2. ASSUME NEW i \in Q!Id, Q!Promote(i) PROVE Queue'
    BY <1>2, PromoteKeeps
  <1>. DEFINE Reads(c) == \/ Q!MoveReads(c) \/ Q!SwapReadsFirst(c) \/ Q!SwapReadsSecond(c)
                          \/ Q!AddReadsRows(c) \/ Q!AddReadsEvents(c) \/ Q!EditReads(c)
              Looks(w) == \/ Q!Refresh(w) \/ Q!Add(w)
                          \/ \E s \in Chat \cup {Q!All} : Q!SelectChat(w, s)
                          \/ \E l \in 1..MaxPrompts : Q!SelectLine(w, l)
                          \/ \E up \in BOOLEAN : Q!Move(w, up)
                          \/ \E t \in Texts : Q!Edit(w, t)
  <1>3. ASSUME NEW c, Reads(c) \/ Looks(c) \/ Q!Command(c) PROVE Queue'
    <2>1. made' = made /\ promise' = promise /\ ran' = ran /\ rows' = rows
      BY <1>3 DEF Q!MoveReads, Q!SwapReadsFirst, Q!SwapReadsSecond, Q!AddReadsRows, Q!AddReadsEvents,
                  Q!EditReads, Q!Refresh, Q!Add, Q!SelectChat, Q!SelectLine, Q!Move, Q!Edit, Q!Command
    <2>. QED  BY <2>1, Fewer
  <1>4. ASSUME NEW c, Q!SwapWrites(c) PROVE Queue'
    <2>1. made' = made /\ promise' = promise /\ ran' = ran  BY <1>4 DEF Q!SwapWrites
    <2>. DEFINE k == call[c]
    <2>2. rows' = Q!Committed(rows, Q!Renumbered(rows, k.one, Q!Parked),
                      Q!Renumbered(Q!Renumbered(rows, k.one, Q!Parked), k.two, k.seq1),
                      Q!Renumbered(Q!Renumbered(Q!Renumbered(rows, k.one, Q!Parked), k.two, k.seq1),
                                   k.one, k.seq2))
      BY <1>4 DEF Q!SwapWrites
    <2>. QED  BY <2>1, <2>2, SwapKeeps
  <1>5. ASSUME NEW c, Q!AddInserts(c) PROVE Queue'
    <2>. DEFINE r == [session |-> call[c].chat, text |-> Q!Fresh, seq |-> call[c].seq,
                      promoted |-> FALSE, delivery |-> "queue"]
    <2>1. /\ made < MaxPrompts /\ promise' = promise /\ ran' = ran
          /\ \/ rows' = Q!Inserted(made + 1, r) /\ made' = made + 1
             \/ rows' = rows /\ made' = made
      BY <1>5 DEF Q!AddInserts
    <2>2. Row(r) /\ r.promoted = FALSE  BY RowMade
    <2>. HIDE DEF r
    <2>. QED  BY <2>1, <2>2, InsertedKeeps, Fewer
  <1>6. ASSUME NEW c, Q!EditWrites(c) PROVE Queue'
    BY <1>6, EditKeeps
  <1>7. ASSUME NEW w, Q!Drop(w) PROVE Queue'
    <2>1. /\ made' = made /\ ran' = ran
          /\ Q!Drops(view[w].list[view[w].line])
      BY <1>7 DEF Q!Drop
    <2>. QED  BY <2>1, DropsKeep
  <1>8. ASSUME NEW c, Q!Clear(c) \/ Q!DeleteSession(c) \/ Q!CommandClears(c) PROVE Queue'
    <2>1. /\ made' = made /\ promise' = promise /\ ran' = ran
          /\ \E ids : rows' = Q!Without(ids)
      BY <1>8 DEF Q!Clear, Q!DeleteSession, Q!CommandClears, Q!ClearQueue, Q!ClearAllQueues
    <2>. QED  BY <2>1, WithoutKeeps
  <1>9. ASSUME NEW c, Q!CommandDrops(c) PROVE Queue'
    <2>1. made' = made /\ ran' = ran /\ Q!Drops(call[c].item)  BY <1>9 DEF Q!CommandDrops
    <2>. QED  BY <2>1, DropsKeep
  <1>. QED  BY <1>1, <1>2, <1>3, <1>4, <1>5, <1>6, <1>7, <1>8, <1>9 DEF Q!Next

LEMMA QueueStep ==
    ASSUME Queue, [Next]_<<part, sendVars, textVars, queueVars>>
    PROVE  Queue'
  <1>1. CASE part = "queue" /\ Q!Next  BY <1>1, QueueNext
  <1>2. CASE UNCHANGED queueVars  BY <1>2, Fewer DEF Queue, queueVars
  <1>. QED  BY <1>1, <1>2 DEF Next

LEMMA QueueInit == Q!Init => Queue
  BY SaipatchConstants DEF Q!Init, Queue, Waits, Q!Id, Q!AnswerHolds

\* What an edit or a drop answered is what the session runs (queue_core's
\* edit_queued_prompt and delete_queued_item against the server's promotion),
\* for any number of windows, command lines, prompts and texts.
THEOREM AnswersHold == Spec => []AnswerHolds
  <1>1. Init => Queue  BY QueueInit DEF Init
  <1>2. Queue /\ [Next]_<<part, sendVars, textVars, queueVars>> => Queue'  BY QueueStep
  <1>3. Queue => AnswerHolds  BY DEF Queue, AnswerHolds
  <1>. QED  BY <1>1, <1>2, <1>3, PTL DEF Spec

-----------------------------------------------------------------------------
(* The sending of a prompt. *)

Listy(s) == \E U : s \in Seq(U)

\* The signals that answer for a request.
Replies == {"completed", "waves", "loaded", "fileError"}

NoRead(fs) == \A k \in DOMAIN fs : fs[k].do = "save"
ReadHeld(fs, n) ==
    \E i \in DOMAIN fs : /\ fs[i].do = "read" /\ fs[i].job.rid = n
                         /\ \A k \in DOMAIN fs : k # i => fs[k].do = "save"

NoReply(ps) == \A k \in DOMAIN ps : ps[k].sig \notin Replies
ReplyHeld(ps, n) ==
    \E i \in DOMAIN ps : /\ ps[i].sig \in Replies /\ ps[i].job.rid = n
                         /\ \A k \in DOMAIN ps : k # i => ps[k].sig \notin Replies

JobHeld(js, n) == \E j : js = <<j>> /\ j.rid = n

Sending(s) == s \in [busy : {TRUE}, job : {s.job}, part : {s.part}, at : {s.at}]

Places == {"none", "dialog", "files", "jobs", "sender", "posted"}

\* The one request, number n, is in place p and nowhere else.
Where(p, n) ==
    /\ owner.rid = n /\ (owner = S!NoOwner <=> p = "none")
    /\ (dialog = "file" <=> p = "dialog")
    /\ p = "files" => ReadHeld(files, n)
    /\ p # "files" => NoRead(files)
    /\ p = "jobs" => JobHeld(jobs, n)
    /\ p # "jobs" => jobs = <<>>
    /\ p = "sender" => Sending(sender) /\ sender.job.rid = n
    /\ p # "sender" => sender = S!Idle
    /\ p = "posted" => ReplyHeld(posted, n)
    /\ p # "posted" => NoReply(posted)

OneRequest ==
    /\ rids \in Nat /\ Listy(files) /\ Listy(posted)
    /\ \E p \in Places, n \in Nat : Where(p, n)

LEMMA Grows ==
    ASSUME NEW s, Listy(s), NEW x
    PROVE  /\ Listy(Append(s, x)) /\ Append(s, x) # s
           /\ DOMAIN Append(s, x) = DOMAIN s \cup {Len(s) + 1}
           /\ Append(s, x)[Len(s) + 1] = x /\ Len(s) + 1 \notin DOMAIN s
           /\ \A i \in DOMAIN s : Append(s, x)[i] = s[i]
  <1>1. PICK U : s \in Seq(U)  BY DEF Listy
  <1>2. s \in Seq(U \cup {x})  BY <1>1
  <1>3. Append(s, x) \in Seq(U \cup {x})  BY <1>2
  <1>4. DOMAIN s = 1..Len(s) /\ Len(s) \in Nat  BY <1>1
  <1>5. Len(Append(s, x)) = Len(s) + 1  BY <1>2
  <1>6. Listy(Append(s, x))  BY <1>3 DEF Listy
  <1>7. DOMAIN Append(s, x) = DOMAIN s \cup {Len(s) + 1} /\ Len(s) + 1 \notin DOMAIN s
    BY <1>3, <1>4, <1>5
  <1>8. Append(s, x)[Len(s) + 1] = x /\ \A i \in DOMAIN s : Append(s, x)[i] = s[i]
    BY <1>2, <1>4
  <1>. QED  BY <1>4, <1>5, <1>6, <1>7, <1>8

LEMMA Shrinks ==
    ASSUME NEW s, Listy(s), s # <<>>
    PROVE  /\ Listy(Tail(s)) /\ 1 \in DOMAIN s /\ Head(s) = s[1]
           /\ \A i \in DOMAIN Tail(s) : i + 1 \in DOMAIN s /\ i + 1 # 1 /\ Tail(s)[i] = s[i + 1]
           /\ \A i \in DOMAIN s : i # 1 => i - 1 \in DOMAIN Tail(s) /\ (i - 1) + 1 = i
           /\ \A i, k \in DOMAIN Tail(s) : i + 1 = k + 1 => i = k
  <1>1. PICK U : s \in Seq(U)  BY DEF Listy
  <1>2. DOMAIN s = 1..Len(s) /\ Len(s) \in Nat /\ Len(s) # 0  BY <1>1
  <1>3. Tail(s) \in Seq(U) /\ Len(Tail(s)) = Len(s) - 1 /\ DOMAIN Tail(s) = 1..(Len(s) - 1)
    BY <1>1, <1>2
  <1>4. \A i \in 1..(Len(s) - 1) : Tail(s)[i] = s[i + 1]  BY <1>1, <1>2
  <1>5. Listy(Tail(s))  BY <1>3 DEF Listy
  <1>6. 1 \in DOMAIN s /\ Head(s) = s[1]  BY <1>1, <1>2
  <1>7. \A i \in DOMAIN Tail(s) : i + 1 \in DOMAIN s /\ i + 1 # 1 /\ Tail(s)[i] = s[i + 1]
    BY <1>2, <1>3, <1>4
  <1>8. \A i \in DOMAIN s : i # 1 => i - 1 \in DOMAIN Tail(s) /\ (i - 1) + 1 = i
    BY <1>2, <1>3
  <1>9. \A i, k \in DOMAIN Tail(s) : i + 1 = k + 1 => i = k
    BY <1>2, <1>3
  <1>. QED  BY <1>5, <1>6, <1>7, <1>8, <1>9

LEMMA ReadsGrow ==
    ASSUME NEW fs, Listy(fs), NEW f, NEW n
    PROVE  /\ NoRead(fs) /\ f.do = "read" => ReadHeld(Append(fs, f), f.job.rid)
           /\ NoRead(fs) /\ f.do = "save" => NoRead(Append(fs, f))
           /\ ReadHeld(fs, n) /\ f.do = "save" => ReadHeld(Append(fs, f), n)
  <1>. DEFINE gs == Append(fs, f)  k == Len(fs) + 1
  <1>1. /\ DOMAIN gs = DOMAIN fs \cup {k} /\ gs[k] = f /\ k \notin DOMAIN fs
        /\ \A i \in DOMAIN fs : gs[i] = fs[i]
    BY Grows
  <1>. HIDE DEF gs, k
  <1>2. NoRead(fs) /\ f.do = "read" => ReadHeld(gs, f.job.rid)  BY <1>1 DEF NoRead, ReadHeld
  <1>3. NoRead(fs) /\ f.do = "save" => NoRead(gs)  BY <1>1 DEF NoRead
  <1>4. ReadHeld(fs, n) /\ f.do = "save" => ReadHeld(gs, n)  BY <1>1 DEF ReadHeld
  <1>. QED  BY <1>2, <1>3, <1>4 DEF gs

LEMMA ReadsShrink ==
    ASSUME NEW fs, Listy(fs), fs # <<>>, NEW n
    PROVE  /\ Head(fs).do # "save" => ~NoRead(fs)
           /\ ReadHeld(fs, n) /\ Head(fs).do # "save" => NoRead(Tail(fs)) /\ Head(fs).job.rid = n
           /\ NoRead(fs) => NoRead(Tail(fs))
           /\ ReadHeld(fs, n) /\ Head(fs).do = "save" => ReadHeld(Tail(fs), n)
  <1>. DEFINE gs == Tail(fs)  f == Head(fs)
  <1>1. /\ 1 \in DOMAIN fs /\ f = fs[1]
        /\ \A i \in DOMAIN gs : i + 1 \in DOMAIN fs /\ i + 1 # 1 /\ gs[i] = fs[i + 1]
        /\ \A i \in DOMAIN fs : i # 1 => i - 1 \in DOMAIN gs /\ (i - 1) + 1 = i
        /\ \A i, k \in DOMAIN gs : i + 1 = k + 1 => i = k
    BY Shrinks
  <1>. HIDE DEF gs, f
  <1>2. f.do # "save" => ~NoRead(fs)  BY <1>1 DEF NoRead
  <1>3. ReadHeld(fs, n) /\ f.do # "save" => NoRead(gs) /\ f.job.rid = n
    BY <1>1 DEF NoRead, ReadHeld
  <1>4. NoRead(fs) => NoRead(gs)  BY <1>1 DEF NoRead
  <1>5. ASSUME ReadHeld(fs, n), f.do = "save" PROVE ReadHeld(gs, n)
    <2>1. PICK i \in DOMAIN fs : /\ fs[i].do = "read" /\ fs[i].job.rid = n
                                 /\ \A k \in DOMAIN fs : k # i => fs[k].do = "save"
      BY <1>5 DEF ReadHeld
    <2>2. i # 1 /\ i - 1 \in DOMAIN gs /\ (i - 1) + 1 = i  BY <1>1, <1>5, <2>1
    <2>3. gs[i - 1].do = "read" /\ gs[i - 1].job.rid = n  BY <1>1, <2>1, <2>2
    <2>4. \A k \in DOMAIN gs : k # i - 1 => gs[k].do = "save"  BY <1>1, <2>1, <2>2
    <2>. QED  BY <2>2, <2>3, <2>4 DEF ReadHeld
  <1>. QED  BY <1>2, <1>3, <1>4, <1>5 DEF gs, f

LEMMA RepliesGrow ==
    ASSUME NEW ps, Listy(ps), NEW p, NEW n
    PROVE  /\ NoReply(ps) /\ p.sig \in Replies => ReplyHeld(Append(ps, p), p.job.rid)
           /\ NoReply(ps) /\ p.sig \notin Replies => NoReply(Append(ps, p))
           /\ ReplyHeld(ps, n) /\ p.sig \notin Replies => ReplyHeld(Append(ps, p), n)
  <1>. DEFINE qs == Append(ps, p)  k == Len(ps) + 1
  <1>1. /\ DOMAIN qs = DOMAIN ps \cup {k} /\ qs[k] = p /\ k \notin DOMAIN ps
        /\ \A i \in DOMAIN ps : qs[i] = ps[i]
    BY Grows
  <1>. HIDE DEF qs, k
  <1>2. NoReply(ps) /\ p.sig \in Replies => ReplyHeld(qs, p.job.rid)
    BY <1>1 DEF NoReply, ReplyHeld
  <1>3. NoReply(ps) /\ p.sig \notin Replies => NoReply(qs)  BY <1>1 DEF NoReply
  <1>4. ReplyHeld(ps, n) /\ p.sig \notin Replies => ReplyHeld(qs, n)  BY <1>1 DEF ReplyHeld
  <1>. QED  BY <1>2, <1>3, <1>4 DEF qs

LEMMA RepliesShrink ==
    ASSUME NEW ps, Listy(ps), ps # <<>>, NEW n
    PROVE  /\ Head(ps).sig \in Replies => ~NoReply(ps)
           /\ ReplyHeld(ps, n) /\ Head(ps).sig \in Replies =>
                NoReply(Tail(ps)) /\ Head(ps).job.rid = n
           /\ NoReply(ps) => NoReply(Tail(ps))
           /\ ReplyHeld(ps, n) /\ Head(ps).sig \notin Replies => ReplyHeld(Tail(ps), n)
  <1>. DEFINE qs == Tail(ps)  p == Head(ps)
  <1>1. /\ 1 \in DOMAIN ps /\ p = ps[1]
        /\ \A i \in DOMAIN qs : i + 1 \in DOMAIN ps /\ i + 1 # 1 /\ qs[i] = ps[i + 1]
        /\ \A i \in DOMAIN ps : i # 1 => i - 1 \in DOMAIN qs /\ (i - 1) + 1 = i
        /\ \A i, k \in DOMAIN qs : i + 1 = k + 1 => i = k
    BY Shrinks
  <1>. HIDE DEF qs, p
  <1>2. p.sig \in Replies => ~NoReply(ps)  BY <1>1 DEF NoReply
  <1>3. ReplyHeld(ps, n) /\ p.sig \in Replies => NoReply(qs) /\ p.job.rid = n
    BY <1>1 DEF NoReply, ReplyHeld
  <1>4. NoReply(ps) => NoReply(qs)  BY <1>1 DEF NoReply
  <1>5. ASSUME ReplyHeld(ps, n), p.sig \notin Replies PROVE ReplyHeld(qs, n)
    <2>1. PICK i \in DOMAIN ps : /\ ps[i].sig \in Replies /\ ps[i].job.rid = n
                                 /\ \A k \in DOMAIN ps : k # i => ps[k].sig \notin Replies
      BY <1>5 DEF ReplyHeld
    <2>2. i # 1 /\ i - 1 \in DOMAIN qs /\ (i - 1) + 1 = i  BY <1>1, <1>5, <2>1
    <2>3. qs[i - 1].sig \in Replies /\ qs[i - 1].job.rid = n  BY <1>1, <2>1, <2>2
    <2>4. \A k \in DOMAIN qs : k # i - 1 => qs[k].sig \notin Replies  BY <1>1, <2>1, <2>2
    <2>. QED  BY <2>2, <2>3, <2>4 DEF ReplyHeld
  <1>. QED  BY <1>2, <1>3, <1>4, <1>5 DEF qs, p

\* A step of the workers or of the window that no request is about.
LEMMA Beside ==
    ASSUME OneRequest, UNCHANGED <<owner, rids, files, jobs, sender, dialog>>,
           \/ posted' = posted
           \/ \E x : posted' = Append(posted, x) /\ x.sig \notin Replies
           \/ posted # <<>> /\ Head(posted).sig \notin Replies /\ posted' = Tail(posted)
    PROVE  OneRequest'
  <1>1. PICK p \in Places, n \in Nat : Where(p, n)  BY DEF OneRequest
  <1>2. /\ Listy(posted') /\ (NoReply(posted) => NoReply(posted'))
        /\ (ReplyHeld(posted, n) => ReplyHeld(posted', n))
    <2>1. Listy(posted)  BY DEF OneRequest
    <2>2. CASE posted' = posted  BY <2>1, <2>2
    <2>3. CASE \E x : posted' = Append(posted, x) /\ x.sig \notin Replies
      BY <2>1, <2>3, Grows, RepliesGrow
    <2>4. CASE posted # <<>> /\ Head(posted).sig \notin Replies /\ posted' = Tail(posted)
      BY <2>1, <2>4, Shrinks, RepliesShrink
    <2>. QED  BY <2>2, <2>3, <2>4
  <1>3. Where(p, n)'  BY <1>1, <1>2 DEF Where, S!NoOwner, S!NoSession, S!Idle
  <1>. QED  BY <1>2, <1>3 DEF OneRequest, Places, Where, S!NoOwner, S!NoSession, S!Idle

\* Nobody is served: there is nothing anywhere.
LEMMA NobodyServed ==
    ASSUME OneRequest, owner = S!NoOwner
    PROVE  Where("none", 0)
  <1>1. PICK p \in Places, n \in Nat : Where(p, n)  BY DEF OneRequest
  <1>. QED  BY <1>1 DEF Where, S!NoOwner, S!NoSession, S!Idle

\* A reservation and the place its request starts in.
LEMMA Reserved ==
    ASSUME OneRequest, S!MayAcquire, S!Acquire, Listy(posted'),
           NoReply(posted) => NoReply(posted'), UNCHANGED sender,
           \/ /\ UNCHANGED <<files, dialog>> /\ dialog # "file"
              /\ \E kind : jobs' = Append(jobs, S!Envelope(kind, rids + 1))
           \/ /\ UNCHANGED <<jobs, dialog>> /\ dialog # "file"
              /\ \E kind : files' = Append(files, [do |-> "read", job |-> S!Envelope(kind, rids + 1)])
           \/ /\ UNCHANGED <<jobs, files>> /\ dialog' = "file"
    PROVE  OneRequest'
  <1>1. Where("none", 0)  BY NobodyServed DEF S!MayAcquire
  <1>2. rids \in Nat /\ Listy(files) /\ Listy(posted)  BY DEF OneRequest
  <1>9. PICK n : n = rids + 1  OBVIOUS
  <1>3. n \in Nat /\ n # 0 /\ rids' = n /\ owner'.rid = n /\ owner' # S!NoOwner
    BY <1>2, <1>9 DEF S!Acquire, S!NoOwner
  <1>4. \A kind : S!Envelope(kind, n).rid = n  BY DEF S!Envelope
  <1>5. NoRead(files) /\ jobs = <<>> /\ NoReply(posted') /\ sender' = S!Idle
    BY <1>1 DEF Where, S!NoOwner, S!NoSession, S!Idle
  <1>6. CASE /\ UNCHANGED <<files, dialog>> /\ dialog # "file"
             /\ \E kind : jobs' = Append(jobs, S!Envelope(kind, n))
    <2>1. PICK kind : jobs' = Append(jobs, S!Envelope(kind, n))  BY <1>6
    <2>. DEFINE e == S!Envelope(kind, n)
    <2>2. e.rid = n  BY <1>4
    <2>. HIDE DEF e
    <2>3. JobHeld(jobs, n)'
      <3>1. jobs' = <<e>>  BY <1>5, <2>1 DEF e
      <3>. QED  BY <2>2, <3>1 DEF JobHeld
    <2>4. Where("jobs", n)'  BY <1>3, <1>5, <1>6, <2>3 DEF Where, S!NoOwner, S!NoSession, S!Idle
    <2>. QED  BY <1>2, <1>3, <1>6, <2>4 DEF OneRequest, Places, Where, S!NoOwner, S!NoSession, S!Idle
  <1>7. CASE /\ UNCHANGED <<jobs, dialog>> /\ dialog # "file"
             /\ \E kind : files' = Append(files, [do |-> "read", job |-> S!Envelope(kind, n)])
    <2>1. PICK kind : files' = Append(files, [do |-> "read", job |-> S!Envelope(kind, n)])
      BY <1>7
    <2>. DEFINE f == [do |-> "read", job |-> S!Envelope(kind, n)]
    <2>2. f.do = "read" /\ f.job.rid = n  BY <1>4
    <2>. HIDE DEF f
    <2>3. files' = Append(files, f)  BY <2>1 DEF f
    <2>4. ReadHeld(files', n) /\ Listy(files')  BY <1>2, <1>5, <2>2, <2>3, ReadsGrow, Grows
    <2>5. Where("files", n)'  BY <1>3, <1>5, <1>7, <2>4 DEF Where, S!NoOwner, S!NoSession, S!Idle
    <2>. QED  BY <1>3, <2>4, <2>5 DEF OneRequest, Places, Where, S!NoOwner, S!NoSession, S!Idle
  <1>8. CASE UNCHANGED <<jobs, files>> /\ dialog' = "file"
    <2>1. Where("dialog", n)'  BY <1>3, <1>5, <1>8 DEF Where, S!NoOwner, S!NoSession, S!Idle
    <2>. QED  BY <1>2, <1>3, <1>8, <2>1 DEF OneRequest, Places, Where, S!NoOwner, S!NoSession, S!Idle
  <1>. QED  BY <1>6, <1>7, <1>8, <1>9

\* The request leaves the place it was in, and the reservation with it.
LEMMA Released ==
    ASSUME OneRequest, NEW n, owner.rid = n, S!Release(n), UNCHANGED <<rids, files, jobs, sender>>,
           dialog' # "file", NoRead(files), jobs = <<>>, sender = S!Idle, NoReply(posted'),
           Listy(posted')
    PROVE  OneRequest'
  <1>1. owner' = S!NoOwner  BY DEF S!Release
  <1>2. Where("none", 0)'  BY <1>1 DEF Where, S!NoOwner, S!NoSession, S!Idle
  <1>. QED  BY <1>2 DEF OneRequest, Places, Where, S!NoOwner, S!NoSession, S!Idle

LEMMA Clicked ==
    ASSUME OneRequest,
           S!Send \/ S!ContinueSession \/ S!ThreeWaves \/ S!Audit \/ S!AuditFile
    PROVE  OneRequest'
  <1>1. Listy(posted)  BY DEF OneRequest
  <1>2. CASE S!Send
    BY <1>1, <1>2, Reserved DEF S!Send, S!Free, S!guiVars, S!auditVars
  <1>3. CASE S!ContinueSession
    BY <1>1, <1>3, Reserved DEF S!ContinueSession, S!Free, S!guiVars, S!auditVars
  <1>4. CASE S!ThreeWaves
    BY <1>1, <1>4, Reserved DEF S!ThreeWaves, S!Free, S!guiVars, S!auditVars
  <1>5. CASE S!AuditFile
    BY <1>1, <1>5, Reserved DEF S!AuditFile, S!Free, S!guiVars, S!auditVars
  <1>6. CASE S!Audit
    <2>1. CASE preset
      BY <1>1, <1>6, <2>1, Reserved DEF S!Audit, S!Free, S!guiVars
    <2>2. CASE ~preset
      <3>1. /\ UNCHANGED <<owner, rids, files, jobs, sender, posted>>
            /\ dialog = "none" /\ dialog' = "preset"
        BY <1>6, <2>2 DEF S!Audit, S!Free
      <3>2. PICK p \in Places, n \in Nat : Where(p, n)  BY DEF OneRequest
      <3>3. Where(p, n)'  BY <3>1, <3>2 DEF Where, S!NoOwner, S!NoSession, S!Idle
      <3>. QED  BY <3>1, <3>3 DEF OneRequest, Places, Where, S!NoOwner, S!NoSession, S!Idle
    <2>. QED  BY <2>1, <2>2
  <1>. QED  BY <1>2, <1>3, <1>4, <1>5, <1>6

\* The files that are read for a request, or saved for none.
LEMMA Saves ==
    ASSUME OneRequest, UNCHANGED <<owner, rids, jobs, sender>>,
           dialog = "file" <=> dialog' = "file", NEW x, x.sig \notin Replies,
           posted' = posted \/ posted' = Append(posted, x),
           \/ files' = files
           \/ \E f : files' = Append(files, f) /\ f.do = "save"
           \/ files # <<>> /\ Head(files).do = "save" /\ files' = Tail(files)
    PROVE  OneRequest'
  <1>1. PICK p \in Places, n \in Nat : Where(p, n)  BY DEF OneRequest
  <1>2. /\ Listy(posted') /\ (NoReply(posted) => NoReply(posted'))
        /\ (ReplyHeld(posted, n) => ReplyHeld(posted', n))
    <2>1. Listy(posted)  BY DEF OneRequest
    <2>2. CASE posted' = posted  BY <2>1, <2>2
    <2>3. CASE posted' = Append(posted, x)  BY <2>1, <2>3, Grows, RepliesGrow
    <2>. QED  BY <2>2, <2>3
  <1>3. /\ Listy(files') /\ (NoRead(files) => NoRead(files'))
        /\ (ReadHeld(files, n) => ReadHeld(files', n))
    <2>1. Listy(files)  BY DEF OneRequest
    <2>2. CASE files' = files  BY <2>1, <2>2
    <2>3. ASSUME NEW f, files' = Append(files, f), f.do = "save"
          PROVE  /\ Listy(files') /\ (NoRead(files) => NoRead(files'))
                 /\ (ReadHeld(files, n) => ReadHeld(files', n))
      BY <2>1, <2>3, Grows, ReadsGrow
    <2>4. CASE files # <<>> /\ Head(files).do = "save" /\ files' = Tail(files)
      BY <2>1, <2>4, Shrinks, ReadsShrink
    <2>. QED  BY <2>2, <2>3, <2>4
  <1>4. Where(p, n)'  BY <1>1, <1>2, <1>3 DEF Where, S!NoOwner, S!NoSession, S!Idle
  <1>. QED  BY <1>2, <1>3, <1>4 DEF OneRequest, Places, Where, S!NoOwner, S!NoSession, S!Idle

LEMMA PresetDialogKeeps ==
    ASSUME OneRequest, S!PresetDialog
    PROVE  OneRequest'
  <1>. DEFINE f == [do |-> "save"]  x == [sig |-> "saved"]
  <1>1. f.do = "save" /\ x.sig \notin Replies  BY DEF Replies
  <1>2. /\ UNCHANGED <<owner, rids, jobs, sender, posted>> /\ dialog # "file" /\ dialog' # "file"
        /\ files' = Append(files, f) \/ files' = files
    BY DEF S!PresetDialog
  <1>. HIDE DEF f, x
  <1>. QED  BY <1>1, <1>2, Saves

LEMMA ReadOrSaveKeeps ==
    ASSUME OneRequest, S!ReadOrSave
    PROVE  OneRequest'
  <1>. DEFINE f == Head(files)
  <1>1. /\ files # <<>> /\ files' = Tail(files)
        /\ UNCHANGED <<owner, rids, jobs, sender, dialog>> /\ Listy(files) /\ Listy(posted)
    BY DEF S!ReadOrSave, S!auditVars, OneRequest
  <1>2. CASE f.do = "save"
    <2>. DEFINE x == [sig |-> "saved"]
    <2>1. posted' = Append(posted, x) /\ x.sig \notin Replies  BY <1>2 DEF S!ReadOrSave, Replies
    <2>. HIDE DEF x
    <2>. QED  BY <1>1, <1>2, <2>1, Saves
  <1>3. CASE f.do # "save"
    <2>1. PICK p \in Places, n \in Nat : Where(p, n)  BY DEF OneRequest
    <2>2. p = "files" /\ f.job.rid = n /\ NoRead(files')
      BY <1>1, <1>3, <2>1, ReadsShrink DEF Where
    <2>3. PICK sig \in {"loaded", "fileError"} :
            posted' = Append(posted, [sig |-> sig, job |-> f.job])
      BY <1>3 DEF S!ReadOrSave
    <2>. DEFINE x == [sig |-> sig, job |-> f.job]
    <2>4. x.sig \in Replies /\ x.job.rid = n /\ posted' = Append(posted, x)
      BY <2>2, <2>3 DEF Replies
    <2>. HIDE DEF x
    <2>5. ReplyHeld(posted', n) /\ Listy(posted') /\ Listy(files')
      BY <1>1, <2>1, <2>2, <2>4, RepliesGrow, Grows, Shrinks DEF Where
    <2>6. Where("posted", n)'
      BY <1>1, <2>1, <2>2, <2>5 DEF Where, S!NoOwner, S!NoSession, S!Idle
    <2>. QED  BY <1>1, <2>5, <2>6 DEF OneRequest, Places, Where, S!NoOwner, S!NoSession, S!Idle
  <1>. QED  BY <1>2, <1>3

LEMMA FileDialogKeeps ==
    ASSUME OneRequest, S!FileDialog
    PROVE  OneRequest'
  <1>. DEFINE f == [do |-> "read", job |-> S!Envelope("file", owner.rid)]
  <1>1. PICK p \in Places, n \in Nat : Where(p, n)  BY DEF OneRequest
  <1>2. /\ dialog = "file" /\ dialog' = "none" /\ UNCHANGED <<rids, posted, jobs, sender>>
        /\ (files' = Append(files, f) \/ files' = files)
        /\ files' = files => S!Release(owner.rid)
        /\ files' # files => owner' = owner
    BY DEF S!FileDialog
  <1>3. p = "dialog" /\ owner.rid = n /\ f.do = "read" /\ f.job.rid = n
    BY <1>1, <1>2 DEF Where, S!Envelope
  <1>4. Listy(files) /\ Listy(posted)  BY DEF OneRequest
  <1>. HIDE DEF f
  <1>5. CASE files' = files
    <2>1. NoRead(files) /\ jobs = <<>> /\ sender = S!Idle /\ NoReply(posted') /\ Listy(posted')
      BY <1>1, <1>2, <1>3, <1>4 DEF Where
    <2>. QED  BY <1>2, <1>3, <1>5, <2>1, Released
  <1>6. CASE files' # files
    <2>1. ReadHeld(files', n) /\ Listy(files')
      <3>1. NoRead(files) /\ files' = Append(files, f)  BY <1>1, <1>2, <1>3, <1>6 DEF Where
      <3>2. ReadHeld(Append(files, f), f.job.rid)  BY <1>3, <1>4, <3>1, ReadsGrow
      <3>3. Listy(Append(files, f))  BY <1>4, Grows
      <3>. QED  BY <1>3, <3>1, <3>2, <3>3
    <2>2. Where("files", n)'
      BY <1>1, <1>2, <1>3, <1>6, <2>1 DEF Where, S!NoOwner, S!NoSession, S!Idle
    <2>. QED  BY <1>2, <1>4, <2>1, <2>2 DEF OneRequest, Places, Where, S!NoOwner, S!NoSession, S!Idle
  <1>. QED  BY <1>5, <1>6

\* The sender's request is answered by a signal.
LEMMA Answers ==
    ASSUME OneRequest, NEW n \in Nat, UNCHANGED <<owner, rids, files, dialog>>, owner.rid = n,
           owner # S!NoOwner, dialog # "file", NoRead(files), NoReply(posted),
           jobs' = <<>>, sender' = S!Idle,
           NEW x, x.sig \in Replies, x.job.rid = n, posted' = Append(posted, x)
    PROVE  OneRequest'
  <1>1. rids \in Nat /\ Listy(files) /\ Listy(posted)  BY DEF OneRequest
  <1>2. ReplyHeld(posted', n) /\ Listy(posted')  BY <1>1, RepliesGrow, Grows
  <1>3. Where("posted", n)'  BY <1>2 DEF Where, S!NoOwner, S!NoSession, S!Idle
  <1>. QED  BY <1>1, <1>2, <1>3 DEF OneRequest, Places, Where, S!NoOwner, S!NoSession, S!Idle

\* The sender takes a request, or goes on with it.
LEMMA Sends ==
    ASSUME OneRequest, NEW n \in Nat, UNCHANGED <<owner, rids, files, dialog>>, owner.rid = n,
           owner # S!NoOwner, dialog # "file", NoRead(files), NoReply(posted),
           jobs' = <<>>, Sending(sender'), sender'.job.rid = n,
           posted' = posted \/ \E x : posted' = Append(posted, x) /\ x.sig \notin Replies
    PROVE  OneRequest'
  <1>1. rids \in Nat /\ Listy(files) /\ Listy(posted)  BY DEF OneRequest
  <1>2. NoReply(posted') /\ Listy(posted')
    <2>1. ASSUME NEW x, posted' = Append(posted, x), x.sig \notin Replies
          PROVE  NoReply(posted') /\ Listy(posted')
      BY <1>1, <2>1, RepliesGrow, Grows
    <2>. QED  BY <1>1, <2>1
  <1>3. Where("sender", n)'  BY <1>2 DEF Where, S!NoOwner, S!NoSession, S!Idle
  <1>. QED  BY <1>1, <1>2, <1>3 DEF OneRequest, Places, Where, S!NoOwner, S!NoSession, S!Idle

LEMMA TakeJobKeeps ==
    ASSUME OneRequest, S!TakeJob
    PROVE  OneRequest'
  <1>1. PICK p \in Places, n \in Nat : Where(p, n)  BY DEF OneRequest
  <1>2. jobs # <<>> /\ jobs' = Tail(jobs) /\ UNCHANGED <<owner, rids, files, dialog>>
    BY DEF S!TakeJob, S!auditVars
  <1>3. p = "jobs" /\ JobHeld(jobs, n)  BY <1>1, <1>2 DEF Where
  <1>4. PICK j : jobs = <<j>> /\ j.rid = n  BY <1>3 DEF JobHeld
  <1>5. jobs' = <<>> /\ Head(jobs) = j  BY <1>2, <1>4
  <1>6. /\ owner.rid = n /\ owner # S!NoOwner /\ dialog # "file" /\ NoRead(files)
        /\ NoReply(posted) /\ sender = S!Idle
    BY <1>1, <1>3 DEF Where
  <1>. DEFINE s(a) == [busy |-> TRUE, job |-> j, part |-> 1, at |-> a]
              x == [sig |-> "started", job |-> j]
              y == [sig |-> "waves", job |-> j, ok |-> FALSE]
  <1>7. \A a : Sending(s(a)) /\ s(a).job.rid = n  BY <1>4 DEF Sending
  <1>8. x.sig \notin Replies /\ y.sig \in Replies /\ y.job.rid = n  BY <1>4 DEF Replies
  <1>9. \/ sender' = s("post") /\ posted' = Append(posted, x)
        \/ sender' = s("post") /\ posted' = posted
        \/ sender' = sender /\ posted' = Append(posted, y)
        \/ sender' = s("verify") /\ posted' = posted
    BY <1>5 DEF S!TakeJob
  <1>. HIDE DEF s, x, y
  <1>10. CASE sender' = sender /\ posted' = Append(posted, y)
    BY <1>2, <1>5, <1>6, <1>8, <1>10, Answers
  <1>11. CASE \E a : sender' = s(a) /\ (posted' = posted \/ posted' = Append(posted, x))
    BY <1>2, <1>5, <1>6, <1>7, <1>8, <1>11, Sends
  <1>. QED  BY <1>9, <1>10, <1>11

LEMMA SenderKeeps ==
    ASSUME OneRequest, S!Verify \/ \E ok \in BOOLEAN : S!Answer(ok)
    PROVE  OneRequest'
  <1>1. PICK p \in Places, n \in Nat : Where(p, n)  BY DEF OneRequest
  <1>2. sender # S!Idle /\ UNCHANGED <<owner, rids, files, jobs, dialog>>
    BY DEF S!Verify, S!Answer, S!auditVars
  <1>3. p = "sender" /\ Sending(sender) /\ sender.job.rid = n  BY <1>1, <1>2 DEF Where
  <1>4. /\ owner.rid = n /\ owner # S!NoOwner /\ dialog # "file" /\ NoRead(files)
        /\ NoReply(posted) /\ jobs' = <<>>
    BY <1>1, <1>2, <1>3 DEF Where
  <1>5. \A a : /\ Sending([sender EXCEPT !.at = a]) /\ [sender EXCEPT !.at = a].job.rid = n
               /\ Sending([sender EXCEPT !.part = a]) /\ [sender EXCEPT !.part = a].job.rid = n
    BY <1>3 DEF Sending
  <1>6. \A ok : \E x : S!Ended(sender.job, ok) = Append(posted, x) /\ x.sig \in Replies /\ x.job.rid = n
    <2>. TAKE ok
    <2>1. PICK sig \in {"waves", "completed"} :
            S!Ended(sender.job, ok) = Append(posted, [sig |-> sig, job |-> sender.job, ok |-> ok])
      BY DEF S!Ended
    <2>. QED  BY <1>3, <2>1 DEF Replies
  <1>7. \/ \E a : sender' = [sender EXCEPT !.at = a] /\ posted' = posted
        \/ \E a : sender' = [sender EXCEPT !.part = a] /\ posted' = posted
        \/ \E ok : sender' = S!Idle /\ posted' = S!Ended(sender.job, ok)
    BY DEF S!Verify, S!Answer
  <1>8. ASSUME NEW ok, sender' = S!Idle, posted' = S!Ended(sender.job, ok) PROVE OneRequest'
    <2>1. PICK x : S!Ended(sender.job, ok) = Append(posted, x) /\ x.sig \in Replies /\ x.job.rid = n
      BY <1>6
    <2>. QED  BY <1>2, <1>4, <1>8, <2>1, Answers
  <1>9. ASSUME Sending(sender'), sender'.job.rid = n, posted' = posted PROVE OneRequest'
    BY <1>2, <1>4, <1>9, Sends
  <1>. QED  BY <1>5, <1>7, <1>8, <1>9

\* The window takes the answer: nothing else is under way.
LEMMA Answered ==
    ASSUME OneRequest, NEW sig \in Replies, S!Arrives(sig)
    PROVE  /\ owner.rid = S!Now.job.rid /\ owner.rid \in Nat /\ owner # S!NoOwner
           /\ dialog # "file" /\ NoRead(files) /\ jobs = <<>> /\ sender = S!Idle
           /\ NoReply(posted') /\ Listy(posted')
  <1>1. PICK p \in Places, n \in Nat : Where(p, n)  BY DEF OneRequest
  <1>2. posted # <<>> /\ Head(posted).sig \in Replies /\ posted' = Tail(posted) /\ Listy(posted)
    BY DEF S!Arrives, OneRequest
  <1>3. p = "posted"  BY <1>1, <1>2, RepliesShrink DEF Where
  <1>4. NoReply(posted') /\ Head(posted).job.rid = n /\ Listy(posted')
    BY <1>1, <1>2, <1>3, RepliesShrink, Shrinks DEF Where
  <1>. QED  BY <1>1, <1>3, <1>4 DEF Where, S!Now

LEMMA WindowKeeps ==
    ASSUME OneRequest, S!OnCompleted \/ S!OnWaves \/ S!OnFileError
    PROVE  OneRequest'
  <1>1. /\ S!Arrives("completed") \/ S!Arrives("waves") \/ S!Arrives("fileError")
        /\ S!Release(S!Now.job.rid) /\ UNCHANGED <<rids, files, jobs, sender, dialog>>
    BY DEF S!OnCompleted, S!OnWaves, S!OnFileError, S!ReleaseFile, S!auditVars
  <1>2. PICK sig \in Replies : S!Arrives(sig)  BY <1>1 DEF Replies
  <1>3. PICK n : n = S!Now.job.rid  OBVIOUS
  <1>. QED  BY <1>1, <1>2, <1>3, Answered, Released

LEMMA OnLoadedKeeps ==
    ASSUME OneRequest, S!OnLoaded
    PROVE  OneRequest'
  <1>1. /\ S!Arrives("loaded") /\ jobs' = Append(jobs, S!Now.job)
        /\ UNCHANGED <<owner, rids, files, sender, dialog>>
    BY DEF S!OnLoaded, S!Target, S!auditVars
  <1>2. PICK n \in Nat : n = owner.rid  BY <1>1, Answered DEF Replies
  <1>3. /\ S!Now.job.rid = n /\ owner # S!NoOwner
        /\ dialog # "file" /\ NoRead(files) /\ jobs = <<>> /\ sender = S!Idle
        /\ NoReply(posted') /\ Listy(posted')
    BY <1>1, <1>2, Answered DEF Replies
  <1>4. jobs' = <<S!Now.job>>  BY <1>1, <1>3
  <1>5. JobHeld(jobs', n)  BY <1>3, <1>4 DEF JobHeld
  <1>6. Where("jobs", n)'
    BY <1>1, <1>2, <1>3, <1>5 DEF Where, S!NoOwner, S!NoSession, S!Idle
  <1>. QED  BY <1>1, <1>3, <1>6 DEF OneRequest, Places, Where, S!NoOwner, S!NoSession, S!Idle

LEMMA OnSavedKeeps ==
    ASSUME OneRequest, S!OnSaved
    PROVE  OneRequest'
  <1>1. /\ posted # <<>> /\ Head(posted).sig \notin Replies /\ posted' = Tail(posted)
        /\ UNCHANGED <<jobs, sender, dialog>> /\ Listy(posted)
    BY DEF S!OnSaved, S!Arrives, OneRequest, Replies
  <1>2. CASE pending /\ S!MayAcquire
    <2>1. S!Acquire /\ files' = Append(files, [do |-> "read", job |-> S!Envelope("audit", rids + 1)])
      BY <1>2 DEF S!OnSaved
    <2>2. (NoReply(posted) => NoReply(posted')) /\ Listy(posted')
      BY <1>1, RepliesShrink, Shrinks
    <2>3. dialog # "file"
      <3>1. Where("none", 0)  BY <1>2, NobodyServed DEF S!MayAcquire
      <3>. QED  BY <3>1 DEF Where
    <2>. QED  BY <1>1, <1>2, <2>1, <2>2, <2>3, Reserved
  <1>3. CASE ~(pending /\ S!MayAcquire)
    <2>1. UNCHANGED <<owner, rids, files>>  BY <1>3 DEF S!OnSaved
    <2>. QED  BY <1>1, <2>1, Beside
  <1>. QED  BY <1>2, <1>3

LEMMA BesideNext ==
    ASSUME OneRequest,
           \/ S!Retarget \/ S!Resolve \/ S!Edit \/ S!OnResolved \/ S!OnSidebar \/ S!OnStarted
           \/ \E ss \in SUBSET Session : S!Observe(ss)
           \/ \E s \in Session : S!Select(s)
           \/ \E u \in Url : S!Ends(u) \/ \E p \in Proc : S!Listens(u, p)
    PROVE  OneRequest'
  <1>1. UNCHANGED <<owner, rids, files, jobs, sender, dialog>>
    BY DEF S!Retarget, S!Resolve, S!Edit, S!OnResolved, S!OnSidebar, S!OnStarted, S!Observe,
           S!Select, S!Ends, S!Listens, S!guiVars, S!formVars, S!auditVars
  <1>2. CASE S!Resolve
    <2>. DEFINE x == [sig |-> "resolved", verdict |-> S!VerdictOf(target)]
    <2>1. posted' = Append(posted, x) /\ x.sig \notin Replies  BY <1>2 DEF S!Resolve, Replies
    <2>. HIDE DEF x
    <2>. QED  BY <1>1, <2>1, Beside
  <1>3. ASSUME NEW ss, S!Observe(ss) PROVE OneRequest'
    <2>. DEFINE x == [sig |-> "sidebar", sessions |-> ss]
    <2>1. posted' = Append(posted, x) /\ x.sig \notin Replies  BY <1>3 DEF S!Observe, Replies
    <2>. HIDE DEF x
    <2>. QED  BY <1>1, <2>1, Beside
  <1>4. CASE S!OnResolved \/ S!OnSidebar \/ S!OnStarted
    <2>1. posted # <<>> /\ Head(posted).sig \notin Replies /\ posted' = Tail(posted)
      BY <1>4 DEF S!OnResolved, S!OnSidebar, S!OnStarted, S!Arrives, Replies
    <2>. QED  BY <1>1, <2>1, Beside
  <1>5. CASE posted' = posted  BY <1>1, <1>5, Beside
  <1>6. CASE \/ S!Retarget \/ S!Edit \/ \E s \in Session : S!Select(s)
             \/ \E u \in Url : S!Ends(u) \/ \E p \in Proc : S!Listens(u, p)
    BY <1>5, <1>6 DEF S!Retarget, S!Edit, S!Select, S!Ends, S!Listens
  <1>. QED  BY <1>2, <1>3, <1>4, <1>6

LEMMA SendNext ==
    ASSUME OneRequest, S!Next
    PROVE  OneRequest'
  BY BesideNext, Clicked, PresetDialogKeeps, FileDialogKeeps, ReadOrSaveKeeps, TakeJobKeeps,
     SenderKeeps, WindowKeeps, OnLoadedKeeps, OnSavedKeeps
     DEF S!Next, S!User, S!Workers, S!Window, S!World

LEMMA SendStep ==
    ASSUME OneRequest, [Next]_<<part, sendVars, textVars, queueVars>>
    PROVE  OneRequest'
  <1>1. CASE part = "send" /\ S!Next  BY <1>1, SendNext
  <1>2. CASE UNCHANGED sendVars
    <2>1. UNCHANGED <<owner, rids, files, jobs, sender, dialog>> /\ posted' = posted
      BY <1>2 DEF sendVars
    <2>. QED  BY <2>1, Beside
  <1>. QED  BY <1>1, <1>2 DEF Next

LEMMA SendInit ==
    ASSUME S!Init
    PROVE  OneRequest
  <1>1. /\ owner = S!NoOwner /\ rids = 0 /\ dialog = "none" /\ posted = <<>> /\ files = <<>>
        /\ jobs = <<>> /\ sender = S!Idle
    BY DEF S!Init
  <1>2. Where("none", 0)  BY <1>1 DEF Where, NoRead, NoReply, S!NoOwner
  <1>3. Listy(files) /\ Listy(posted)
    <2>1. <<>> \in Seq({})  OBVIOUS
    <2>. QED  BY <1>1, <2>1 DEF Listy
  <1>. QED  BY <1>1, <1>2, <1>3 DEF OneRequest, Places

LEMMA Exact ==
    ASSUME OneRequest
    PROVE  S!ReservationIsExact
  <1>1. PICK p \in Places, n \in Nat : Where(p, n)  BY DEF OneRequest
  <1>. DEFINE A == {jobs[i].rid : i \in DOMAIN jobs}
              B == {files[i].job.rid : i \in {k \in DOMAIN files : files[k].do = "read"}}
              C == IF sender = S!Idle THEN {} ELSE {sender.job.rid}
              D == {posted[i].job.rid : i \in {k \in DOMAIN posted :
                      posted[k].sig \in {"completed", "waves", "loaded", "fileError"}}}
              E == IF dialog = "file" THEN {owner.rid} ELSE {}
  <1>2. A = IF p = "jobs" THEN {n} ELSE {}
    <2>1. CASE p = "jobs"
      <3>1. PICK j : jobs = <<j>> /\ j.rid = n  BY <1>1, <2>1 DEF Where, JobHeld
      <3>2. DOMAIN jobs = {1} /\ jobs[1].rid = n  BY <3>1
      <3>. QED  BY <2>1, <3>2
    <2>2. CASE p # "jobs"
      <3>1. jobs = <<>>  BY <1>1, <2>2 DEF Where
      <3>2. DOMAIN jobs = {}  BY <3>1
      <3>. QED  BY <2>2, <3>2
    <2>. QED  BY <2>1, <2>2
  <1>3. B = IF p = "files" THEN {n} ELSE {}
    <2>1. CASE p = "files"  BY <1>1, <2>1 DEF Where, ReadHeld
    <2>2. CASE p # "files"  BY <1>1, <2>2 DEF Where, NoRead
    <2>. QED  BY <2>1, <2>2
  <1>4. D = IF p = "posted" THEN {n} ELSE {}
    <2>1. CASE p = "posted"  BY <1>1, <2>1 DEF Where, ReplyHeld, Replies
    <2>2. CASE p # "posted"  BY <1>1, <2>2 DEF Where, NoReply, Replies
    <2>. QED  BY <2>1, <2>2
  <1>5. C = IF p = "sender" THEN {n} ELSE {}
    <2>1. CASE p = "sender"
      <3>1. sender.busy = TRUE /\ sender.job.rid = n  BY <1>1, <2>1 DEF Where, Sending
      <3>2. sender # S!Idle  BY <3>1 DEF S!Idle
      <3>. QED  BY <2>1, <3>1, <3>2
    <2>2. CASE p # "sender"  BY <1>1, <2>2 DEF Where
    <2>. QED  BY <2>1, <2>2
  <1>6. E = IF p = "dialog" THEN {n} ELSE {}  BY <1>1 DEF Where
  <1>7. S!Outstanding = A \cup B \cup C \cup D \cup E  BY DEF S!Outstanding
  <1>8. owner = S!NoOwner <=> p = "none"  BY <1>1 DEF Where
  <1>9. owner.rid = n  BY <1>1 DEF Where
  <1>. HIDE DEF A, B, C, D, E
  <1>10. S!Outstanding = IF p = "none" THEN {} ELSE {n}
    BY <1>2, <1>3, <1>4, <1>5, <1>6, <1>7 DEF Places
  <1>. QED  BY <1>8, <1>9, <1>10 DEF S!ReservationIsExact

\* The viewer's reservation stands for exactly one request that some thread
\* still has to answer (queue_viewer's _acquire_admission and its releases), for
\* any servers, sessions and bounds: two clicks never send two prompts, and no
\* failure of a file, a verification or a post leaves the buttons locked.
THEOREM ReservationsAreExact == Spec => []ReservationIsExact
  <1>1. Init => OneRequest  BY SendInit DEF Init
  <1>2. OneRequest /\ [Next]_<<part, sendVars, textVars, queueVars>> => OneRequest'  BY SendStep
  <1>3. OneRequest => ReservationIsExact  BY Exact DEF ReservationIsExact
  <1>. QED  BY <1>1, <1>2, <1>3, PTL DEF Spec
=============================================================================
