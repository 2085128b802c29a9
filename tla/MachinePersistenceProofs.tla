----------------------- MODULE MachinePersistenceProofs -----------------------
(***************************************************************************)
(* Theorems about MachinePersistence, for any bounds. With one connection  *)
(* a handler that has come further belongs to an earlier transition, so    *)
(* that a call still to be answered is ahead of the stored row.            *)
(***************************************************************************)
EXTENDS MachinePersistence, SequenceTheorems, TLAPS

USE PersistenceAssumption

Version == 0 .. MaxVersion[deployment]
SavedRow == [count : Nat \ {0}, ver : Version \ {0}, completed : BOOLEAN]
Stages == {"find", "check", "select", "insert", "update", "delete"}
Calls == [op : Stages, count : Nat, ver : Version,
          init : BOOLEAN, done : BOOLEAN, completed : BOOLEAN]

\* The type of the machine, of what is stored, and of the calls.
MachineType ==
    /\ deployment \in Deployments /\ cleanup \in Cleanups
    /\ phase \in {"new", "up", "down", "booting", "stuck"} /\ over \in BOOLEAN
    /\ run \in 1 .. MaxRun[deployment]
    /\ phase = "booting" => run < MaxRun[deployment]
    /\ count \in Nat /\ ver \in Version /\ refused \in BOOLEAN

RowType ==
    /\ row \in SavedRow \cup {NoRow}
    /\ found \in IF phase = "booting" THEN SavedRow ELSE {NoRow}

\* A call that is not of the early delete is of a transition.
Numbered(call) == call.op # "delete" => call.count > 0 /\ call.ver > 0

CallType ==
    /\ queue \in Seq(Calls)
    /\ \A i \in 1 .. Len(queue) : Numbered(queue[i])

TypeInv == MachineType /\ RowType /\ CallType
-----------------------------------------------------------------------------
(* What follows is about one connection. A machine that is not up has no   *)
(* calls under way, and what a caller has found is the row.                *)
Alone ==
    /\ phase = "new" => count = 0
    /\ phase # "up" => queue = <<>>
    /\ phase = "booting" => found = row

Rank(op) == IF op = "find" THEN 1 ELSE IF op = "check" THEN 2 ELSE IF op = "select" THEN 3
            ELSE IF op \in {"insert", "update"} THEN 4 ELSE 5

\* The handler of a has come further than that of b.
Further(a, i, b, j) == Rank(a.op) > Rank(b.op) \/ (Rank(a.op) = Rank(b.op) /\ i < j)
Earlier(a, b) == a.count < b.count /\ a.ver < b.ver

\* Who has come further is of an earlier transition.
InOrder ==
    \A i, j \in 1 .. Len(queue) :
        Further(queue[i], i, queue[j], j) => Earlier(queue[i], queue[j])

\* The init event of a resumed machine, which will not be stored.
Skipped(call) == call.op = "find" /\ call.init /\ call.count > 1

AheadOf(call, r) ==
    call.op # "delete" => call.count > r.count /\ (Skipped(call) \/ call.ver > r.ver)

\* The row is behind the calls, and these are not ahead of the machine.
Ahead == \A i \in 1 .. Len(queue) : AheadOf(queue[i], row)

Behind ==
    /\ row.count <= count /\ row.ver <= ver
    /\ \A i \in 1 .. Len(queue) : queue[i].count <= count /\ queue[i].ver <= ver

\* Only the last event of a machine that is over is final, or deletes.
FinalCall(call) ==
    /\ call.done => over /\ call.count \in {0, count}
    /\ call.op = "delete" => call.done /\ cleanup # "off"

Finals == \A i \in 1 .. Len(queue) : FinalCall(queue[i])

\* No handler finds the row of a machine that is over, as only the last event stores it.
Complete ==
    /\ row.completed => /\ phase \notin {"new", "booting"}
                        /\ phase = "up" => over /\ row.count = count
    /\ \A i \in 1 .. Len(queue) : ~queue[i].completed

\* The row to update is there, unless it was deleted with its machine.
Present(call) == call.op = "update" => row # NoRow \/ (over /\ cleanup # "off")
Updates == \A i \in 1 .. Len(queue) : Present(queue[i])

\* The state the machine is in is on its way, stored, or stored and cleaned up;
\* or its insert was refused, as that of an earlier state had come first.
Latest(call) ==
    call.op # "delete" /\ ~Skipped(call)
    /\ call.count = count /\ call.ver = ver /\ call.done = over

Settled ==
    \/ phase # "up"
    \/ ~refused /\ \E i \in 1 .. Len(queue) : Latest(queue[i])
    \/ refused /\ queue = <<>> /\ row # NoRow /\ ~row.completed /\ row.ver < ver
    \/ ~refused /\ ~over /\ row.ver = ver
    \/ /\ ~refused /\ over /\ \A i \in 1 .. Len(queue) : queue[i].op = "delete"
       /\ IF cleanup = "off" THEN row.completed ELSE row = NoRow \/ queue # <<>>

\* The delete of onDone is answered before the last handler is at its save.
EarlyDelete(call) == call.op = "delete" /\ call.count = 0
Early ==
    \A i \in 1 .. Len(queue) : EarlyDelete(queue[i]) =>
        \E k \in 1 .. Len(queue) :
            /\ Latest(queue[k])
            /\ queue[k].op = "find" \/ (queue[k].op = "check" /\ k > i)

LocalInv == Alone /\ InOrder /\ Ahead /\ Behind /\ Finals /\ Complete /\ Updates /\ Settled /\ Early

IInv == TypeInv /\ (deployment = "local" => LocalInv)
-----------------------------------------------------------------------------
\* A sequence with one more element.
LEMMA OneMore ==
    ASSUME NEW S, NEW s \in Seq(S), NEW e \in S
    PROVE  /\ s \o <<e>> = Append(s, e) /\ Append(s, e) \in Seq(S)
           /\ Len(Append(s, e)) = Len(s) + 1 /\ Append(s, e)[Len(s) + 1] = e
           /\ \A k \in 1 .. Len(s) : Append(s, e)[k] = s[k]
  <1>1. /\ Append(s, e) \in Seq(S) /\ Len(Append(s, e)) = Len(s) + 1
        /\ Append(s, e)[Len(s) + 1] = e
        /\ \A k \in 1 .. Len(s) : Append(s, e)[k] = s[k]
    BY AppendProperties
  <1>2. s \o <<e>> = Append(s, e)
    OBVIOUS
  <1> QED
    BY <1>1, <1>2

\* A sequence without its j-th element.
LEMMA OneLess ==
    ASSUME NEW S, NEW s \in Seq(S), NEW j \in 1 .. Len(s)
    PROVE  /\ RemoveAt(s, j) \in Seq(S) /\ Len(RemoveAt(s, j)) = Len(s) - 1
           /\ \A k \in 1 .. Len(s) - 1 : RemoveAt(s, j)[k] = s[IF k < j THEN k ELSE k + 1]
  <1> DEFINE n == Len(s)
             a == SubSeq(s, 1, j - 1)
             b == SubSeq(s, j + 1, n)
  <1>1. n \in Nat /\ \A i \in 1 .. n : s[i] \in S
    BY ElementOfSeq, LenProperties
  <1>2. a \in Seq(S) /\ Len(a) = j - 1 /\ \A i \in 1 .. j - 1 : a[i] = s[i]
    <2>1. 1 \in Int /\ j - 1 \in Int /\ \A i \in 1 .. j - 1 : s[i] \in S
      BY <1>1
    <2>2. /\ a \in Seq(S) /\ Len(a) = IF 1 <= j - 1 THEN j - 1 - 1 + 1 ELSE 0
          /\ \A i \in 1 .. j - 1 - 1 + 1 : a[i] = s[1 + i - 1]
      BY <2>1, SubSeqProperties
    <2> HIDE DEF a
    <2> QED
      BY <2>2, <1>1
  <1>3. b \in Seq(S) /\ Len(b) = n - j /\ \A i \in 1 .. n - j : b[i] = s[j + i]
    <2>1. j + 1 \in Int /\ n \in Int /\ \A i \in j + 1 .. n : s[i] \in S
      BY <1>1
    <2>2. /\ b \in Seq(S) /\ Len(b) = IF j + 1 <= n THEN n - (j + 1) + 1 ELSE 0
          /\ \A i \in 1 .. n - (j + 1) + 1 : b[i] = s[j + 1 + i - 1]
      <3> HIDE DEF n
      <3> QED
        BY <2>1, SubSeqProperties
    <2>3. j \in 1 .. n
      OBVIOUS
    <2> HIDE DEF b, n
    <2>4. Len(b) = n - j
      BY <1>1, <2>2, <2>3
    <2>5. \A i \in 1 .. n - j : i \in 1 .. n - (j + 1) + 1 /\ j + 1 + i - 1 = j + i
      BY <1>1, <2>3
    <2> QED
      BY <2>2, <2>4, <2>5
  <1>4. /\ a \o b \in Seq(S) /\ Len(a \o b) = Len(a) + Len(b)
        /\ \A i \in 1 .. Len(a) + Len(b) : (a \o b)[i] = IF i <= Len(a) THEN a[i] ELSE b[i - Len(a)]
    <2>1. a \in Seq(S) /\ b \in Seq(S)
      BY <1>2, <1>3
    <2> HIDE DEF a, b
    <2> QED
      BY <2>1, ConcatProperties
  <1>5. RemoveAt(s, j) = a \o b
    BY DEF RemoveAt
  <1> HIDE DEF a, b, n
  <1>6. Len(a \o b) = n - 1 /\ \A k \in 1 .. n - 1 : (a \o b)[k] = s[IF k < j THEN k ELSE k + 1]
    <2>1. j \in 1 .. n
      BY DEF n
    <2>2. Len(a \o b) = n - 1
      BY <1>1, <1>2, <1>3, <1>4, <2>1
    <2>3. ASSUME NEW k \in 1 .. n - 1
          PROVE  (a \o b)[k] = s[IF k < j THEN k ELSE k + 1]
      <3>1. CASE k < j
        BY <1>1, <1>2, <1>3, <1>4, <2>1, <3>1
      <3>2. CASE ~(k < j)
        <4>1. (a \o b)[k] = b[k - (j - 1)] /\ k - (j - 1) \in 1 .. n - j
          BY <1>1, <1>2, <1>3, <1>4, <2>1, <3>2
        <4>2. j + (k - (j - 1)) = k + 1
          BY <1>1, <2>1
        <4> QED
          BY <1>3, <4>1, <4>2, <3>2
      <3> QED
        BY <3>1, <3>2
    <2> QED
      BY <2>2, <2>3
  <1> QED
    BY <1>4, <1>5, <1>6 DEF n
-----------------------------------------------------------------------------
\* What a transition appends.
LEMMA TransitionAppends ==
    ASSUME TypeInv, NEW done \in BOOLEAN, Transition(done)
    PROVE  LET e == Call("find", count + 1, ver + 1, phase = "new", done)
               n == Len(queue)
           IN /\ e \in Calls /\ ver + 1 \in Version /\ queue' \in Seq(Calls)
              /\ queue'[n + 1] = e /\ \A k \in 1 .. n : queue'[k] = queue[k]
              /\ \/ Len(queue') = n + 1
                 \/ Len(queue') = n + 2 /\ queue'[n + 2] = DeleteCall /\ done /\ cleanup = "on"
  <1> DEFINE e == Call("find", count + 1, ver + 1, phase = "new", done)
             n == Len(queue)
             q == Append(queue, e)
  <1>1. n \in Nat /\ queue \in Seq(Calls) /\ MaxVersion[deployment] \in Nat
    BY LenProperties DEF TypeInv, CallType, MachineType
  <1>2. ver + 1 \in Version /\ count + 1 \in Nat
    BY <1>1 DEF Transition, TypeInv, MachineType, Version
  <1>3. e \in Calls /\ DeleteCall \in Calls
    BY <1>1, <1>2 DEF Call, Calls, Stages, DeleteCall, Version
  <1>4. count' = count + 1 /\ ver' = ver + 1
    BY DEF Transition
  <1>5. queue' = queue \o <<e>> \o (IF done /\ cleanup = "on" THEN <<DeleteCall>> ELSE <<>>)
    BY <1>4, Zenon DEF Transition
  <1> HIDE DEF e
  <1>6. /\ queue \o <<e>> = q /\ q \in Seq(Calls) /\ Len(q) = n + 1 /\ q[n + 1] = e
        /\ \A k \in 1 .. n : q[k] = queue[k]
    BY <1>1, <1>3, OneMore
  <1> HIDE DEF q
  <1>7. CASE ~(done /\ cleanup = "on")
    <2>1. queue' = q
      BY <1>5, <1>6, <1>7, ConcatEmptySeq
    <2> QED
      BY <1>2, <1>3, <1>6, <2>1 DEF e
  <1>8. CASE done /\ cleanup = "on"
    <2>1. queue' = q \o <<DeleteCall>>
      BY <1>5, <1>6, <1>8
    <2>2. /\ queue' \in Seq(Calls) /\ Len(queue') = Len(q) + 1 /\ queue'[Len(q) + 1] = DeleteCall
          /\ \A k \in 1 .. Len(q) : queue'[k] = q[k]
      BY <1>3, <1>6, <2>1, OneMore
    <2>3. /\ Len(queue') = n + 2 /\ queue'[n + 2] = DeleteCall /\ queue'[n + 1] = e
          /\ \A k \in 1 .. n : queue'[k] = queue[k]
      BY <1>1, <1>6, <2>2
    <2> QED
      BY <1>2, <1>3, <1>8, <2>2, <2>3 DEF e
  <1> QED
    BY <1>7, <1>8

\* A handler's call is answered, and is the last one of the handler, or not.
Popped(j) ==
    /\ queue' \in Seq(Calls) /\ Len(queue') = Len(queue) - 1
    /\ \A k \in 1 .. Len(queue) - 1 : queue'[k] = queue[IF k < j THEN k ELSE k + 1]

Moved(j, op, completed) ==
    /\ queue' \in Seq(Calls) /\ Len(queue') = Len(queue)
    /\ \A k \in 1 .. Len(queue) - 1 : queue'[k] = queue[IF k < j THEN k ELSE k + 1]
    /\ LET e == queue'[Len(queue)]
       IN /\ e.op = op /\ e.count = queue[j].count /\ e.ver = queue[j].ver
          /\ e.init = queue[j].init /\ e.done = queue[j].done /\ e.completed = completed

\* A handler that ends takes its call with it.
LEMMA EndPops ==
    ASSUME CallType, NEW j \in 1 .. Len(queue), End(j)
    PROVE  Popped(j)
  BY OneLess DEF CallType, End, Popped

\* A handler that goes on has its next call behind the others.
LEMMA GoOnMoves ==
    ASSUME CallType, NEW j \in 1 .. Len(queue), NEW op \in Stages,
           NEW completed \in BOOLEAN, GoOn(j, op, completed)
    PROVE  Moved(j, op, completed)
  <1> DEFINE e == [queue[j] EXCEPT !.op = op, !.completed = completed]
             r == RemoveAt(queue, j)
             n == Len(queue)
  <1>1. queue[j] \in Calls /\ n \in Nat
    BY ElementOfSeq, LenProperties DEF CallType
  <1>2. /\ e \in Calls /\ e.op = op /\ e.count = queue[j].count /\ e.ver = queue[j].ver
        /\ e.init = queue[j].init /\ e.done = queue[j].done /\ e.completed = completed
    BY <1>1 DEF Calls
  <1>3. /\ r \in Seq(Calls) /\ Len(r) = n - 1
        /\ \A k \in 1 .. n - 1 : r[k] = queue[IF k < j THEN k ELSE k + 1]
    BY OneLess DEF CallType
  <1>4. queue' = Append(r, e)
    BY DEF GoOn
  <1> HIDE DEF e, r
  <1>5. /\ queue' \in Seq(Calls) /\ Len(queue') = Len(r) + 1 /\ queue'[Len(r) + 1] = e
        /\ \A k \in 1 .. Len(r) : queue'[k] = r[k]
    BY <1>2, <1>3, <1>4, OneMore
  <1>6. Len(queue') = n /\ queue'[n] = e /\ \A k \in 1 .. n - 1 : queue'[k] = r[k]
    BY <1>1, <1>3, <1>5
  <1> QED
    BY <1>2, <1>3, <1>5, <1>6 DEF Moved

\* What a save writes that is not refused; an update may find nothing.
Writes(call) ==
    /\ call.op = "update" \/ (call.op = "insert" /\ row = NoRow)
    /\ row' = IF call.op = "update" /\ row = NoRow THEN NoRow ELSE Stored(call)

\* An insert that is refused.
Clashes(call) ==
    /\ call.op = "insert" /\ row # NoRow /\ row' = row
    /\ refused' = (refused \/ OfPresentState(call))

\* What an answered call does to the row and to its handler.
Outcome(j) ==
    LET h == queue[j]
    IN \/ Skipped(h) /\ Popped(j) /\ UNCHANGED <<row, refused>>
       \/ h.op = "find" /\ ~Skipped(h) /\ Moved(j, "check", row.completed) /\ UNCHANGED <<row, refused>>
       \/ h.op = "check" /\ Older(h) /\ Popped(j) /\ UNCHANGED <<row, refused>>
       \/ h.op = "check" /\ Moved(j, "select", h.completed) /\ UNCHANGED <<row, refused>>
       \/ /\ h.op = "select" /\ UNCHANGED <<row, refused>>
          /\ IF row = NoRow THEN Moved(j, "insert", h.completed) ELSE Moved(j, "update", h.completed)
       \/ /\ Writes(h) /\ UNCHANGED refused
          /\ IF CleansUp(h) THEN Moved(j, "delete", h.completed) ELSE Popped(j)
       \/ Clashes(h) /\ Popped(j)
       \/ h.op = "delete" /\ Popped(j) /\ row' = NoRow /\ UNCHANGED refused

\* Some call is answered, and nothing else happens.
LEMMA ServeIs ==
    ASSUME TypeInv, Serve
    PROVE  /\ \E j \in Servable : Outcome(j)
           /\ UNCHANGED <<options, phase, over, run, count, ver, found>>
  <1> PICK j \in Servable : Find(j) \/ Check(j) \/ Select(j) \/ Insert(j) \/ Update(j) \/ Delete(j)
    BY DEF Serve
  <1> DEFINE h == queue[j]
  <1>1. j \in 1 .. Len(queue) /\ CallType
    BY DEF Servable, TypeInv
  <1>2. h.completed \in BOOLEAN /\ h.done \in BOOLEAN
    <2>1. h \in Calls
      BY <1>1, ElementOfSeq DEF CallType
    <2> QED
      BY <2>1 DEF Calls
  <1>3. row.completed \in BOOLEAN
    <2>1. CASE row \in SavedRow
      BY <2>1 DEF SavedRow
    <2>2. CASE row = NoRow
      BY <2>2 DEF NoRow
    <2> QED
      BY <2>1, <2>2 DEF TypeInv, RowType
  <1>4. ASSUME NEW op \in Stages, NEW completed \in BOOLEAN, GoOn(j, op, completed)
        PROVE  Moved(j, op, completed)
    BY <1>1, <1>4, GoOnMoves
  <1>5. End(j) => Popped(j)
    BY <1>1, EndPops
  <1>6. "check" \in Stages /\ "select" \in Stages /\ "insert" \in Stages /\ "update" \in Stages
        /\ "delete" \in Stages
    BY DEF Stages
  <1>7. Saved(j) => IF CleansUp(h) THEN Moved(j, "delete", h.completed) ELSE Popped(j)
    BY <1>2, <1>4, <1>5, <1>6 DEF Saved
  <1>8. Outcome(j)
    <2>1. CASE Find(j)
      <3>1. IF h.init /\ h.count > 1 THEN End(j) ELSE GoOn(j, "check", row.completed)
        BY <2>1 DEF Find
      <3>2. IF h.init /\ h.count > 1 THEN Popped(j) ELSE Moved(j, "check", row.completed)
        BY <1>3, <1>4, <1>5, <1>6, <3>1
      <3> QED
        BY <2>1, <3>2 DEF Find, Outcome, Skipped
    <2>2. CASE Check(j)
      <3>1. IF Older(h) THEN Popped(j) ELSE Moved(j, "select", h.completed)
        BY <1>2, <1>4, <1>5, <1>6, <2>2 DEF Check
      <3> QED
        BY <2>2, <3>1 DEF Check, Outcome
    <2>3. CASE Select(j)
      <3>1. GoOn(j, IF row = NoRow THEN "insert" ELSE "update", h.completed)
        BY <2>3 DEF Select
      <3>2. IF row = NoRow THEN Moved(j, "insert", h.completed) ELSE Moved(j, "update", h.completed)
        BY <1>2, <1>4, <1>6, <3>1
      <3> QED
        BY <2>3, <3>2 DEF Select, Outcome
    <2>4. CASE Insert(j)
      BY <2>4, <1>5, <1>7 DEF Insert, Outcome, Clashes, Writes
    <2>5. CASE Update(j)
      BY <2>5, <1>7 DEF Update, Outcome, Writes
    <2>6. CASE Delete(j)
      BY <2>6, <1>5 DEF Delete, Outcome
    <2> QED
      BY <2>1, <2>2, <2>3, <2>4, <2>5, <2>6
  <1>9. UNCHANGED <<options, phase, over, run, count, ver, found>>
    BY DEF Serve
  <1> QED
    BY <1>8, <1>9
-----------------------------------------------------------------------------
\* At first nothing is stored and nothing under way.
LEMMA InitIsIn == Init => IInv
  <1> SUFFICES ASSUME Init PROVE IInv
    OBVIOUS
  <1>1. MachineType
    <2>1. MaxVersion[deployment] \in Nat \ {0} /\ MaxRun[deployment] \in Nat \ {0}
      BY DEF Init
    <2>2. over \in BOOLEAN
      BY DEF Init
    <2>3. 0 \in 0 .. MaxVersion[deployment] /\ 1 \in 1 .. MaxRun[deployment] /\ 0 \in Nat
      BY <2>1
    <2> QED
      BY <2>1, <2>2, <2>3 DEF Init, MachineType, Version
  <1>2. RowType /\ CallType
    BY EmptySeq DEF Init, RowType, CallType
  <1>3. LocalInv
    BY EmptySeq DEF Init, LocalInv, Alone, InOrder, Ahead, Behind, Finals, Complete, Updates, Settled, Early,
       NoRow
  <1> QED
    BY <1>1, <1>2, <1>3 DEF IInv, TypeInv

\* The calls keep their type when one is answered.
LEMMA AnsweredCalls ==
    ASSUME CallType, NEW j \in 1 .. Len(queue), Outcome(j), UNCHANGED deployment
    PROVE  CallType'
  <1> DEFINE n == Len(queue)
  <1>1. n \in Nat /\ queue \in Seq(Calls) /\ \A i \in 1 .. n : Numbered(queue[i])
    BY LenProperties DEF CallType
  <1>2. Calls' = Calls
    BY DEF Calls, Version
  <1>3. CASE Popped(j)
    <2>1. queue' \in Seq(Calls) /\ Len(queue') = n - 1
      BY <1>3 DEF Popped
    <2>2. ASSUME NEW k \in 1 .. n - 1 PROVE Numbered(queue'[k])
      <3>1. queue'[k] = queue[IF k < j THEN k ELSE k + 1]
        BY <1>3 DEF Popped
      <3>2. (IF k < j THEN k ELSE k + 1) \in 1 .. n
        BY <1>1
      <3> QED
        BY <1>1, <3>1, <3>2
    <2> QED
      BY <1>2, <2>1, <2>2 DEF CallType, Numbered
  <1>4. ASSUME NEW op \in Stages, NEW completed, queue[j].op # "delete", Moved(j, op, completed)
        PROVE  CallType'
    <2>1. queue' \in Seq(Calls) /\ Len(queue') = n
      BY <1>4 DEF Moved
    <2>2. ASSUME NEW k \in 1 .. n PROVE Numbered(queue'[k])
      <3>1. CASE k = n
        BY <1>1, <1>4, <3>1 DEF Moved, Numbered
      <3>2. CASE k \in 1 .. n - 1
        <4>1. queue'[k] = queue[IF k < j THEN k ELSE k + 1]
          BY <1>4, <3>2 DEF Moved
        <4>2. (IF k < j THEN k ELSE k + 1) \in 1 .. n
          BY <1>1, <3>2
        <4> QED
          BY <1>1, <4>1, <4>2
      <3> QED
        BY <1>1, <3>1, <3>2
    <2> QED
      BY <1>2, <2>1, <2>2 DEF CallType, Numbered
  <1>5. \/ Popped(j)
        \/ queue[j].op # "delete" /\ \E op \in Stages : \E completed : Moved(j, op, completed)
    BY DEF Outcome, Clashes, Skipped, Writes, Stages
  <1> QED
    BY <1>3, <1>4, <1>5

\* The types, in both deployments.
LEMMA TypeKept ==
    ASSUME TypeInv, [Next]_vars
    PROVE  TypeInv'
  <1> USE DEF MachineType
  <1>1. CASE UNCHANGED vars
    BY <1>1 DEF vars, options, TypeInv, RowType, SavedRow, CallType, Calls, Version, Numbered
  <1>2. ASSUME NEW done \in BOOLEAN, Transition(done) PROVE TypeInv'
    <2>1. UNCHANGED <<deployment, cleanup, run, found, row>> /\ phase' = "up" /\ over' = done
          /\ refused' = FALSE
          /\ phase # "booting" /\ count' = count + 1 /\ ver' = ver + 1
      BY <1>2 DEF Transition, options
    <2> DEFINE n == Len(queue)
               e == Call("find", count + 1, ver + 1, phase = "new", done)
    <2>2. /\ e \in Calls /\ ver + 1 \in Version /\ queue' \in Seq(Calls)
          /\ queue'[n + 1] = e /\ \A k \in 1 .. n : queue'[k] = queue[k]
          /\ \/ Len(queue') = n + 1
             \/ Len(queue') = n + 2 /\ queue'[n + 2] = DeleteCall
      BY <1>2, TransitionAppends
    <2>3. n \in Nat /\ \A k \in 1 .. n : Numbered(queue[k])
      BY LenProperties DEF TypeInv, CallType
    <2>4. Numbered(e) /\ Numbered(DeleteCall)
      BY DEF Numbered, Call, DeleteCall, TypeInv, Version
    <2>5. \A k \in 1 .. Len(queue') : Numbered(queue'[k])
      <3> HIDE DEF e, n
      <3> SUFFICES ASSUME NEW k \in 1 .. Len(queue') PROVE Numbered(queue'[k])
        OBVIOUS
      <3>1. k \in 1 .. n \/ k = n + 1 \/ (k = n + 2 /\ queue'[n + 2] = DeleteCall)
        BY <2>2, <2>3
      <3> QED
        BY <2>2, <2>3, <2>4, <3>1
    <2>6. MachineType'
      <3>1. over' \in BOOLEAN /\ refused' \in BOOLEAN
        BY <2>1
      <3> QED
        BY <2>1, <2>2, <3>1 DEF TypeInv, Version
    <2>7. RowType'
      BY <2>1 DEF TypeInv, RowType, SavedRow, Version
    <2>8. CallType'
      BY <2>1, <2>2, <2>5 DEF CallType, Calls, Version, Numbered
    <2> QED
      BY <2>6, <2>7, <2>8 DEF TypeInv
  <1>3. CASE Crash
    <2>1. UNCHANGED <<deployment, cleanup, over, run, count, ver, row, refused>> /\ phase' = "down"
          /\ found' = NoRow /\ queue' \in {queue, <<>>}
      BY <1>3 DEF Crash, options
    <2>2. CASE queue' = queue
      BY <2>1, <2>2 DEF TypeInv, RowType, SavedRow, CallType, Calls, Version, Numbered
    <2>3. CASE queue' = <<>>
      <3>1. CallType'
        BY <2>3, EmptySeq DEF CallType
      <3> QED
        BY <2>1, <3>1 DEF TypeInv, RowType, SavedRow, Version
    <2> QED
      BY <2>1, <2>2, <2>3
  <1>4. CASE FindActive
    <2>1. UNCHANGED <<deployment, cleanup, over, run, count, ver, row, queue, refused>>
          /\ phase' = "booting" /\ found' = row /\ row # NoRow /\ run < MaxRun[deployment]
      BY <1>4 DEF FindActive, options
    <2>2. CallType'
      BY <2>1 DEF TypeInv, CallType, Calls, Version, Numbered
    <2> QED
      BY <2>1, <2>2 DEF TypeInv, RowType, SavedRow, Version
  <1>5. CASE Resume
    <2>1. UNCHANGED <<deployment, cleanup, row>> /\ phase = "booting" /\ phase' = "up"
          /\ over' = FALSE /\ found' = NoRow /\ run' = run + 1 /\ ver' = found.ver /\ refused' = FALSE
          /\ count' = row.count + 1 /\ row # NoRow
      BY <1>5 DEF Resume, options, ResumedVersion, ResumedCounter
    <2>2. row \in SavedRow /\ found \in SavedRow
      BY <2>1 DEF TypeInv, RowType
    <2>3. ver' \in Version \ {0} /\ count' \in Nat \ {0}
      BY <2>1, <2>2 DEF SavedRow
    <2> DEFINE e == Call("find", count', ver', TRUE, FALSE)
    <2>4. e \in Calls /\ Numbered(e)
      BY <2>3 DEF Call, Calls, Stages, Numbered, Version
    <2>5. queue' = Append(queue, e) /\ queue \in Seq(Calls) /\ Len(queue) \in Nat
          /\ \A k \in 1 .. Len(queue) : Numbered(queue[k])
      BY <1>5, LenProperties DEF Resume, TypeInv, CallType
    <2> HIDE DEF e
    <2>6. /\ queue' \in Seq(Calls) /\ Len(queue') = Len(queue) + 1 /\ queue'[Len(queue) + 1] = e
          /\ \A k \in 1 .. Len(queue) : queue'[k] = queue[k]
      BY <2>4, <2>5, OneMore
    <2>7. \A k \in 1 .. Len(queue') : Numbered(queue'[k])
      BY <2>4, <2>5, <2>6
    <2>8. CallType'
      BY <2>1, <2>6, <2>7 DEF CallType, Calls, Version, Numbered
    <2>9. RowType'
      BY <2>1, <2>2 DEF RowType, SavedRow, Version
    <2>10. MachineType'
      <3>1. deployment \in Deployments /\ MaxRun[deployment] \in Nat /\ run < MaxRun[deployment]
        BY <2>1 DEF TypeInv
      <3>2. run + 1 \in 1 .. MaxRun[deployment]
        BY <3>1 DEF TypeInv
      <3>3. over' \in BOOLEAN
        BY <2>1
      <3>4. Version' = Version
        BY <2>1 DEF Version
      <3> QED
        BY <2>1, <2>3, <3>1, <3>2, <3>3, <3>4 DEF TypeInv
    <2> QED
      BY <2>8, <2>9, <2>10 DEF TypeInv
  <1>6. CASE ResumeGone
    <2>1. UNCHANGED <<deployment, cleanup, over, run, count, ver, row, queue, refused>>
          /\ phase' = "stuck" /\ found' = NoRow
      BY <1>6 DEF ResumeGone, options
    <2>2. CallType'
      BY <2>1 DEF TypeInv, CallType, Calls, Version, Numbered
    <2> QED
      BY <2>1, <2>2 DEF TypeInv, RowType, SavedRow, Version
  <1>7. CASE Serve
    <2>1. PICK j \in Servable : Outcome(j)
      BY <1>7, ServeIs
    <2>2. UNCHANGED <<deployment, cleanup, phase, over, run, count, ver, found>>
      BY <1>7, ServeIs DEF options
    <2>3. j \in 1 .. Len(queue) /\ queue[j] \in Calls /\ Numbered(queue[j])
      BY ElementOfSeq DEF TypeInv, CallType, Servable
    <2>4. CallType'
      BY <2>1, <2>2, <2>3, AnsweredCalls DEF TypeInv
    <2>5. row' \in SavedRow \cup {NoRow}
      <3>1. CASE row' = row \/ row' = NoRow
        BY <3>1 DEF TypeInv, RowType
      <3>2. CASE row' = Stored(queue[j]) /\ queue[j].op # "delete"
        <4>1. row.completed \in BOOLEAN
          <5>1. row \in SavedRow \/ row = NoRow
            BY DEF TypeInv, RowType
          <5>2. CASE row \in SavedRow
            BY <5>2 DEF SavedRow
          <5>3. CASE row = NoRow
            BY <5>3 DEF NoRow
          <5> QED
            BY <5>1, <5>2, <5>3
        <4>2. queue[j].count \in Nat \ {0} /\ queue[j].ver \in Version \ {0}
              /\ (row.completed \/ Completed(queue[j])) \in BOOLEAN
          BY <2>3, <3>2, <4>1 DEF Calls, Numbered, Version, Completed
        <4> QED
          BY <3>2, <4>2 DEF SavedRow, Stored
      <3> QED
        BY <2>1, <3>1, <3>2 DEF Outcome, Clashes, Writes
    <2>7. refused' \in BOOLEAN
      BY <2>1 DEF Outcome, Clashes, OfPresentState, TypeInv
    <2>6. RowType'
      BY <2>2, <2>5 DEF TypeInv, RowType, SavedRow, Version
    <2> QED
      BY <2>2, <2>4, <2>6, <2>7 DEF TypeInv, Version
  <1> QED
    BY <1>1, <1>2, <1>3, <1>4, <1>5, <1>6, <1>7 DEF Next
-----------------------------------------------------------------------------
\* Numbers of a call, of the row and of the machine.
LEMMA Counted ==
    ASSUME TypeInv
    PROVE  /\ Len(queue) \in Nat /\ count \in Nat /\ ver \in Nat
           /\ row.count \in Nat /\ row.ver \in Nat
           /\ \A i \in 1 .. Len(queue) :
                 /\ queue[i].op \in Stages
                 /\ queue[i].count \in Nat /\ queue[i].ver \in Nat
                 /\ queue[i].op # "delete" => queue[i].count > 0 /\ queue[i].ver > 0
  <1>1. Len(queue) \in Nat /\ queue \in Seq(Calls)
    BY LenProperties DEF TypeInv, CallType
  <1>2. count \in Nat /\ ver \in Nat
    BY DEF TypeInv, MachineType, Version
  <1>3. row.count \in Nat /\ row.ver \in Nat
    <2>1. CASE row \in SavedRow
      BY <2>1 DEF SavedRow, Version
    <2>2. CASE row = NoRow
      BY <2>2 DEF NoRow
    <2> QED
      BY <2>1, <2>2 DEF TypeInv, RowType
  <1>4. ASSUME NEW i \in 1 .. Len(queue)
        PROVE  /\ queue[i].op \in Stages
               /\ queue[i].count \in Nat /\ queue[i].ver \in Nat
               /\ queue[i].op # "delete" => queue[i].count > 0 /\ queue[i].ver > 0
    <2>1. queue[i] \in Calls /\ Numbered(queue[i])
      BY <1>1, ElementOfSeq DEF TypeInv, CallType
    <2> QED
      BY <2>1 DEF Calls, Version, Numbered
  <1> QED
    BY <1>1, <1>2, <1>3, <1>4

\* A transition's event is later than all that is under way.
LEMMA LocalTransition ==
    ASSUME TypeInv, LocalInv, NEW done \in BOOLEAN, Transition(done)
    PROVE  LocalInv'
  <1> DEFINE n == Len(queue)
             e == Call("find", count + 1, ver + 1, phase = "new", done)
  <1>1. UNCHANGED <<deployment, cleanup, row>> /\ phase \in {"new", "up"} /\ phase' = "up"
        /\ ~over /\ over' = done /\ count' = count + 1 /\ ver' = ver + 1 /\ refused' = FALSE
    BY DEF Transition, options
  <1>2. /\ queue'[n + 1] = e /\ \A k \in 1 .. n : queue'[k] = queue[k]
        /\ \/ Len(queue') = n + 1
           \/ Len(queue') = n + 2 /\ queue'[n + 2] = DeleteCall /\ done /\ cleanup = "on"
    BY TransitionAppends
  <1>3. /\ e.op = "find" /\ e.count = count + 1 /\ e.ver = ver + 1 /\ e.init = (phase = "new")
        /\ e.done = done /\ ~e.completed
    BY DEF Call
  <1>4. DeleteCall.op = "delete" /\ DeleteCall.count = 0 /\ DeleteCall.ver = 0 /\ DeleteCall.done
        /\ ~DeleteCall.completed
    BY DEF DeleteCall, Call
  <1>5. /\ n \in Nat /\ count \in Nat /\ ver \in Nat /\ row.count \in Nat /\ row.ver \in Nat
        /\ \A i \in 1 .. n :
              /\ queue[i].op \in Stages
              /\ queue[i].count \in Nat /\ queue[i].ver \in Nat
              /\ queue[i].op # "delete" => queue[i].count > 0 /\ queue[i].ver > 0
    BY Counted
  <1>6. \A i \in 1 .. n : queue[i].op # "delete" /\ ~queue[i].done
    BY <1>1 DEF LocalInv, Finals, FinalCall
  <1> HIDE DEF n, e
  <1>7. \A k \in 1 .. Len(queue') :
           \/ k \in 1 .. n /\ queue'[k] = queue[k]
           \/ k = n + 1 /\ queue'[k] = e
           \/ k = n + 2 /\ queue'[k] = DeleteCall /\ done /\ cleanup = "on"
    BY <1>2, <1>5
  <1>8. Alone'
    BY <1>1 DEF Alone
  <1>9. InOrder'
    <2> SUFFICES ASSUME NEW i \in 1 .. Len(queue'), NEW j \in 1 .. Len(queue'),
                        Further(queue'[i], i, queue'[j], j)
                 PROVE  Earlier(queue'[i], queue'[j])
      BY DEF InOrder
    <2>1. CASE i \in 1 .. n /\ queue'[i] = queue[i]
      <3>1. CASE j \in 1 .. n /\ queue'[j] = queue[j]
        BY <2>1, <3>1 DEF LocalInv, InOrder, n
      <3>2. CASE j = n + 1 /\ queue'[j] = e
        BY <2>1, <3>2, <1>3, <1>5 DEF LocalInv, Behind, Earlier, n
      <3>3. CASE j = n + 2 /\ queue'[j] = DeleteCall
        BY <2>1, <3>3, <1>4, <1>5, <1>6 DEF Further, Rank, Stages
      <3> QED
        BY <1>7, <3>1, <3>2, <3>3
    <2>2. CASE i = n + 1 /\ queue'[i] = e
      <3>1. CASE j \in 1 .. n /\ queue'[j] = queue[j]
        BY <2>2, <3>1, <1>3, <1>5 DEF Further, Rank
      <3>2. CASE j = n + 1
        BY <2>2, <3>2, <1>3, <1>5 DEF Further, Rank
      <3>3. CASE j = n + 2 /\ queue'[j] = DeleteCall
        BY <2>2, <3>3, <1>3, <1>4, <1>5 DEF Further, Rank
      <3> QED
        BY <1>7, <3>1, <3>2, <3>3
    <2>3. CASE i = n + 2 /\ queue'[i] = DeleteCall
      <3>1. CASE j \in 1 .. n /\ queue'[j] = queue[j]
        BY <2>3, <3>1, <1>4, <1>5, <1>6 DEF Earlier
      <3>2. CASE j = n + 1 /\ queue'[j] = e
        BY <2>3, <3>2, <1>3, <1>4, <1>5 DEF Earlier
      <3>3. CASE j = n + 2
        BY <2>3, <3>3, <1>4, <1>5 DEF Further, Rank
      <3> QED
        BY <1>7, <3>1, <3>2, <3>3
    <2> QED
      BY <1>7, <2>1, <2>2, <2>3
  <1>10. row.count <= count /\ row.ver <= ver
    BY DEF LocalInv, Behind
  <1>11. Ahead'
    <2>1. ASSUME NEW k \in 1 .. Len(queue') PROVE AheadOf(queue'[k], row)
      <3>1. CASE k \in 1 .. n /\ queue'[k] = queue[k]
        BY <3>1 DEF LocalInv, Ahead, n
      <3>2. CASE queue'[k] = e
        BY <3>2, <1>3, <1>5, <1>10 DEF AheadOf
      <3>3. CASE queue'[k] = DeleteCall
        BY <3>3, <1>4 DEF AheadOf
      <3> QED
        BY <1>7, <3>1, <3>2, <3>3
    <2> QED
      BY <2>1, <1>1 DEF Ahead
  <1>12. Behind'
    <2>1. ASSUME NEW k \in 1 .. Len(queue')
          PROVE  queue'[k].count <= count + 1 /\ queue'[k].ver <= ver + 1
      <3>1. CASE k \in 1 .. n /\ queue'[k] = queue[k]
        BY <3>1, <1>5 DEF LocalInv, Behind, n
      <3>2. CASE queue'[k] = e
        BY <3>2, <1>3, <1>5
      <3>3. CASE queue'[k] = DeleteCall
        BY <3>3, <1>4, <1>5
      <3> QED
        BY <1>7, <3>1, <3>2, <3>3
    <2> QED
      BY <2>1, <1>1, <1>5, <1>10 DEF Behind
  <1>13. Finals'
    <2>1. ASSUME NEW k \in 1 .. Len(queue')
          PROVE  /\ queue'[k].done => over' /\ queue'[k].count \in {0, count'}
                 /\ queue'[k].op = "delete" => queue'[k].done /\ cleanup' # "off"
      <3>1. CASE k \in 1 .. n /\ queue'[k] = queue[k]
        BY <3>1, <1>6
      <3>2. CASE queue'[k] = e
        BY <3>2, <1>1, <1>3
      <3>3. CASE queue'[k] = DeleteCall /\ done /\ cleanup = "on"
        BY <3>3, <1>1, <1>4
      <3> QED
        BY <1>7, <3>1, <3>2, <3>3
    <2> QED
      BY <2>1 DEF Finals, FinalCall
  <1>15. ~row.completed /\ \A i \in 1 .. n : ~queue[i].completed
    BY <1>1 DEF LocalInv, Complete, n
  <1>16. Complete'
    <2>1. \A k \in 1 .. Len(queue') : ~queue'[k].completed
      BY <1>3, <1>4, <1>7, <1>15
    <2> QED
      BY <2>1, <1>1, <1>15 DEF Complete
  <1>17. Updates'
    <2>1. ASSUME NEW k \in 1 .. Len(queue')
          PROVE  queue'[k].op = "update" => row' # NoRow \/ (over' /\ cleanup' # "off")
      <3>1. CASE k \in 1 .. n /\ queue'[k] = queue[k]
        BY <3>1, <1>1 DEF LocalInv, Updates, Present, n
      <3>2. CASE queue'[k] = e \/ queue'[k] = DeleteCall
        BY <3>2, <1>3, <1>4
      <3> QED
        BY <1>7, <3>1, <3>2
    <2> QED
      BY <2>1 DEF Updates, Present
  <1>14. Settled' /\ Early'
    <2>1. ~(e.init /\ e.count > 1)
      <3>1. CASE phase = "new"
        BY <3>1, <1>3 DEF LocalInv, Alone
      <3>2. CASE phase # "new"
        BY <3>2, <1>3
      <3> QED
        BY <3>1, <3>2
    <2>2. n + 1 \in 1 .. Len(queue')
      BY <1>2, <1>5
    <2>3. /\ queue'[n + 1].op = "find" /\ ~Skipped(queue'[n + 1])
          /\ queue'[n + 1].count = count' /\ queue'[n + 1].ver = ver'
          /\ queue'[n + 1].done = over'
      BY <1>1, <1>2, <1>3, <2>1 DEF Skipped
    <2>4. Settled'
      BY <2>2, <2>3, <1>1 DEF Settled, Latest, Skipped
    <2>5. Early'
      BY <2>2, <2>3 DEF Early, Latest, Skipped
    <2> QED
      BY <2>4, <2>5
  <1> QED
    BY <1>8, <1>9, <1>11, <1>12, <1>13, <1>14, <1>16, <1>17 DEF LocalInv

\* A resumed machine has the state of the row, and the counter after it.
LEMMA LocalResume ==
    ASSUME TypeInv, LocalInv, Resume
    PROVE  LocalInv'
  <1> DEFINE e == Call("find", count', ver', TRUE, FALSE)
  <1>1. /\ phase = "booting" /\ phase' = "up" /\ over' = FALSE /\ row # NoRow /\ row' = row
        /\ count' = row.count + 1 /\ ver' = found.ver /\ deployment' = deployment
        /\ refused' = FALSE
    BY DEF Resume, ResumedCounter, ResumedVersion, options
  <1>2. found = row /\ queue = <<>>
    BY <1>1 DEF LocalInv, Alone
  <1>3. row \in SavedRow
    BY <1>1 DEF TypeInv, RowType
  <1>4. row.count \in Nat \ {0} /\ row.ver \in Nat \ {0}
    BY <1>3 DEF SavedRow, Version
  <1>5. /\ e.op = "find" /\ e.count = row.count + 1 /\ e.ver = row.ver /\ e.init /\ ~e.done /\ ~e.completed
    BY <1>1, <1>2 DEF Call
  <1>6. Len(queue') = 1 /\ queue'[1] = e
    <2>1. queue' = Append(<<>>, e)
      BY <1>2 DEF Resume
    <2> HIDE DEF e
    <2> QED
      BY <2>1
  <1> HIDE DEF e
  <1>7. Alone'
    BY <1>1 DEF Alone
  <1>8. InOrder'
    BY <1>5, <1>6 DEF InOrder, Further, Rank
  <1>9. Ahead'
    <2>1. Skipped(e) /\ e.count > row.count
      BY <1>4, <1>5 DEF Skipped
    <2> QED
      BY <2>1, <1>1, <1>6 DEF Ahead, AheadOf
  <1>10. Behind'
    BY <1>1, <1>2, <1>4, <1>5, <1>6 DEF Behind
  <1>11. Finals'
    <2>1. \A k \in 1 .. Len(queue') : ~queue'[k].done /\ queue'[k].op # "delete"
      BY <1>5, <1>6
    <2> QED
      BY <2>1 DEF Finals, FinalCall
  <1>12. Settled'
    BY <1>1, <1>2 DEF Settled
  <1>13. Complete' /\ Updates' /\ Early'
    <2>1. ~row.completed
      BY <1>1 DEF LocalInv, Complete
    <2>2. \A k \in 1 .. Len(queue') : queue'[k].op = "find" /\ ~queue'[k].completed
      BY <1>5, <1>6
    <2> QED
      BY <2>1, <2>2, <1>1 DEF Complete, Updates, Present, Early, EarlyDelete
  <1> QED
    BY <1>7, <1>8, <1>9, <1>10, <1>11, <1>12, <1>13 DEF LocalInv

\* Nothing is under way after a crash, while the machine is looked for, or never again.
LEMMA LocalAtRest ==
    ASSUME TypeInv, LocalInv, deployment = "local", Crash \/ FindActive \/ ResumeGone
    PROVE  LocalInv'
  <1>1. /\ UNCHANGED <<deployment, cleanup, over, count, ver, row>> /\ queue' = <<>>
        /\ phase' \in {"down", "booting", "stuck"}
        /\ (phase' = "booting" => found' = row /\ ~row.completed)
    BY DEF Crash, FindActive, ResumeGone, options, LocalInv, Alone
  <1>2. Len(queue') = 0
    BY <1>1
  <1>3. row.count <= count /\ row.ver <= ver
    BY DEF LocalInv, Behind
  <1>4. InOrder' /\ Ahead' /\ Finals' /\ Updates' /\ Early'
    BY <1>2 DEF InOrder, Ahead, Finals, Updates, Early
  <1>5. Alone' /\ Settled' /\ Complete'
    BY <1>1, <1>2 DEF Alone, Settled, Complete
  <1>6. Behind'
    BY <1>1, <1>2, <1>3 DEF Behind
  <1> QED
    BY <1>4, <1>5, <1>6 DEF LocalInv
-----------------------------------------------------------------------------
\* The calls that remain are the same, one place further to the front.
Shifted == \A k \in 1 .. Len(queue) - 1 : queue'[k] = queue[k + 1]

\* With one connection the first call is answered, and it was not refused.
LEMMA FirstIsServed ==
    ASSUME TypeInv, LocalInv, deployment = "local", Serve
    PROVE  LET h == queue[1]
               e == queue'[Len(queue)]
           IN /\ UNCHANGED <<deployment, cleanup, phase, over, run, count, ver, found>>
              /\ Len(queue) >= 1 /\ 1 \in 1 .. Len(queue) /\ phase = "up" /\ Shifted
              /\ \/ /\ Len(queue') = Len(queue) - 1
                    /\ \/ Skipped(h) /\ UNCHANGED <<row, refused>>
                       \/ Writes(h) /\ ~CleansUp(h) /\ UNCHANGED refused
                       \/ Clashes(h)
                       \/ h.op = "delete" /\ row' = NoRow /\ UNCHANGED refused
                 \/ /\ Len(queue') = Len(queue) /\ UNCHANGED refused
                    /\ e.count = h.count /\ e.ver = h.ver /\ e.init = h.init /\ e.done = h.done
                    /\ \/ /\ h.op = "find" /\ ~Skipped(h) /\ row' = row
                          /\ e.op = "check" /\ e.completed = row.completed
                       \/ /\ e.completed = h.completed
                          /\ \/ h.op = "check" /\ e.op = "select" /\ row' = row
                             \/ h.op = "select" /\ row' = row /\ row = NoRow /\ e.op = "insert"
                             \/ h.op = "select" /\ row' = row /\ row # NoRow /\ e.op = "update"
                             \/ Writes(h) /\ e.op = "delete" /\ CleansUp(h)
  <1> DEFINE h == queue[1]
             n == Len(queue)
  <1>1. PICK j \in Servable : Outcome(j)
    BY ServeIs
  <1>2. UNCHANGED <<deployment, cleanup, phase, over, run, count, ver, found>>
    BY ServeIs DEF options
  <1>3. n \in Nat /\ row.count \in Nat /\ \A i \in 1 .. n : queue[i].count \in Nat
    BY Counted
  <1>4. j = 1 /\ n >= 1 /\ 1 \in 1 .. n
    BY <1>1, <1>3 DEF Servable
  <1>5. phase = "up"
    BY <1>4 DEF LocalInv, Alone
  <1>6. h.op = "check" => ~Older(h)
    <2> SUFFICES ASSUME h.op = "check" PROVE ~Older(h)
      OBVIOUS
    <2>1. h.count > row.count
      BY <1>4 DEF LocalInv, Ahead, AheadOf
    <2> QED
      BY <2>1, <1>3, <1>4 DEF Older
  <1>7. CASE Popped(1)
    <2>1. Len(queue') = n - 1 /\ Shifted
      <3>1. \A k \in 1 .. n - 1 : queue'[k] = queue[IF k < 1 THEN k ELSE k + 1]
        BY <1>7 DEF Popped
      <3> QED
        BY <3>1, <1>3, <1>7 DEF Popped, Shifted
    <2>2. ASSUME NEW op, NEW completed, Moved(1, op, completed) PROVE FALSE
      BY <2>1, <2>2, <1>3 DEF Moved
    <2>3. \/ Skipped(h) /\ UNCHANGED <<row, refused>>
          \/ Writes(h) /\ ~CleansUp(h) /\ UNCHANGED refused
          \/ Clashes(h)
          \/ h.op = "delete" /\ row' = NoRow /\ UNCHANGED refused
      BY <1>1, <1>4, <1>6, <2>2 DEF Outcome
    <2> QED
      BY <1>2, <1>4, <1>5, <2>1, <2>3
  <1>8. ASSUME NEW op, NEW completed, Moved(1, op, completed)
        PROVE  LET e == queue'[n]
               IN /\ Len(queue') = n /\ Shifted
                  /\ e.count = h.count /\ e.ver = h.ver /\ e.init = h.init /\ e.done = h.done
                  /\ e.op = op /\ e.completed = completed
    <2>1. \A k \in 1 .. n - 1 : queue'[k] = queue[IF k < 1 THEN k ELSE k + 1]
      BY <1>8 DEF Moved
    <2>2. Shifted
      BY <2>1, <1>3 DEF Shifted
    <2> QED
      BY <2>2, <1>8 DEF Moved
  <1>9. CASE h.op = "find" /\ ~Skipped(h) /\ Moved(1, "check", row.completed) /\ UNCHANGED <<row, refused>>
    BY <1>2, <1>4, <1>5, <1>8, <1>9
  <1>10. CASE h.op = "check" /\ Moved(1, "select", h.completed) /\ UNCHANGED <<row, refused>>
    BY <1>2, <1>4, <1>5, <1>8, <1>10
  <1>11. CASE /\ h.op = "select" /\ UNCHANGED <<row, refused>>
              /\ IF row = NoRow THEN Moved(1, "insert", h.completed) ELSE Moved(1, "update", h.completed)
    BY <1>2, <1>4, <1>5, <1>8, <1>11
  <1>12. CASE Writes(h) /\ UNCHANGED refused /\ CleansUp(h) /\ Moved(1, "delete", h.completed)
    BY <1>2, <1>4, <1>5, <1>8, <1>12
  <1> QED
    BY <1>1, <1>4, <1>6, <1>7, <1>9, <1>10, <1>11, <1>12 DEF Outcome

\* The handler that is served is behind no later one, and comes one further.
LEMMA LocalServe ==
    ASSUME TypeInv, LocalInv, deployment = "local", Serve
    PROVE  LocalInv'
  <1> DEFINE h == queue[1]
             n == Len(queue)
             e == queue'[n]
             Popping == Len(queue') = n - 1
             Moving == Len(queue') = n /\ e.count = h.count /\ e.ver = h.ver
                       /\ e.init = h.init /\ e.done = h.done
  <1>1. /\ UNCHANGED <<deployment, cleanup, phase, over, run, count, ver, found>>
        /\ n >= 1 /\ 1 \in 1 .. n /\ phase = "up" /\ \A k \in 1 .. n - 1 : queue'[k] = queue[k + 1]
    BY FirstIsServed DEF Shifted
  <1>2. \/ /\ Popping
           /\ \/ Skipped(h) /\ UNCHANGED <<row, refused>>
              \/ Writes(h) /\ ~CleansUp(h) /\ UNCHANGED refused
              \/ Clashes(h)
              \/ h.op = "delete" /\ row' = NoRow /\ UNCHANGED refused
        \/ /\ Moving /\ UNCHANGED refused
           /\ \/ /\ h.op = "find" /\ ~Skipped(h) /\ row' = row
                 /\ e.op = "check" /\ e.completed = row.completed
              \/ /\ e.completed = h.completed
                 /\ \/ h.op = "check" /\ e.op = "select" /\ row' = row
                    \/ h.op = "select" /\ row' = row /\ row = NoRow /\ e.op = "insert"
                    \/ h.op = "select" /\ row' = row /\ row # NoRow /\ e.op = "update"
                    \/ Writes(h) /\ e.op = "delete" /\ CleansUp(h)
    BY FirstIsServed
  <1>3. Writes(h) => /\ h.op \in {"insert", "update"} /\ (h.op = "insert" => row = NoRow)
                     /\ row' = IF h.op = "update" /\ row = NoRow THEN NoRow ELSE Stored(h)
    BY DEF Writes
  <1>4. /\ n \in Nat /\ count \in Nat /\ ver \in Nat /\ row.count \in Nat /\ row.ver \in Nat
        /\ \A i \in 1 .. n :
              /\ queue[i].op \in Stages
              /\ queue[i].count \in Nat /\ queue[i].ver \in Nat
              /\ queue[i].op # "delete" => queue[i].count > 0 /\ queue[i].ver > 0
    BY Counted
  <1> HIDE DEF n, e, h
  <1>5. \A k \in 1 .. Len(queue') :
           \/ k \in 1 .. n - 1 /\ k + 1 \in 1 .. n /\ queue'[k] = queue[k + 1]
           \/ k = n /\ queue'[k] = e /\ Moving
    BY <1>1, <1>2, <1>4 DEF e
  <1>6. Alone'
    BY <1>1 DEF LocalInv, Alone
  <1>7. \A x \in 2 .. n : Rank(queue[x].op) <= Rank(h.op) => Earlier(h, queue[x])
    <2> SUFFICES ASSUME NEW x \in 2 .. n, Rank(queue[x].op) <= Rank(h.op)
                 PROVE  Earlier(h, queue[x])
      OBVIOUS
    <2>1. x \in 1 .. n /\ 1 \in 1 .. n /\ 1 < x
      BY <1>1, <1>4
    <2>2. Rank(queue[x].op) \in Nat /\ Rank(h.op) \in Nat
      BY DEF Rank
    <2>3. Further(h, 1, queue[x], x)
      BY <2>1, <2>2 DEF Further
    <2> QED
      BY <2>1, <2>3 DEF LocalInv, InOrder, h, n
  <1>8. InOrder'
    <2> SUFFICES ASSUME NEW i \in 1 .. Len(queue'), NEW j \in 1 .. Len(queue'),
                        Further(queue'[i], i, queue'[j], j)
                 PROVE  Earlier(queue'[i], queue'[j])
      BY DEF InOrder
    <2>1. Moving => Rank(e.op) = Rank(h.op) + 1
      BY <1>2, <1>3 DEF Rank
    <2>2. Rank(h.op) \in Nat /\ \A x \in 1 .. n : Rank(queue[x].op) \in Nat
      BY DEF Rank
    <2>3. CASE i \in 1 .. n - 1 /\ j \in 1 .. n - 1
      <3>1. /\ i + 1 \in 1 .. n /\ j + 1 \in 1 .. n
            /\ queue'[i] = queue[i + 1] /\ queue'[j] = queue[j + 1]
        <4>1. \A k \in 1 .. n - 1 : k + 1 \in 1 .. n
          BY <1>4
        <4> QED
          BY <4>1, <2>3, <1>1
      <3>2. Further(queue[i + 1], i + 1, queue[j + 1], j + 1)
        BY <3>1, <1>4 DEF Further
      <3> QED
        BY <3>1, <3>2 DEF LocalInv, InOrder, n
    <2>4. CASE i \in 1 .. n - 1 /\ j = n /\ queue'[j] = e /\ Moving
      <3>1. i + 1 \in 1 .. n /\ queue'[i] = queue[i + 1]
        BY <2>4, <1>1, <1>4
      <3>2. Rank(queue[i + 1].op) > Rank(h.op)
        BY <2>1, <2>2, <2>4, <3>1 DEF Further
      <3>3. Earlier(queue[i + 1], h)
        BY <3>1, <3>2, <1>1 DEF LocalInv, InOrder, Further, h, n
      <3> QED
        BY <2>4, <3>1, <3>3 DEF Earlier
    <2>5. CASE i = n /\ queue'[i] = e /\ Moving /\ j \in 1 .. n - 1
      <3>1. j + 1 \in 2 .. n /\ j + 1 \in 1 .. n /\ queue'[j] = queue[j + 1] /\ ~(n < j)
        BY <2>5, <1>1, <1>4
      <3>2. Rank(queue[j + 1].op) <= Rank(h.op)
        BY <2>1, <2>2, <2>5, <3>1 DEF Further
      <3>3. Earlier(h, queue[j + 1])
        BY <3>1, <3>2, <1>7
      <3> QED
        BY <2>5, <3>1, <3>3 DEF Earlier
    <2>6. CASE i = n /\ j = n /\ queue'[i] = e /\ Moving
      BY <2>6, <2>1, <2>2, <1>4 DEF Further
    <2> QED
      BY <1>5, <2>3, <2>4, <2>5, <2>6
  <1>9. row.count <= count /\ row.ver <= ver /\ h.count <= count /\ h.ver <= ver
    BY <1>1 DEF LocalInv, Behind, h, n
  <1>10. \/ row' = row
         \/ row' = NoRow
         \/ h.op \in {"insert", "update"} /\ row'.count = h.count /\ row'.ver = h.ver
    BY <1>2, <1>3 DEF Stored, Clashes
  <1>11. Ahead'
    <2>1. ASSUME NEW x \in 2 .. n PROVE AheadOf(queue[x], row')
      <3>1. x \in 1 .. n
        BY <1>4
      <3>2. CASE row' = row
        BY <3>1, <3>2 DEF LocalInv, Ahead, n
      <3>3. CASE row' = NoRow
        BY <3>1, <3>3, <1>4 DEF AheadOf, NoRow
      <3>4. CASE h.op \in {"insert", "update"} /\ row'.count = h.count /\ row'.ver = h.ver
        <4> SUFFICES ASSUME queue[x].op # "delete"
                     PROVE  queue[x].count > row'.count /\ queue[x].ver > row'.ver
          BY DEF AheadOf
        <4>1. Earlier(h, queue[x])
          BY <3>1, <3>4, <1>4, <1>7 DEF Rank, Stages
        <4>2. h.count \in Nat /\ h.ver \in Nat
          BY <1>1, <1>4 DEF h
        <4> QED
          BY <3>1, <3>4, <4>1, <4>2, <1>4 DEF Earlier
      <3> QED
        BY <1>10, <3>2, <3>3, <3>4
    <2>2. ASSUME Moving PROVE AheadOf(e, row')
      <3>1. CASE e.op = "delete"
        BY <3>1 DEF AheadOf
      <3>2. CASE e.op # "delete"
        <4>1. row' = row /\ h.op # "delete" /\ ~Skipped(h)
          BY <3>2, <1>2, <2>2, <1>4 DEF Skipped
        <4>2. AheadOf(h, row)
          BY <1>1 DEF LocalInv, Ahead, h, n
        <4> QED
          BY <2>2, <4>1, <4>2 DEF AheadOf
      <3> QED
        BY <3>1, <3>2
    <2>3. ASSUME NEW k \in 1 .. Len(queue') PROVE AheadOf(queue'[k], row')
      <3>1. CASE k \in 1 .. n - 1 /\ queue'[k] = queue[k + 1]
        <4>1. k + 1 \in 2 .. n
          BY <3>1, <1>4
        <4> QED
          BY <2>1, <3>1, <4>1
      <3>2. CASE queue'[k] = e /\ Moving
        BY <2>2, <3>2
      <3> QED
        BY <1>5, <3>1, <3>2
    <2> QED
      BY <2>3 DEF Ahead, AheadOf, Skipped
  <1>12. Behind'
    <2>1. row'.count <= count /\ row'.ver <= ver
      BY <1>4, <1>9, <1>10 DEF NoRow
    <2>2. ASSUME NEW k \in 1 .. Len(queue') PROVE queue'[k].count <= count /\ queue'[k].ver <= ver
      BY <1>5, <1>9 DEF LocalInv, Behind, n
    <2> QED
      BY <2>1, <2>2, <1>1 DEF Behind
  <1>13. FinalCall(h)
    BY <1>1 DEF LocalInv, Finals, h, n
  <1>14. Finals'
    <2>1. ASSUME NEW k \in 1 .. Len(queue')
          PROVE  FinalCall(queue'[k])
      <3>1. CASE k + 1 \in 1 .. n /\ queue'[k] = queue[k + 1]
        BY <3>1 DEF LocalInv, Finals, n
      <3>2. CASE queue'[k] = e /\ Moving
        BY <3>2, <1>2, <1>3, <1>4, <1>13 DEF FinalCall, CleansUp
      <3> QED
        BY <1>5, <3>1, <3>2
    <2> QED
      BY <2>1, <1>1 DEF Finals, FinalCall
  <1>15. AheadOf(h, row) /\ Present(h) /\ ~h.completed
    BY <1>1 DEF LocalInv, Ahead, Updates, Complete, h, n
  <1>16. h.op # "delete" => ~row.completed
    BY <1>1, <1>4, <1>9, <1>15 DEF LocalInv, Complete, AheadOf, h
  <1>17. h.op # "delete" => h.count > 0 /\ h.ver > 0
    BY <1>1, <1>4 DEF h
  <1>18. Complete'
    <2>1. row'.completed => over /\ row'.count = count
      <3>1. CASE row' = row
        BY <3>1, <1>1 DEF LocalInv, Complete
      <3>2. CASE row' = NoRow
        BY <3>2 DEF NoRow
      <3>3. CASE Writes(h) /\ row' = Stored(h)
        <4>1. row'.count = h.count /\ row'.completed = (row.completed \/ h.completed \/ h.done)
              /\ h.op # "delete"
          BY <3>3, <1>3 DEF Stored, Completed
        <4>2. h.done => over /\ h.count = count
          BY <4>1, <1>13, <1>17 DEF FinalCall
        <4> QED
          BY <4>1, <4>2, <1>15, <1>16
      <3> QED
        BY <1>2, <1>3, <3>1, <3>2, <3>3 DEF Clashes
    <2>2. ASSUME NEW k \in 1 .. Len(queue') PROVE ~queue'[k].completed
      <3>1. CASE k + 1 \in 1 .. n /\ queue'[k] = queue[k + 1]
        BY <3>1 DEF LocalInv, Complete, n
      <3>2. CASE queue'[k] = e /\ Moving
        BY <3>2, <1>2, <1>4, <1>15, <1>16
      <3> QED
        BY <1>5, <3>1, <3>2
    <2> QED
      BY <2>1, <2>2, <1>1 DEF Complete
  <1>19. row' = NoRow => row = NoRow \/ (over /\ cleanup # "off")
    <2>1. CASE Writes(h)
      BY <2>1, <1>3, <1>17 DEF Stored, NoRow
    <2>2. CASE h.op = "delete"
      BY <2>2, <1>13 DEF FinalCall
    <2> QED
      BY <2>1, <2>2, <1>2 DEF Clashes
  <1>20. Updates'
    <2>1. ASSUME NEW k \in 1 .. Len(queue'), queue'[k].op = "update"
          PROVE  row' # NoRow \/ (over /\ cleanup # "off")
      <3>1. CASE k + 1 \in 1 .. n /\ queue'[k] = queue[k + 1]
        BY <2>1, <3>1, <1>19 DEF LocalInv, Updates, Present, n
      <3>2. CASE queue'[k] = e /\ Moving
        BY <2>1, <3>2, <1>2
      <3> QED
        BY <1>5, <3>1, <3>2
    <2> QED
      BY <2>1, <1>1 DEF Updates, Present
  <1>21. ASSUME Latest(h), h.op \in {"insert", "update"}, NEW x \in 2 .. n PROVE queue[x].op = "delete"
    <2> SUFFICES ASSUME queue[x].op # "delete" PROVE FALSE
      OBVIOUS
    <2>1. x \in 1 .. n
      BY <1>4
    <2>2. Earlier(h, queue[x])
      BY <2>1, <1>21, <1>4, <1>7 DEF Rank, Stages
    <2>3. queue[x].count <= count
      BY <2>1 DEF LocalInv, Behind, n
    <2> QED
      BY <2>1, <2>2, <2>3, <1>21, <1>4 DEF Earlier, Latest
  <1>22. ASSUME Latest(h), h.op = "insert" PROVE n = 1
    <2> SUFFICES ASSUME NEW x \in 2 .. n PROVE FALSE
      BY <1>1, <1>4
    <2>1. x \in 1 .. n /\ queue[x].op = "delete"
      BY <1>4, <1>21, <1>22
    <2>2. CASE queue[x].count = 0
      <3>1. PICK k \in 1 .. n : Latest(queue[k]) /\ queue[k].op \in {"find", "check"}
        BY <2>1, <2>2 DEF LocalInv, Early, EarlyDelete, n
      <3>2. k # 1
        BY <3>1, <1>22 DEF h
      <3>3. k \in 2 .. n
        BY <3>1, <3>2, <1>4
      <3> QED
        BY <3>1, <3>3, <1>21, <1>22
    <2>3. CASE queue[x].count # 0
      <3>1. queue[x].count = count
        BY <2>1, <2>3 DEF LocalInv, Finals, FinalCall, n
      <3>2. Further(queue[x], x, h, 1)
        BY <2>1, <1>22 DEF Further, Rank
      <3>3. Earlier(queue[x], h)
        BY <2>1, <3>2, <1>1 DEF LocalInv, InOrder, h, n
      <3> QED
        BY <3>1, <3>3, <1>4, <1>9, <1>22 DEF Earlier, Latest
    <2> QED
      BY <2>2, <2>3
  <1>23. Settled'
    <2>1. ASSUME NEW i \in 2 .. n, Latest(queue[i]), ~refused PROVE Settled'
      <3>1. i - 1 \in 1 .. n - 1 /\ i - 1 + 1 = i /\ i - 1 \in 1 .. Len(queue') /\ i \in 1 .. n
        BY <1>2, <1>4
      <3>2. queue'[i - 1] = queue[i]
        BY <3>1, <1>1
      <3>3. ~refused'
        <4>1. CASE Clashes(h)
          <5>1. Rank(queue[i].op) <= Rank(h.op)
            BY <2>1, <3>1, <4>1, <1>4 DEF Clashes, Latest, Rank, Stages
          <5>2. Earlier(h, queue[i])
            BY <5>1, <1>7
          <5>3. h.count # count
            BY <5>2, <2>1, <3>1, <1>1, <1>4 DEF Earlier, Latest, h
          <5> QED
            BY <4>1, <5>3, <2>1 DEF Clashes, OfPresentState
        <4>2. CASE ~Clashes(h)
          BY <4>2, <2>1, <1>2
        <4> QED
          BY <4>1, <4>2
      <3> QED
        BY <2>1, <3>1, <3>2, <3>3, <1>1 DEF Settled, Latest, Skipped
    <2>2. ASSUME Latest(h), h.op \notin {"insert", "update"}, ~refused PROVE Settled'
      <3>1. Moving /\ e.op \in {"check", "select", "insert", "update"} /\ ~refused'
        BY <2>2, <1>2, <1>3 DEF Latest, Clashes
      <3>2. n \in 1 .. Len(queue') /\ queue'[n] = e
        BY <3>1, <1>1, <1>4 DEF e
      <3>3. /\ e.op # "delete" /\ ~Skipped(e) /\ e.count = count /\ e.ver = ver /\ e.done = over
        BY <2>2, <3>1 DEF Latest, Skipped
      <3> QED
        BY <3>1, <3>2, <3>3, <1>1 DEF Settled, Latest, Skipped
    <2>3. ASSUME Latest(h), Clashes(h) PROVE Settled'
      <3>1. h.op = "insert" /\ row # NoRow /\ row' = row /\ refused'
        BY <2>3 DEF Clashes, OfPresentState, Latest
      <3>2. Popping
        BY <3>1, <1>2, <1>3 DEF Skipped
      <3>3. queue' = <<>>
        <4>1. n = 1
          BY <2>3, <3>1, <1>22
        <4>2. Len(queue') = 0
          BY <3>2, <4>1
        <4>3. queue' \in Seq(Calls')
          BY <1>1, TypeKept DEF Next, TypeInv, CallType
        <4> QED
          BY <4>2, <4>3, EmptySeq
      <3>4. ~row.completed /\ row.ver < ver
        BY <2>3, <3>1, <1>4, <1>15, <1>16 DEF AheadOf, Latest
      <3> QED
        BY <3>1, <3>3, <3>4, <1>1 DEF Settled
    <2>4. ASSUME Latest(h), Writes(h), ~refused PROVE Settled'
      <3>1. h.op \in {"insert", "update"} /\ h.done = over /\ h.ver = ver
        BY <2>4, <1>3 DEF Latest
      <3>2. ~refused'
        BY <2>4, <3>1, <1>2, <1>3 DEF Clashes
      <3>3. ASSUME NEW k \in 1 .. Len(queue') PROVE queue'[k].op = "delete"
        <4>1. CASE k \in 1 .. n - 1 /\ queue'[k] = queue[k + 1]
          <5>1. k + 1 \in 2 .. n
            BY <4>1, <1>4
          <5> QED
            BY <2>4, <3>1, <4>1, <5>1, <1>21
        <4>2. CASE queue'[k] = e /\ Moving
          BY <4>2, <3>1, <1>2, <1>4 DEF Skipped
        <4> QED
          BY <1>5, <4>1, <4>2
      <3>4. CASE row' = Stored(h) /\ (~over \/ cleanup = "off")
        <4>1. row'.ver = ver /\ (over => row'.completed)
          BY <3>1, <3>4 DEF Stored, Completed
        <4> QED
          BY <3>2, <3>3, <3>4, <4>1, <1>1 DEF Settled
      <3>5. CASE over /\ cleanup # "off"
        <4>1. CleansUp(h)
          BY <3>1, <3>5 DEF CleansUp
        <4>2. Len(queue') = n
          BY <4>1, <3>1, <2>4, <1>2, <1>3 DEF Skipped, Clashes
        <4>3. queue' # <<>>
          BY <4>2, <1>1
        <4> QED
          BY <3>2, <3>3, <3>5, <4>3, <1>1 DEF Settled
      <3> QED
        BY <2>4, <3>4, <3>5, <1>3, <1>15 DEF Present
    <2>5. ASSUME ~over, row.ver = ver, ~refused PROVE Settled'
      <3>1. h.op # "delete"
        BY <2>5, <1>13 DEF FinalCall
      <3>2. Skipped(h)
        BY <2>5, <3>1, <1>1, <1>4, <1>9, <1>15 DEF AheadOf, h
      <3>3. row' = row /\ ~refused'
        <4>1. h.op = "find" /\ ~Clashes(h) /\ ~Writes(h)
          BY <3>2, <1>3 DEF Skipped, Clashes
        <4> QED
          BY <2>5, <3>2, <4>1, <1>2
      <3> QED
        BY <2>5, <3>3, <1>1 DEF Settled
    <2>6. ASSUME over, \A i \in 1 .. n : queue[i].op = "delete", ~refused PROVE Settled'
      <3>1. h.op = "delete"
        BY <2>6, <1>1 DEF h
      <3>2. row' = NoRow /\ Popping /\ ~refused'
        BY <2>6, <3>1, <1>2, <1>3 DEF Skipped, Clashes
      <3>3. cleanup # "off"
        BY <3>1, <1>13 DEF FinalCall
      <3>4. \A k \in 1 .. Len(queue') : queue'[k].op = "delete"
        BY <2>6, <3>2, <1>4, <1>5
      <3> QED
        BY <2>6, <3>2, <3>3, <3>4, <1>1 DEF Settled
    <2>7. ASSUME NEW i \in 1 .. n, Latest(queue[i]), ~refused PROVE Settled'
      <3>1. CASE i = 1
        <4>1. Latest(h)
          BY <3>1, <2>7 DEF h
        <4>2. h.op \in {"insert", "update"} => Writes(h) \/ Clashes(h)
          BY <1>2 DEF Skipped
        <4> QED
          BY <4>1, <4>2, <2>2, <2>3, <2>4, <2>7
      <3>2. CASE i # 1
        <4>1. i \in 2 .. n
          BY <3>2, <1>4
        <4> QED
          BY <4>1, <2>1, <2>7
      <3> QED
        BY <3>1, <3>2
    <2>8. queue # <<>>
      BY <1>1 DEF n
    <2> QED
      BY <1>1, <2>5, <2>6, <2>7, <2>8 DEF LocalInv, Settled, n
  <1>24. Early'
    <2>1. ASSUME NEW i \in 1 .. Len(queue'), EarlyDelete(queue'[i])
          PROVE  \E k \in 1 .. Len(queue') :
                     Latest(queue'[k]) /\ (queue'[k].op = "find" \/ (queue'[k].op = "check" /\ k > i))
      <3>1. ~(Moving /\ queue'[i] = e)
        BY <2>1, <1>2, <1>3, <1>17 DEF EarlyDelete
      <3>2. i \in 1 .. n - 1 /\ i + 1 \in 1 .. n /\ queue'[i] = queue[i + 1]
        BY <3>1, <1>5
      <3>3. PICK k \in 1 .. n : /\ Latest(queue[k])
                                /\ queue[k].op = "find" \/ (queue[k].op = "check" /\ k > i + 1)
        BY <2>1, <3>2 DEF LocalInv, Early, EarlyDelete, n
      <3>4. CASE k = 1
        <4>1. Latest(h) /\ h.op = "find"
          BY <3>2, <3>3, <3>4 DEF h
        <4>2. Moving /\ e.op = "check"
          BY <4>1, <1>2, <1>3 DEF Latest, Clashes
        <4>3. n \in 1 .. Len(queue') /\ queue'[n] = e /\ n > i
          BY <3>2, <4>2, <1>1, <1>4 DEF e
        <4>4. Latest(e)
          BY <4>1, <4>2 DEF Latest, Skipped
        <4> QED
          BY <4>2, <4>3, <4>4
      <3>5. CASE k # 1
        <4>1. k - 1 \in 1 .. n - 1 /\ k - 1 + 1 = k /\ k - 1 \in 1 .. Len(queue')
          BY <3>5, <1>2, <1>4
        <4>2. queue'[k - 1] = queue[k]
          BY <4>1, <1>1
        <4>3. k > i + 1 => k - 1 > i
          BY <3>2, <1>4
        <4> QED
          BY <3>3, <4>1, <4>2, <4>3
      <3> QED
        BY <3>4, <3>5
    <2> QED
      BY <2>1, <1>1 DEF Early, EarlyDelete, Latest, Skipped
  <1> QED
    BY <1>6, <1>8, <1>11, <1>12, <1>14, <1>18, <1>20, <1>23, <1>24 DEF LocalInv
-----------------------------------------------------------------------------
\* Every step keeps the invariant.
LEMMA Inductive == IInv /\ [Next]_vars => IInv'
  <1> SUFFICES ASSUME IInv, [Next]_vars PROVE IInv'
    OBVIOUS
  <1>1. TypeInv'
    BY TypeKept DEF IInv
  <1>2. deployment' = deployment
    BY ServeIs DEF Next, vars, options, Transition, Crash, FindActive, Resume, ResumeGone, IInv
  <1>3. ASSUME deployment = "local" PROVE LocalInv'
    <2>1. TypeInv /\ LocalInv
      BY <1>3 DEF IInv
    <2>2. CASE UNCHANGED vars
      <3>1. UNCHANGED <<cleanup, phase, over, count, ver, found, row, queue, refused>>
        BY <2>2 DEF vars, options
      <3> QED
        BY <2>1, <3>1
        DEF LocalInv, Alone, InOrder, Further, Earlier, Ahead, AheadOf, Skipped, Behind, Finals,
            FinalCall, Complete, Updates, Present, Settled, Latest, Early, EarlyDelete
    <2>3. ASSUME NEW done \in BOOLEAN, Transition(done) PROVE LocalInv'
      BY <2>1, <2>3, LocalTransition
    <2>4. CASE Resume
      BY <2>1, <2>4, LocalResume
    <2>5. CASE Crash \/ FindActive \/ ResumeGone
      BY <1>3, <2>1, <2>5, LocalAtRest
    <2>6. CASE Serve
      BY <1>3, <2>1, <2>6, LocalServe
    <2> QED
      BY <2>2, <2>3, <2>4, <2>5, <2>6 DEF Next
  <1> QED
    BY <1>1, <1>2, <1>3 DEF IInv

(* IInv: with one connection, who has come further is of an earlier        *)
(* transition, and calls are ahead of the stored row (Servable, Find,      *)
(* Check and the calls of save, MachineStatePersistence.ts:152-182).       *)
THEOREM InductiveInvariant == Spec => []IInv
  <1> QED
    BY InitIsIn, Inductive, PTL DEF Spec

(* TypeOK, in both deployments and within any bounds: a caller that resumes*)
(* has found a row, of a state the machine was in.                         *)
THEOREM TypeCorrect == Spec => []TypeOK
  <1>1. IInv => TypeOK
    <2> SUFFICES ASSUME IInv PROVE TypeOK
      OBVIOUS
    <2>1. SavedRow \subseteq Row
      BY DEF SavedRow, Row, Version
    <2>2. queue \in Seq([op : Stages, count : Nat,
                         ver : Nat, init : BOOLEAN, done : BOOLEAN, completed : BOOLEAN])
      <3>1. Calls \subseteq [op : Stages, count : Nat,
                         ver : Nat, init : BOOLEAN, done : BOOLEAN, completed : BOOLEAN]
        BY DEF Calls, Version, Stages
      <3>2. queue \in Seq(Calls)
        BY DEF IInv, TypeInv, CallType
      <3> QED
        BY <3>1, <3>2, SeqMonotonic
    <2> QED
      BY <2>1, <2>2 DEF IInv, TypeInv, MachineType, RowType, TypeOK, Version, Stages
  <1> QED
    BY InductiveInvariant, <1>1, PTL

(* NewerStatesStay: in-order serving keeps a handler of an earlier         *)
(* transition from saving over a later one, for any number of runs.        *)
THEOREM NewerStatesAlways == Spec => NewerStatesStay
  <1>1. IInv /\ [Next]_vars =>
          [deployment = "local" /\ row # NoRow /\ row' # NoRow => row'.count >= row.count]_vars
    <2> SUFFICES ASSUME IInv, [Next]_vars, deployment = "local", row # NoRow, row' # NoRow
                 PROVE  row'.count >= row.count
      OBVIOUS
    <2>1. TypeInv /\ LocalInv /\ row.count \in Nat
      BY Counted DEF IInv
    <2>2. CASE row' = row
      BY <2>1, <2>2
    <2>3. CASE Serve
      <3>1. /\ 1 \in 1 .. Len(queue)
            /\ row' = row \/ (queue[1].op # "delete" /\ row'.count = queue[1].count)
        BY <2>1, <2>3, FirstIsServed DEF Writes, Clashes, Stored
      <3>2. queue[1].count \in Nat /\ (queue[1].op # "delete" => queue[1].count > row.count)
        BY <2>1, <3>1, Counted DEF LocalInv, Ahead, AheadOf
      <3> QED
        BY <2>1, <3>1, <3>2
    <2> QED
      BY <2>2, <2>3 DEF Next, vars, Transition, Crash, FindActive, Resume, ResumeGone
  <1> QED
    BY InductiveInvariant, <1>1, PTL DEF Spec, NewerStatesStay

(* QuietMeansSaved: with every handler done, the row is the state of a live*)
(* machine, and nothing is left to resume of one that is over.             *)
THEOREM QuietAlways == Spec => []QuietMeansSaved
  <1>1. IInv => QuietMeansSaved
    <2> SUFFICES ASSUME IInv, deployment = "local", phase = "up", queue = <<>>
                 PROVE  IF refused THEN row # NoRow /\ ~row.completed /\ row.ver < ver
                        ELSE IF ~over THEN row.ver = ver /\ row.count <= count
                        ELSE IF cleanup = "off" THEN row.completed ELSE row = NoRow
      BY DEF QuietMeansSaved
    <2>1. LocalInv /\ Len(queue) = 0
      BY DEF IInv
    <2>2. \/ refused /\ row # NoRow /\ ~row.completed /\ row.ver < ver
          \/ ~refused /\ ~over /\ row.ver = ver
          \/ ~refused /\ over /\ IF cleanup = "off" THEN row.completed ELSE row = NoRow
      BY <2>1 DEF LocalInv, Settled
    <2>3. row.count <= count
      BY <2>1 DEF LocalInv, Behind
    <2> QED
      BY <2>2, <2>3
  <1> QED
    BY InductiveInvariant, <1>1, PTL

(* ImplementsDurability: with one connection the background saves follow   *)
(* the machine in order, and it resumes where the row is.                  *)
THEOREM DurabilityImplemented == Spec => ImplementsDurability
  <1> DEFINE mem == Promised(ver, 0)
             disk == Promised(row.ver, 0)
             ended == Promised(over, FALSE)
  <1>1. Init => Durability!Init
    BY DEF Init, Durability!Init, Promised, NoRow
  <1>2. IInv /\ [Next]_vars => [Durability!Next]_(Durability!vars)
    <2> SUFFICES ASSUME IInv, [Next]_vars
                 PROVE  Durability!Next \/ UNCHANGED <<mem, disk, ended>>
      BY DEF Durability!vars
    <2>1. TypeInv /\ (deployment = "local" => LocalInv)
      BY DEF IInv
    <2>2. /\ ver \in Nat /\ row.ver \in Nat /\ Len(queue) \in Nat
          /\ \A i \in 1 .. Len(queue) : queue[i].ver \in Nat
      BY <2>1, Counted
    <2>3. deployment' = deployment
      BY ServeIs DEF Next, vars, options, Transition, Crash, FindActive, Resume, ResumeGone, IInv
    <2>4. CASE deployment # "local"
      BY <2>3, <2>4 DEF Promised
    <2>5. CASE deployment = "local"
      <3> USE DEF Promised
      <3>1. ASSUME NEW done \in BOOLEAN, Transition(done) PROVE Durability!Advance
        <4>1. ver' = ver + 1 /\ ~over /\ over' = done /\ row' = row
          BY <3>1 DEF Transition
        <4> QED
          BY <4>1, <2>3, <2>5 DEF Durability!Advance
      <3>2. CASE Resume
        <4>1. /\ phase = "booting" /\ row # NoRow /\ row' = row /\ over' = FALSE /\ ver' = found.ver
          BY <3>2 DEF Resume, ResumedVersion
        <4>2. found = row /\ row \in SavedRow
          BY <4>1, <2>1, <2>5 DEF LocalInv, Alone, TypeInv, RowType
        <4>3. row.ver > 0
          BY <4>2 DEF SavedRow, Version
        <4> QED
          BY <4>1, <4>2, <4>3, <2>3, <2>5 DEF Durability!Restart, Durability!Next
      <3>3. CASE UNCHANGED vars \/ Crash \/ FindActive \/ ResumeGone
        <4>1. UNCHANGED <<ver, row, over>>
          BY <3>3 DEF vars, Crash, FindActive, ResumeGone
        <4> QED
          BY <4>1, <2>3
      <3>4. CASE Serve
        <4> DEFINE h == queue[1]
        <4>1. /\ 1 \in 1 .. Len(queue) /\ ver' = ver /\ over' = over
              /\ \/ row' = row
                 \/ h.op = "delete" /\ row' = NoRow
                 \/ h.op \in {"insert", "update"} /\ row'.ver = h.ver
          BY <2>1, <2>5, <3>4, FirstIsServed DEF Writes, Clashes, Stored
        <4>2. CASE row' = row
          BY <4>1, <4>2, <2>3
        <4>3. CASE h.op = "delete" /\ row' = NoRow
          <5>1. over /\ row'.ver = 0
            BY <4>1, <4>3, <2>1, <2>5 DEF LocalInv, Finals, FinalCall, NoRow
          <5> QED
            BY <5>1, <4>1, <2>3, <2>5 DEF Durability!Remove, Durability!Next
        <4>4. CASE h.op \in {"insert", "update"} /\ row'.ver = h.ver
          <5>1. h.ver > row.ver /\ h.ver <= ver /\ h.ver \in Nat
            BY <4>1, <4>4, <2>1, <2>2, <2>5
            DEF LocalInv, Ahead, AheadOf, Skipped, Behind
          <5>2. row'.ver \in row.ver + 1 .. ver
            BY <5>1, <4>4, <2>2
          <5> QED
            BY <5>2, <4>1, <2>3, <2>5 DEF Durability!Save, Durability!Next
        <4> QED
          BY <4>1, <4>2, <4>3, <4>4
      <3> QED
        BY <3>1, <3>2, <3>3, <3>4 DEF Next, Durability!Next
    <2> QED
      BY <2>4, <2>5
  <1> QED
    BY InductiveInvariant, <1>1, <1>2, PTL DEF Spec, ImplementsDurability, Durability!Spec
=============================================================================
