------------------------ MODULE KeyValueStoreProofs ------------------------
(***************************************************************************)
(* Theorems about KeyValueStore, for any clients, values, lifetimes and    *)
(* bounds. The invariant says what a call that meets no other may rely on  *)
(* between two of its steps, and what the two stores have in common while  *)
(* no calls have met, or while what a lone set wrote is left alone.        *)
(***************************************************************************)
EXTENDS KeyValueStore, TLAPS

USE KeyValueAssumption DEF Store, Op, history

\* Which calls come to which steps.
Shape ==
    \A c \in Client :
        /\ call[c].step = "write" => call[c].op = "set" /\ call[c].row \in Row
        /\ call[c].step = "has" => call[c].op = "has"
        /\ call[c].step = "remove" => call[c].op \in {"set", "get", "delete"}
        /\ call[c].step \in {"local", "evict", "remote", "evictRemote", "fill"} =>
              call[c].op \in {"set", "get", "getMany", "getManyAsValueData"}
        /\ call[c].step = "fill" => call[c].row \in Row

TypeInv == TypeOK /\ Shape

\* The expiry of a wrapper is no earlier than that of the row in it.
Covers(row, until) == until # 0 => row.expires # 0 /\ row.expires <= until

Wrapped ==
    /\ local # None => Covers(local.row, local.until)
    /\ remote # None => Covers(remote.row, remote.until)
    /\ \A c \in Client :
          /\ call[c].step = "fill" => Covers(call[c].row, call[c].until)
          /\ call[c].step = "write" => call[c].ttl = 0 \/ call[c].row.expires # 0

\* A call that is alone is the only thing under way.
Solo ==
    \A c \in Client : call[c].step # "done" /\ call[c].alone =>
        late[c] = {} /\ \A d \in Client \ {c} : ~Busy(d)

\* While no calls have met, each is alone, and so is what a call left behind.
Lone ==
    ~overlapped =>
        /\ \A c \in Client : call[c].step # "done" => call[c].alone
        /\ \A c, d \in Client : late[c] # {} /\ Busy(d) => c = d

InTurn ==
    order = "inTurn" =>
        ~overlapped /\ \A c \in Client : call[c].op \notin {"has", "getManyAsValueData"}

\* What a lone call has done to the stores so far.
Written ==
    \A c \in Client : call[c].alone /\ call[c].step = "write" =>
        /\ "local" \notin call[c].todo => local # None /\ local.row = call[c].row
        /\ "remote" \notin call[c].todo => remote # None /\ remote.row = call[c].row

Removed ==
    \A c \in Client : call[c].alone /\ call[c].step = "remove" =>
        /\ "local" \notin call[c].todo => local = None
        /\ "remote" \notin call[c].todo => remote = None

Gone == remote = None \/ Past(remote.row.expires)

\* A reader holds what the remote store holds.
InHand(c) == call[c].row = remote.row /\ call[c].until \in {0, remote.until}

Agreed ==
    \/ local = None
    \/ remote # None /\ local.row = remote.row
    \/ remote = None /\ Past(local.row.expires)

\* The stores agree but for a write or a deletion that has begun.
Agree ==
    ~overlapped =>
        Agreed \/ \E c \in Client : call[c].step \in {"write", "remove"} /\ call[c].todo # Store

\* What is about to go is over, unless a delete takes it.
Judged ==
    ~overlapped => \A c \in Client :
        /\ call[c].step = "fill" => remote # None /\ InHand(c)
        /\ call[c].step = "remove" /\ call[c].op # "delete" => Gone
        /\ call[c].step = "evictRemote" => Gone
        /\ late[c] # {} => Gone /\ (local = None \/ Past(local.row.expires))

\* What a lone set wrote is in the remote store, the only row in the local one and
\* in every reader's hands, and nobody is about to take it, while it is not over.
Standing ==
    settled =>
        /\ \A c \in Client : call[c].step # "write"
        /\ Fresh =>
              /\ local = None \/ local.row = remote.row
              /\ \A c \in Client :
                    /\ call[c].step \notin {"remove", "evictRemote"} /\ late[c] = {}
                    /\ call[c].step = "fill" => InHand(c)

IInv ==
    /\ TypeInv /\ Wrapped /\ Solo /\ Lone /\ InTurn /\ Written /\ Removed
    /\ Agree /\ Judged /\ Standing
-----------------------------------------------------------------------------
LEMMA TypeInit == Init => TypeInv
  <1>1. Idle \in Call /\ Idle.step = "done"
    BY DEF Idle, Call
  <1>2. Init => TypeOK
    <2> SUFFICES ASSUME Init PROVE TypeOK
      OBVIOUS
    <2>1. now \in 0 .. MaxTime /\ calls \in 0 .. MaxCalls
      BY DEF Init
    <2>2. call \in [Client -> Call] /\ late \in [Client -> SUBSET Store]
      BY <1>1 DEF Init
    <2> QED
      BY <2>1, <2>2 DEF Init, TypeOK
  <1> QED
    BY <1>1, <1>2 DEF Init, TypeInv, Shape

\* The deadline of a row that is written now.
LEMMA DeadlineType == ASSUME TypeOK, NEW ttl \in Lifetime \cup {0} PROVE Deadline(ttl) \in Nat
  BY DEF TypeOK, Deadline

LEMMA DeadlinesType ==
    ASSUME TypeOK, NEW c \in Client, call[c].row \in Row, NEW until \in Deadlines(c)
    PROVE  until \in Nat
  <1>1. call[c].ttl \in Lifetime \cup {0} /\ call[c].row.expires \in Nat
    BY DEF TypeOK, Call, Row
  <1>2. Deadline(call[c].ttl) \in Nat
    BY <1>1, DeadlineType
  <1> QED
    BY <1>1, <1>2 DEF Deadlines

LEMMA NotAlone ==
    \A k \in Call :
        LET met == [k EXCEPT !.alone = FALSE] IN
        /\ met \in Call /\ ~met.alone
        /\ met.step = k.step /\ met.op = k.op /\ met.row = k.row /\ met.todo = k.todo
        /\ met.ttl = k.ttl /\ met.until = k.until
  BY DEF Call

LEMMA DoneIsCall ==
    \A k \in Call, row \in Row \cup {None} :
        LET done == [k EXCEPT !.step = "done", !.row = row] IN done \in Call /\ done.step = "done"
  BY DEF Call

LEMMA BeginType ==
    ASSUME TypeInv, NEW c \in Client, NEW op \in Op, NEW first, NEW row \in Row \cup {None},
           NEW ttl \in Lifetime \cup {0}, NEW todo \in SUBSET Store,
           Begin(c, op, first, row, ttl, todo),
           \/ first = "write" /\ op = "set" /\ row \in Row
           \/ first = "local" /\ op \in {"get", "getMany", "getManyAsValueData"}
           \/ first = "remove" /\ op = "delete"
           \/ first = "has" /\ op = "has"
    PROVE  TypeInv'
  <1> USE DEF TypeInv, TypeOK
  <1>1. calls' \in 0 .. MaxCalls /\ overlapped' \in BOOLEAN /\ settled' \in BOOLEAN
    BY DEF Begin
  <1>2. call' \in [Client -> Call]
    <2> DEFINE alone == \A d \in Client : ~Busy(d)
    <2>1. \A d \in Client : [call[d] EXCEPT !.alone = FALSE] \in Call
      BY NotAlone
    <2>2. alone \in BOOLEAN
      OBVIOUS
    <2>3. [op |-> op, step |-> first, row |-> row, until |-> 0,
           ttl |-> ttl, todo |-> todo, alone |-> alone] \in Call
      <3> HIDE DEF alone
      <3> QED
        BY <2>2 DEF Call
    <2> QED
      BY <2>1, <2>3 DEF Begin
  <1>3. Shape'
    BY <1>2 DEF Begin, Shape, Call
  <1> QED
    BY <1>1, <1>2, <1>3 DEF Begin

\* A call with nothing to bring along.
LEMMA BeginAlike ==
    ASSUME TypeInv, NEW c \in Client, NEW op \in Op, NEW first,
           Begin(c, op, first, None, 0, {}),
           \/ first = "local" /\ op \in {"get", "getMany", "getManyAsValueData"}
           \/ first = "has" /\ op = "has"
    PROVE  TypeInv'
  <1>1. {} \in SUBSET Store /\ 0 \in Lifetime \cup {0} /\ None \in Row \cup {None}
    OBVIOUS
  <1> QED
    BY <1>1, BeginType

LEMMA LeftType ==
    ASSUME TypeInv, NEW c \in Client, NEW s \in Store, NEW then, NEW row \in Row \cup {None},
           Left(c, s, then, row),
           \/ then = "done"
           \/ then = "local" /\ call[c].op = "set"
    PROVE  call' \in [Client -> Call] /\ Shape' /\ overlapped' \in BOOLEAN /\ settled' \in BOOLEAN
  <1> USE DEF TypeInv, TypeOK
  <1> DEFINE todo == call[c].todo \ {s}
  <1>1. call[c] \in Call /\ todo \in SUBSET Store
    BY DEF Call
  <1>2. call'[c] = [call[c] EXCEPT !.todo = todo, !.step = IF todo = {} THEN then ELSE @,
                                   !.row = IF todo = {} THEN row ELSE @]
    BY <1>1 DEF Left, Call
  <1>3. call'[c] \in Call
    <2> HIDE DEF todo
    <2> QED
      BY <1>1, <1>2 DEF Call
  <1>4. \A d \in Client \ {c} : call'[d] = call[d]
    BY DEF Left
  <1>5. call' \in [Client -> Call]
    BY <1>3, <1>4 DEF Left
  <1>6. /\ call'[c].op = call[c].op
        /\ \/ call'[c].step = call[c].step /\ call'[c].row = call[c].row
           \/ call'[c].step = then
    <2> HIDE DEF todo
    <2> QED
      BY <1>1, <1>2 DEF Call
  <1>7. Shape'
    BY <1>4, <1>6 DEF Shape
  <1>8. overlapped' \in BOOLEAN /\ settled' \in BOOLEAN
    BY DEF Left
  <1> QED
    BY <1>5, <1>7, <1>8

LEMMA TypeStep == TypeInv /\ [Next]_vars => TypeInv'
  <1> SUFFICES ASSUME TypeInv, [Next]_vars PROVE TypeInv'
    OBVIOUS
  <1> USE DEF TypeInv, TypeOK
  <1>1. ASSUME NEW c \in Client, NEW v \in Value, NEW ttl \in Lifetime, Set(c, v, ttl)
        PROVE  TypeInv'
    <2>1. [value |-> v, expires |-> Deadline(ttl)] \in Row
      BY DeadlineType DEF Row
    <2> QED
      BY <1>1, <2>1, BeginType DEF Set
  <1>2. ASSUME NEW c \in Client, Get(c) PROVE TypeInv'
    BY <1>2, BeginAlike DEF Get
  <1>3. ASSUME NEW c \in Client, GetMany(c) PROVE TypeInv'
    BY <1>3, BeginAlike DEF GetMany
  <1>4. ASSUME NEW c \in Client, GetManyAsValueData(c) PROVE TypeInv'
    BY <1>4, BeginAlike DEF GetManyAsValueData
  <1>5. ASSUME NEW c \in Client, Delete(c) PROVE TypeInv'
    BY <1>5, BeginType DEF Delete
  <1>6. ASSUME NEW c \in Client, Has(c) PROVE TypeInv'
    BY <1>6, BeginAlike DEF Has
  <1>7. ASSUME NEW c \in Client, ReadLocal(c) PROVE TypeInv'
    <2>1. local # None => local.row \in Row
      BY DEF Copy
    <2> QED
      BY <1>7, <2>1 DEF ReadLocal, Judge, Answer, Shape, Call
  <1>8. ASSUME NEW c \in Client, Evict(c) PROVE TypeInv'
    BY <1>8 DEF Evict, Clear, Shape, Call
  <1>9. ASSUME NEW c \in Client, ReadRemote(c) PROVE TypeInv'
    <2>1. remote # None => remote.row \in Row /\ remote.until \in Nat
      BY DEF Copy
    <2>2. CASE remote = None
      BY <1>9, <2>2 DEF ReadRemote, Answer, Shape, Call
    <2>3. CASE remote # None
      BY <1>9, <2>1, <2>3 DEF ReadRemote, Answer, Shape, Call
    <2> QED
      BY <2>2, <2>3
  <1>18. ASSUME NEW c \in Client, EvictRemote(c) PROVE TypeInv'
    <2>1. PICK row \in Row \cup {None} : call' = [call EXCEPT ![c].step = "done", ![c].row = row]
      BY <1>18 DEF EvictRemote, Answer
    <2>2. call'[c] = [call[c] EXCEPT !.step = "done", !.row = row] /\ call[c] \in Call
      BY <2>1
    <2>3. call'[c] \in Call /\ call'[c].step = "done"
      BY <2>1, <2>2, DoneIsCall
    <2>4. \A d \in Client \ {c} : call'[d] = call[d]
      BY <2>1
    <2>5. call' \in [Client -> Call] /\ Shape'
      BY <2>1, <2>3, <2>4 DEF Shape
    <2> QED
      BY <1>18, <2>5 DEF EvictRemote, Clear, Answer
  <1>10. ASSUME NEW c \in Client, Fill(c) PROVE TypeInv'
    BY <1>10 DEF Fill, Judge, Answer, Shape, Call, Copy
  <1>11. ASSUME NEW c \in Client, AnswerHas(c) PROVE TypeInv'
    <2>1. local # None => local.row \in Row
      BY DEF Copy
    <2> QED
      <3>1. PICK row \in Row \cup {None} : call' = [call EXCEPT ![c].step = "done", ![c].row = row]
        BY <1>11, <2>1 DEF AnswerHas, Answer
      <3> QED
        <4>1. call'[c] = [call[c] EXCEPT !.step = "done", !.row = row]
          BY <3>1
        <4>2. call'[c] \in Call /\ call'[c].step = "done"
          <5>1. call[c] \in Call
            OBVIOUS
          <5> QED
            BY <4>1, <5>1, <3>1, DoneIsCall
        <4>3. \A d \in Client \ {c} : call'[d] = call[d]
          BY <3>1
        <4>4. call' \in [Client -> Call] /\ Shape'
          BY <3>1, <4>2, <4>3 DEF Shape
        <4> QED
          BY <1>11, <4>4 DEF AnswerHas, Answer
  <1>12. ASSUME NEW c \in Client, NEW s \in Store, Write(c, s) PROVE TypeInv'
    <2>1. call[c] \in Call /\ call[c].row \in Row
      BY <1>12 DEF Write, Shape
    <2>2. PICK until \in Deadlines(c) :
            LET copy == [row |-> call[c].row, until |-> until] IN
            /\ local' = IF s = "local" THEN copy ELSE local
            /\ remote' = IF s = "remote" THEN copy ELSE remote
      BY <1>12 DEF Write
    <2>5. until \in Nat
      BY <2>1, DeadlinesType
    <2>6. [row |-> call[c].row, until |-> until] \in Copy
      BY <2>1, <2>5 DEF Copy
    <2>3. local' \in {None} \cup Copy /\ remote' \in {None} \cup Copy
      BY <2>2, <2>6
    <2>4. /\ call' \in [Client -> Call] /\ Shape'
          /\ overlapped' \in BOOLEAN /\ settled' \in BOOLEAN
      BY <1>12, LeftType, <2>1 DEF Write, Shape
    <2> QED
      BY <1>12, <2>3, <2>4 DEF Write
  <1>13. ASSUME NEW c \in Client, NEW s \in Store, Remove(c, s) PROVE TypeInv'
    <2>1. /\ call' \in [Client -> Call] /\ Shape'
          /\ overlapped' \in BOOLEAN /\ settled' \in BOOLEAN
      BY <1>13, LeftType DEF Remove, Shape
    <2> QED
      BY <1>13, <2>1 DEF Remove, Clear
  <1>14. ASSUME NEW c \in Client, NEW s \in Store, RemoveLate(c, s) PROVE TypeInv'
    BY <1>14 DEF RemoveLate, Clear, Shape
  <1>15. CASE Tick
    BY <1>15 DEF Tick, Shape
  <1>16. CASE Restart
    BY <1>16 DEF Restart, Shape, Idle, Call
  <1>17. CASE UNCHANGED vars
    BY <1>17 DEF vars, Shape
  <1> QED
    BY <1>1, <1>2, <1>3, <1>4, <1>5, <1>6, <1>7, <1>8, <1>9, <1>10, <1>11, <1>12, <1>13, <1>14,
       <1>15, <1>16, <1>17, <1>18 DEF Next

(* The clock, the stores and the calls of any clients are what TypeOK says. *)
THEOREM TypeAlways == Spec => []TypeOK
  <1>1. Spec => []TypeInv
    BY TypeInit, TypeStep, PTL DEF Spec
  <1> QED
    BY <1>1, PTL DEF TypeInv
-----------------------------------------------------------------------------
(* What the steps do, in the terms of the invariant: a call starts, one    *)
(* comes one store further, one reads.                                     *)
Started(c) ==
    /\ call[c].step = "done"
    /\ \A d \in Client \ {c} :
          /\ call'[d].step = call[d].step /\ call'[d].op = call[d].op
          /\ call'[d].row = call[d].row /\ call'[d].todo = call[d].todo
          /\ call'[d].until = call[d].until /\ call'[d].ttl = call[d].ttl
          /\ ~call'[d].alone
    /\ call'[c].alone <=> \A d \in Client : ~Busy(d)
    /\ overlapped' <=> overlapped \/ ~ \A d \in Client : ~Busy(d)
    /\ order = "inTurn" => /\ \A d \in Client : ~Busy(d)
                           /\ call'[c].op \notin {"has", "getManyAsValueData"}
    /\ call'[c].step \in {"write", "remove"} => call'[c].todo = Store
    /\ call'[c].step = "remove" => call'[c].op = "delete"
    /\ call'[c].step = "write" => call'[c].ttl = 0 \/ call'[c].row.expires # 0
    /\ call'[c].step \notin {"done", "evictRemote", "fill"}
    /\ settled' <=> settled /\ call'[c].step \notin {"write", "remove"}
    /\ UNCHANGED <<now, local, remote, late, order>>

Advanced(c, s, then, row) ==
    /\ \A d \in Client \ {c} : call'[d] = call[d]
    /\ call'[c].alone = call[c].alone /\ call'[c].op = call[c].op /\ call'[c].ttl = call[c].ttl
    /\ call'[c].todo = call[c].todo \ {s}
    /\ \/ call'[c].todo = {} /\ call'[c].step = then /\ call'[c].row = row
       \/ call'[c].todo # {} /\ call'[c].step = call[c].step /\ call'[c].row = call[c].row
    /\ overlapped' <=> overlapped /\ ~(call'[c].todo = {} /\ call[c].alone)
    /\ settled' <=> settled \/ (call'[c].todo = {} /\ call[c].alone /\ call[c].step = "write")

Moved(c) ==
    /\ \A d \in Client \ {c} : call'[d] = call[d] /\ late'[d] = late[d]
    /\ call'[c].alone = call[c].alone /\ call'[c].op = call[c].op
    /\ call[c].step \notin {"done", "write", "remove"} /\ call'[c].step # "write"
    /\ call'[c].step = "remove" => call'[c].todo = Store
    /\ \/ late' = late
       \/ call'[c].step = "done"
    /\ UNCHANGED <<now, remote, order, overlapped, settled>>

Dropped(c) ==
    /\ call[c].step = "evictRemote" /\ call'[c].step = "done" /\ call'[c].row = None
    /\ call'[c].alone = call[c].alone /\ call'[c].op = call[c].op
    /\ \A d \in Client \ {c} : call'[d] = call[d]
    /\ remote' = None
    /\ UNCHANGED <<now, local, late, order, overlapped, settled>>

LEMMA BeginStarts ==
    ASSUME TypeInv, NEW c \in Client, NEW op \in Op, NEW first, NEW row, NEW ttl, NEW todo,
           Begin(c, op, first, row, ttl, todo),
           first \in {"local", "has"} \/ (first \in {"write", "remove"} /\ todo = Store),
           first = "remove" => op = "delete",
           first \in {"write", "remove"} <=> op \in {"set", "delete"},
           first = "write" => ttl = 0 \/ row.expires # 0
    PROVE  Started(c)
  <1> DEFINE alone == \A d \in Client : ~Busy(d)
  <1> USE DEF TypeInv, TypeOK
  <1>1. call'[c] = [op |-> op, step |-> first, row |-> row, until |-> 0, ttl |-> ttl,
                    todo |-> todo, alone |-> alone]
    BY DEF Begin
  <1>2. \A d \in Client \ {c} : call'[d] = [call[d] EXCEPT !.alone = FALSE]
    BY DEF Begin
  <1>3. \A d \in Client \ {c} :
          /\ call'[d].step = call[d].step /\ call'[d].op = call[d].op
          /\ call'[d].row = call[d].row /\ call'[d].todo = call[d].todo
          /\ call'[d].until = call[d].until /\ call'[d].ttl = call[d].ttl
          /\ ~call'[d].alone
    <2> TAKE d \in Client \ {c}
    <2>1. call[d] \in Call /\ call'[d] = [call[d] EXCEPT !.alone = FALSE]
      BY <1>2
    <2> QED
      BY <2>1, NotAlone
  <1>4. call'[c].alone <=> alone
    <2> HIDE DEF alone
    <2> QED
      BY <1>1
  <1>5. /\ call'[c].op = op /\ call'[c].step = first /\ call'[c].todo = todo
        /\ call'[c].row = row /\ call'[c].ttl = ttl
    <2> HIDE DEF alone
    <2> QED
      BY <1>1
  <1>6. overlapped' <=> overlapped \/ ~alone
    BY DEF Begin
  <1>7. settled' <=> settled /\ first \notin {"write", "remove"}
    BY DEF Begin
  <1>8. first \notin {"done", "evictRemote", "fill"}
    OBVIOUS
  <1> QED
    BY <1>3, <1>4, <1>5, <1>6, <1>7, <1>8 DEF Begin, Started

LEMMA CallsStart ==
    ASSUME TypeInv, NEW c \in Client,
           \/ \E v \in Value, ttl \in Lifetime : Set(c, v, ttl)
           \/ Get(c) \/ GetMany(c) \/ GetManyAsValueData(c) \/ Delete(c) \/ Has(c)
    PROVE  Started(c)
  <1>1. CASE \E v \in Value, ttl \in Lifetime : Set(c, v, ttl)
    <2>1. PICK v \in Value, ttl \in Lifetime : Set(c, v, ttl)
      BY <1>1
    <2> DEFINE row == [value |-> v, expires |-> Deadline(ttl)]
    <2>2. ttl = 0 \/ row.expires # 0
      BY DEF Deadline, TypeInv, TypeOK
    <2>3. Begin(c, "set", "write", row, ttl, Store)
      BY <2>1 DEF Set
    <2> HIDE DEF row
    <2> QED
      BY <2>2, <2>3, BeginStarts
  <1>2. CASE Get(c)
    BY <1>2, BeginStarts DEF Get
  <1>3. CASE GetMany(c)
    BY <1>3, BeginStarts DEF GetMany
  <1>4. CASE GetManyAsValueData(c)
    BY <1>4, BeginStarts DEF GetManyAsValueData
  <1>5. CASE Delete(c)
    BY <1>5, BeginStarts DEF Delete
  <1>6. CASE Has(c)
    BY <1>6, BeginStarts DEF Has
  <1> QED
    BY <1>1, <1>2, <1>3, <1>4, <1>5, <1>6

LEMMA LeftAdvances ==
    ASSUME TypeInv, NEW c \in Client, NEW s, NEW then, NEW row, Left(c, s, then, row)
    PROVE  Advanced(c, s, then, row)
  <1> DEFINE todo == call[c].todo \ {s}
  <1> USE DEF TypeInv, TypeOK
  <1>1. call[c] \in Call
    OBVIOUS
  <1>2. call'[c] = [call[c] EXCEPT !.todo = todo, !.step = IF todo = {} THEN then ELSE @,
                                   !.row = IF todo = {} THEN row ELSE @]
    BY <1>1 DEF Left, Call
  <1>3. /\ call'[c].alone = call[c].alone /\ call'[c].op = call[c].op /\ call'[c].todo = todo
        /\ call'[c].ttl = call[c].ttl
        /\ \/ todo = {} /\ call'[c].step = then /\ call'[c].row = row
           \/ todo # {} /\ call'[c].step = call[c].step /\ call'[c].row = call[c].row
    <2> HIDE DEF todo
    <2> QED
      BY <1>1, <1>2 DEF Call
  <1>4. \A d \in Client \ {c} : call'[d] = call[d]
    BY DEF Left
  <1>5. overlapped' <=> overlapped /\ ~(todo = {} /\ call[c].alone)
    BY DEF Left
  <1>6. settled' <=> settled \/ (todo = {} /\ call[c].alone /\ call[c].step = "write")
    BY DEF Left
  <1> QED
    BY <1>3, <1>4, <1>5, <1>6 DEF Advanced

LEMMA ReadsMove ==
    ASSUME TypeInv, NEW c \in Client,
           ReadLocal(c) \/ Evict(c) \/ ReadRemote(c) \/ Fill(c) \/ AnswerHas(c)
    PROVE  Moved(c)
  <1> USE DEF TypeInv, TypeOK, Call, Moved
  <1>1. CASE ReadLocal(c)
    BY <1>1 DEF ReadLocal, Judge, Answer
  <1>2. CASE Evict(c)
    BY <1>2 DEF Evict, Clear
  <1>3. CASE ReadRemote(c)
    BY <1>3 DEF ReadRemote, Answer
  <1>4. CASE Fill(c)
    BY <1>4 DEF Fill, Judge, Answer
  <1>5. CASE AnswerHas(c)
    BY <1>5 DEF AnswerHas, Answer
  <1> QED
    BY <1>1, <1>2, <1>3, <1>4, <1>5

LEMMA StepCases ==
    ASSUME TypeInv, [Next]_vars
    PROVE  \/ \E c \in Client : Started(c)
           \/ \E c \in Client :
                 /\ ReadLocal(c) \/ Evict(c) \/ ReadRemote(c) \/ Fill(c) \/ AnswerHas(c)
                 /\ Moved(c)
           \/ \E c \in Client : Dropped(c)
           \/ \E c \in Client, s \in Store :
                 \/ Write(c, s) /\ Advanced(c, s, "local", None)
                 \/ Remove(c, s) /\ Advanced(c, s, "done", None)
                 \/ RemoveLate(c, s)
           \/ Tick \/ Restart \/ UNCHANGED vars
  <1>1. ASSUME NEW c \in Client, NEW s \in Store, Write(c, s)
        PROVE  Advanced(c, s, "local", None)
    BY <1>1, LeftAdvances DEF Write
  <1>2. ASSUME NEW c \in Client, NEW s \in Store, Remove(c, s)
        PROVE  Advanced(c, s, "done", None)
    BY <1>2, LeftAdvances DEF Remove
  <1>3. ASSUME NEW c \in Client, EvictRemote(c)
        PROVE  Dropped(c)
    BY <1>3 DEF EvictRemote, Clear, Answer, Dropped, TypeInv, TypeOK, Call
  <1> QED
    BY <1>1, <1>2, <1>3, CallsStart, ReadsMove DEF Next

LEMMA SoloStep == TypeInv /\ Solo /\ [Next]_vars => Solo'
  <1> SUFFICES ASSUME TypeInv, Solo, [Next]_vars PROVE Solo'
    OBVIOUS
  <1> USE DEF TypeInv, TypeOK, Busy, Solo
  <1>1. ASSUME NEW c \in Client, Started(c)
        PROVE  Solo'
    BY <1>1 DEF Started
  <1>2. ASSUME NEW c \in Client, Moved(c)
        PROVE  Solo'
    BY <1>2 DEF Moved
  <1>3. ASSUME NEW c \in Client, NEW s \in Store, Write(c, s), Advanced(c, s, "local", None)
        PROVE  Solo'
    BY <1>3 DEF Write, Advanced
  <1>4. ASSUME NEW c \in Client, NEW s \in Store, Remove(c, s), Advanced(c, s, "done", None)
        PROVE  Solo'
    BY <1>4 DEF Remove, Advanced, Clear
  <1>5. ASSUME NEW c \in Client, NEW s \in Store, RemoveLate(c, s)
        PROVE  Solo'
    BY <1>5 DEF RemoveLate, Clear
  <1>6. CASE Tick
    BY <1>6 DEF Tick, Past
  <1>7. CASE Restart
    BY <1>7 DEF Restart, Idle
  <1>9. ASSUME NEW c \in Client, Dropped(c)
        PROVE  Solo'
    BY <1>9 DEF Dropped
  <1>8. CASE UNCHANGED vars
    BY <1>8 DEF vars
  <1> QED
    BY <1>1, <1>2, <1>3, <1>4, <1>5, <1>6, <1>7, <1>8, <1>9, StepCases

LEMMA LoneStep == TypeInv /\ Solo /\ Lone /\ [Next]_vars => Lone'
  <1> SUFFICES ASSUME TypeInv, Solo, Lone, [Next]_vars PROVE Lone'
    OBVIOUS
  <1> USE DEF TypeInv, TypeOK, Busy, Solo, Lone
  <1>1. ASSUME NEW c \in Client, Started(c)
        PROVE  Lone'
    BY <1>1 DEF Started
  <1>2. ASSUME NEW c \in Client, Moved(c)
        PROVE  Lone'
    BY <1>2 DEF Moved
  <1>3. ASSUME NEW c \in Client, NEW s \in Store, Write(c, s), Advanced(c, s, "local", None)
        PROVE  Lone'
    BY <1>3 DEF Write, Advanced
  <1>4. ASSUME NEW c \in Client, NEW s \in Store, Remove(c, s), Advanced(c, s, "done", None)
        PROVE  Lone'
    BY <1>4 DEF Remove, Advanced, Clear
  <1>5. ASSUME NEW c \in Client, NEW s \in Store, RemoveLate(c, s)
        PROVE  Lone'
    BY <1>5 DEF RemoveLate, Clear
  <1>6. CASE Tick
    BY <1>6 DEF Tick, Past
  <1>7. CASE Restart
    BY <1>7 DEF Restart, Idle
  <1>9. ASSUME NEW c \in Client, Dropped(c)
        PROVE  Lone'
    BY <1>9 DEF Dropped
  <1>8. CASE UNCHANGED vars
    BY <1>8 DEF vars
  <1> QED
    BY <1>1, <1>2, <1>3, <1>4, <1>5, <1>6, <1>7, <1>8, <1>9, StepCases

LEMMA InTurnStep == TypeInv /\ Solo /\ Lone /\ InTurn /\ [Next]_vars => InTurn'
  <1> SUFFICES ASSUME TypeInv, Solo, Lone, InTurn, [Next]_vars PROVE InTurn'
    OBVIOUS
  <1> USE DEF TypeInv, TypeOK, Busy, Solo, Lone, InTurn
  <1>1. ASSUME NEW c \in Client, Started(c)
        PROVE  InTurn'
    BY <1>1 DEF Started
  <1>2. ASSUME NEW c \in Client, Moved(c)
        PROVE  InTurn'
    BY <1>2 DEF Moved
  <1>3. ASSUME NEW c \in Client, NEW s \in Store, Write(c, s), Advanced(c, s, "local", None)
        PROVE  InTurn'
    BY <1>3 DEF Write, Advanced
  <1>4. ASSUME NEW c \in Client, NEW s \in Store, Remove(c, s), Advanced(c, s, "done", None)
        PROVE  InTurn'
    BY <1>4 DEF Remove, Advanced, Clear
  <1>5. ASSUME NEW c \in Client, NEW s \in Store, RemoveLate(c, s)
        PROVE  InTurn'
    BY <1>5 DEF RemoveLate, Clear
  <1>6. CASE Tick
    BY <1>6 DEF Tick, Past
  <1>7. CASE Restart
    BY <1>7 DEF Restart, Idle
  <1>9. ASSUME NEW c \in Client, Dropped(c)
        PROVE  InTurn'
    BY <1>9 DEF Dropped
  <1>8. CASE UNCHANGED vars
    BY <1>8 DEF vars
  <1> QED
    BY <1>1, <1>2, <1>3, <1>4, <1>5, <1>6, <1>7, <1>8, <1>9, StepCases

\* What is written holds the row of the call, in a wrapper that covers it.
LEMMA CopyIsWritten ==
    ASSUME TypeInv, Wrapped, NEW c \in Client, NEW s \in Store, Write(c, s)
    PROVE  \E copy \in Copy :
              /\ copy # None /\ copy.row = call[c].row /\ Covers(copy.row, copy.until)
              /\ local' = (IF s = "local" THEN copy ELSE local)
              /\ remote' = (IF s = "remote" THEN copy ELSE remote)
  <1>1. call[c] \in Call /\ call[c].row \in Row /\ call[c].step = "write"
    BY DEF TypeInv, TypeOK, Shape, Write
  <1>2. PICK until \in Deadlines(c) :
          LET copy == [row |-> call[c].row, until |-> until] IN
          /\ local' = IF s = "local" THEN copy ELSE local
          /\ remote' = IF s = "remote" THEN copy ELSE remote
    BY DEF Write
  <1>3. until \in Nat
    BY <1>1, DeadlinesType DEF TypeInv
  <1>4. Covers(call[c].row, until)
    <2>3. call[c].ttl \in Lifetime \cup {0} /\ call[c].row.expires \in Nat
      BY <1>1 DEF Call, Row
    <2>1. call[c].ttl \in Nat /\ call[c].row.expires \in Nat /\ Deadline(call[c].ttl) \in Nat
      <3>1. call[c].ttl \in Nat
        <4>1. Lifetime \cup {0} \subseteq Nat
          BY KeyValueAssumption
        <4> QED
          BY <2>3, <4>1, Zenon
      <3>2. Deadline(call[c].ttl) \in Nat
        BY <2>3, DeadlineType DEF TypeInv
      <3> QED
        BY <2>3, <3>1, <3>2
    <2>2. call[c].ttl = 0 \/ call[c].row.expires # 0
      BY <1>1 DEF Wrapped
    <2> QED
      BY <2>1, <2>2 DEF Deadlines, Covers
  <1> DEFINE copy == [row |-> call[c].row, until |-> until]
  <1>5. copy \in Copy /\ copy.row = call[c].row /\ copy.until = until
    BY <1>1, <1>3 DEF Copy
  <1>6. copy # None
    BY <1>5
  <1>7. local' = (IF s = "local" THEN copy ELSE local) /\ remote' = (IF s = "remote" THEN copy ELSE remote)
    BY <1>2
  <1> HIDE DEF copy
  <1> QED
    BY <1>4, <1>5, <1>6, <1>7

LEMMA WrappedStep == TypeInv /\ Wrapped /\ [Next]_vars => Wrapped'
  <1> SUFFICES ASSUME TypeInv, Wrapped, [Next]_vars PROVE Wrapped'
    OBVIOUS
  <1> USE DEF TypeInv, TypeOK, Wrapped
  <1>1. ASSUME NEW c \in Client, Started(c)
        PROVE  Wrapped'
    BY <1>1 DEF Started, Covers
  <1>2. ASSUME NEW c \in Client, Moved(c),
               ReadLocal(c) \/ Evict(c) \/ ReadRemote(c) \/ Fill(c) \/ AnswerHas(c)
        PROVE  Wrapped'
    <2>1. \A d \in Client \ {c} : call'[d] = call[d]
      BY <1>2 DEF Moved
    <2>2. remote' = remote /\ call'[c].step # "write"
      BY <1>2 DEF Moved
    <2>3. local' # None => Covers(local'.row, local'.until)
      <3>1. CASE local' = local
        BY <3>1
      <3>2. CASE Evict(c)
        BY <3>2 DEF Evict, Clear
      <3>3. CASE Fill(c) /\ local' # local
        <4> DEFINE until == IF call[c].until = now THEN 0 ELSE call[c].until
        <4>1. local' = [row |-> call[c].row, until |-> until]
          BY <3>3 DEF Fill
        <4>2. Covers(call[c].row, until)
          BY <3>3 DEF Fill, Covers
        <4> HIDE DEF until
        <4>3. local'.row = call[c].row /\ local'.until = until
          BY <4>1
        <4> QED
          BY <4>2, <4>3 DEF Covers
      <3> QED
        BY <1>2, <3>1, <3>2, <3>3 DEF ReadLocal, ReadRemote, AnswerHas
    <2>4. call'[c].step = "fill" => Covers(call'[c].row, call'[c].until)
      <3>1. CASE ReadRemote(c)
        BY <3>1 DEF ReadRemote, Answer, Covers, Call
      <3>2. CASE ReadLocal(c)
        BY <3>2 DEF ReadLocal, Judge, Answer, Call
      <3>3. CASE Evict(c) \/ AnswerHas(c)
        BY <3>3 DEF Evict, AnswerHas, Answer, Call
      <3>4. CASE Fill(c)
        BY <3>4 DEF Fill, Judge, Answer, Call
      <3> QED
        BY <1>2, <3>1, <3>2, <3>3, <3>4
    <2> QED
      BY <2>1, <2>2, <2>3, <2>4 DEF Covers
  <1>3. ASSUME NEW c \in Client, NEW s \in Store, Write(c, s), Advanced(c, s, "local", None)
        PROVE  Wrapped'
    <2>1. PICK copy \in Copy :
            /\ copy # None /\ copy.row = call[c].row /\ Covers(copy.row, copy.until)
            /\ local' = (IF s = "local" THEN copy ELSE local)
            /\ remote' = (IF s = "remote" THEN copy ELSE remote)
      BY <1>3, CopyIsWritten
    <2>2. /\ local' # None => Covers(local'.row, local'.until)
          /\ remote' # None => Covers(remote'.row, remote'.until)
      BY <2>1
    <2>3. /\ call'[c].step # "fill"
          /\ call'[c].step = "write" => call'[c].ttl = 0 \/ call'[c].row.expires # 0
      BY <1>3 DEF Write, Advanced
    <2>4. \A d \in Client \ {c} : call'[d] = call[d]
      BY <1>3 DEF Advanced
    <2> QED
      BY <2>2, <2>3, <2>4 DEF Covers
  <1>4. ASSUME NEW c \in Client, NEW s \in Store, Remove(c, s), Advanced(c, s, "done", None)
        PROVE  Wrapped'
    BY <1>4 DEF Remove, Advanced, Clear, Covers
  <1>5. ASSUME NEW c \in Client, NEW s \in Store, RemoveLate(c, s)
        PROVE  Wrapped'
    BY <1>5 DEF RemoveLate, Clear, Covers
  <1>6. CASE Tick
    BY <1>6 DEF Tick, Covers
  <1>7. CASE Restart
    BY <1>7 DEF Restart, Idle, Covers
  <1>8. CASE UNCHANGED vars
    BY <1>8 DEF vars, Covers
  <1>9. ASSUME NEW c \in Client, Dropped(c)
        PROVE  Wrapped'
    BY <1>9 DEF Dropped, Covers
  <1> QED
    BY <1>1, <1>2, <1>3, <1>4, <1>5, <1>6, <1>7, <1>8, <1>9, StepCases

LEMMA WrittenStep == TypeInv /\ Wrapped /\ Solo /\ Lone /\ Written /\ [Next]_vars => Written'
  <1> SUFFICES ASSUME TypeInv, Wrapped, Solo, Lone, Written, [Next]_vars PROVE Written'
    OBVIOUS
  <1> USE DEF TypeInv, TypeOK, Busy, Solo, Lone, Written
  <1>1. ASSUME NEW c \in Client, Started(c)
        PROVE  Written'
    BY <1>1 DEF Started
  <1>2. ASSUME NEW c \in Client, Moved(c)
        PROVE  Written'
    BY <1>2 DEF Moved
  <1>3. ASSUME NEW c \in Client, NEW s \in Store, Write(c, s), Advanced(c, s, "local", None)
        PROVE  Written'
    <2>1. call'[c].step = "write" => call'[c].row = call[c].row
      BY <1>3 DEF Advanced
    <2>2. PICK copy \in Copy :
            /\ copy # None /\ copy.row = call[c].row
            /\ local' = (IF s = "local" THEN copy ELSE local)
            /\ remote' = (IF s = "remote" THEN copy ELSE remote)
      BY <1>3, CopyIsWritten
    <2>3. CASE s = "local"
      BY <1>3, <2>1, <2>2, <2>3 DEF Write, Advanced
    <2>4. CASE s = "remote"
      BY <1>3, <2>1, <2>2, <2>4 DEF Write, Advanced
    <2> QED
      BY <2>3, <2>4
  <1>4. ASSUME NEW c \in Client, NEW s \in Store, Remove(c, s), Advanced(c, s, "done", None)
        PROVE  Written'
    BY <1>4 DEF Remove, Advanced, Clear
  <1>5. ASSUME NEW c \in Client, NEW s \in Store, RemoveLate(c, s)
        PROVE  Written'
    BY <1>5 DEF RemoveLate, Clear
  <1>6. CASE Tick
    BY <1>6 DEF Tick, Past
  <1>7. CASE Restart
    BY <1>7 DEF Restart, Idle
  <1>9. ASSUME NEW c \in Client, Dropped(c)
        PROVE  Written'
    BY <1>9 DEF Dropped
  <1>8. CASE UNCHANGED vars
    BY <1>8 DEF vars
  <1> QED
    BY <1>1, <1>2, <1>3, <1>4, <1>5, <1>6, <1>7, <1>8, <1>9, StepCases

LEMMA RemovedStep == TypeInv /\ Solo /\ Lone /\ Removed /\ [Next]_vars => Removed'
  <1> SUFFICES ASSUME TypeInv, Solo, Lone, Removed, [Next]_vars PROVE Removed'
    OBVIOUS
  <1> USE DEF TypeInv, TypeOK, Busy, Solo, Lone, Removed
  <1>1. ASSUME NEW c \in Client, Started(c)
        PROVE  Removed'
    BY <1>1 DEF Started
  <1>2. ASSUME NEW c \in Client, Moved(c)
        PROVE  Removed'
    BY <1>2 DEF Moved
  <1>3. ASSUME NEW c \in Client, NEW s \in Store, Write(c, s), Advanced(c, s, "local", None)
        PROVE  Removed'
    BY <1>3 DEF Write, Advanced
  <1>4. ASSUME NEW c \in Client, NEW s \in Store, Remove(c, s), Advanced(c, s, "done", None)
        PROVE  Removed'
    BY <1>4 DEF Remove, Advanced, Clear
  <1>5. ASSUME NEW c \in Client, NEW s \in Store, RemoveLate(c, s)
        PROVE  Removed'
    BY <1>5 DEF RemoveLate, Clear
  <1>6. CASE Tick
    BY <1>6 DEF Tick, Past
  <1>7. CASE Restart
    BY <1>7 DEF Restart, Idle
  <1>9. ASSUME NEW c \in Client, Dropped(c)
        PROVE  Removed'
    BY <1>9 DEF Dropped
  <1>8. CASE UNCHANGED vars
    BY <1>8 DEF vars
  <1> QED
    BY <1>1, <1>2, <1>3, <1>4, <1>5, <1>6, <1>7, <1>8, <1>9, StepCases

LEMMA PastStays == ASSUME TypeInv, Tick, NEW t \in Nat, Past(t) PROVE Past(t)'
  BY DEF TypeInv, TypeOK, Tick, Past

LEMMA RowsExpire == TypeInv => (local # None => local.row.expires \in Nat)
                              /\ (remote # None => remote.row.expires \in Nat)
  BY DEF TypeInv, TypeOK, Copy, Row

\* A row that is not over is in a wrapper that is not over.
LEMMA CoveredLonger ==
    ASSUME TypeInv, NEW row \in Row, NEW until \in Nat, Covers(row, until), ~Past(row.expires)
    PROVE  ~Past(until)
  BY DEF TypeInv, TypeOK, Row, Covers, Past

LEMMA StoreTypes ==
    ASSUME TypeInv
    PROVE  /\ local # None => local \in Copy /\ local.row \in Row /\ local.until \in Nat
           /\ remote # None => remote \in Copy /\ remote.row \in Row /\ remote.until \in Nat
           /\ \A c \in Client : call[c].step = "fill" => call[c].row \in Row /\ call[c].until \in Nat
  BY DEF TypeInv, TypeOK, Copy, Shape, Call

\* A reader who judges a row that is not over answers it.
LEMMA FreshJudged ==
    ASSUME TypeInv, NEW c \in Client, NEW row \in Row, NEW until \in Nat, Judge(c, row, until),
           Covers(row, until), ~Past(row.expires)
    PROVE  call'[c].step = "done" /\ call'[c].row = row /\ late' = late
  <1>1. ~Past(until)
    BY CoveredLonger
  <1>2. Answer(c, row)
    BY <1>1 DEF Judge
  <1> QED
    BY <1>2 DEF Answer, TypeInv, TypeOK, Call

LEMMA AgreeStep ==
    TypeInv /\ Wrapped /\ Solo /\ Lone /\ Written /\ Removed /\ Agree /\ Judged /\ [Next]_vars => Agree'
  <1> SUFFICES ASSUME TypeInv, Wrapped, Solo, Lone, Written, Removed, Agree, Judged, [Next]_vars
               PROVE  Agree'
    OBVIOUS
  <1> USE DEF TypeInv, TypeOK, Busy, Solo, Lone, Written, Removed, Agree, Agreed, Judged, Gone, InHand
  <1>1. ASSUME NEW c \in Client, Started(c)
        PROVE  Agree'
    BY <1>1 DEF Started, Past
  <1>2. ASSUME NEW c \in Client, Moved(c),
               ReadLocal(c) \/ Evict(c) \/ ReadRemote(c) \/ Fill(c) \/ AnswerHas(c)
        PROVE  Agree'
    <2>1. CASE ~overlapped
      <3>1. Agreed
        BY <1>2, <2>1 DEF Moved
      <3>2. CASE local' = local
        BY <1>2, <3>1, <3>2 DEF Moved, Past
      <3>3. CASE Evict(c)
        BY <3>3 DEF Evict, Clear
      <3>4. CASE Fill(c)
        BY <1>2, <2>1, <3>4 DEF Fill, Moved
      <3> QED
        BY <1>2, <3>2, <3>3, <3>4 DEF ReadLocal, ReadRemote, AnswerHas
    <2> QED
      BY <1>2, <2>1 DEF Moved
  <1>3. ASSUME NEW c \in Client, NEW s \in Store, Write(c, s), Advanced(c, s, "local", None)
        PROVE  Agree'
    <2>1. PICK copy \in Copy :
            /\ copy # None /\ copy.row = call[c].row
            /\ local' = (IF s = "local" THEN copy ELSE local)
            /\ remote' = (IF s = "remote" THEN copy ELSE remote)
      BY <1>3, CopyIsWritten
    <2>2. CASE ~(call'[c].todo = {} /\ call[c].alone)
      BY <1>3, <2>1, <2>2 DEF Write, Advanced
    <2>3. CASE call'[c].todo = {} /\ call[c].alone
      <3>1. call[c].step = "write" /\ call[c].todo = {s}
        BY <1>3, <2>3 DEF Write, Advanced, Call
      <3>2. local' # None /\ local'.row = call[c].row /\ remote' # None /\ remote'.row = call[c].row
        BY <2>1, <2>3, <3>1
      <3> QED
        BY <3>2
    <2> QED
      BY <2>2, <2>3
  <1>4. ASSUME NEW c \in Client, NEW s \in Store, Remove(c, s), Advanced(c, s, "done", None)
        PROVE  Agree'
    BY <1>4 DEF Remove, Advanced, Clear, Past
  <1>5. ASSUME NEW c \in Client, NEW s \in Store, RemoveLate(c, s)
        PROVE  Agree'
    BY <1>5 DEF RemoveLate, Clear, Past
  <1>6. CASE Tick
    BY <1>6, PastStays, RowsExpire DEF Tick
  <1>7. CASE Restart
    BY <1>7 DEF Restart, Idle, Past
  <1>9. ASSUME NEW c \in Client, Dropped(c)
        PROVE  Agree'
    BY <1>9 DEF Dropped, Past
  <1>8. CASE UNCHANGED vars
    BY <1>8 DEF vars, Past
  <1> QED
    BY <1>1, <1>2, <1>3, <1>4, <1>5, <1>6, <1>7, <1>8, <1>9, StepCases

LEMMA JudgedStep ==
    TypeInv /\ Wrapped /\ Solo /\ Lone /\ Written /\ Removed /\ Agree /\ Judged /\ [Next]_vars => Judged'
  <1> SUFFICES ASSUME TypeInv, Wrapped, Solo, Lone, Written, Removed, Agree, Judged, [Next]_vars
               PROVE  Judged'
    OBVIOUS
  <1> USE DEF TypeInv, TypeOK, Busy, Solo, Lone, Written, Removed, Agree, Agreed, Judged, Gone, InHand
  <1>1. ASSUME NEW c \in Client, Started(c)
        PROVE  Judged'
    BY <1>1 DEF Started, Past
  <1>2. ASSUME NEW c \in Client, Moved(c),
               ReadLocal(c) \/ Evict(c) \/ ReadRemote(c) \/ Fill(c) \/ AnswerHas(c)
        PROVE  Judged'
    <2>1. CASE ~overlapped
      <3>1. Agreed
        BY <1>2, <2>1 DEF Moved
      <3>2. late[c] = {} /\ \A d \in Client \ {c} : call[d].step = "done" /\ late[d] = {}
        BY <1>2, <2>1 DEF Moved
      <3>3. CASE ReadLocal(c)
        BY <3>1, <3>2, <3>3 DEF ReadLocal, Judge, Answer, Past, Call
      <3>4. CASE Evict(c)
        BY <3>2, <3>4 DEF Evict, Clear, Call
      <3>5. CASE ReadRemote(c)
        <4>1. Past(remote.until) /\ remote # None => Gone
          BY CoveredLonger, StoreTypes DEF Wrapped
        <4>2. /\ remote' = remote /\ late' = late /\ now' = now
              /\ call'[c].step = "fill" => remote # None /\ InHand(c)'
              /\ call'[c].step = "evictRemote" => Gone
              /\ call'[c].step # "remove"
          BY <3>5, <4>1 DEF ReadRemote, Answer, Call
        <4>3. \A d \in Client \ {c} : call'[d] = call[d] /\ late'[d] = late[d]
          BY <1>2 DEF Moved
        <4>4. Gone => Gone'
          BY <4>2 DEF Past
        <4> QED
          BY <3>2, <4>2, <4>3, <4>4
      <3>6. CASE Fill(c)
        <4>1. /\ remote # None /\ call[c].row = remote.row /\ call[c].until \in {0, remote.until}
              /\ remote' = remote /\ now' = now
          BY <2>1, <3>6 DEF Fill
        <4>2. Past(call[c].until) => Gone
          BY <3>6, <4>1, CoveredLonger, StoreTypes DEF Wrapped, Fill
        <4>3. ~Gone => call'[c].step = "done" /\ late' = late
          BY <3>6, <4>1, FreshJudged, StoreTypes DEF Wrapped, Fill
        <4>4. Gone => local' = None \/ Past(local'.row.expires)
          <5>1. CASE local' = local
            BY <3>1, <4>1, <5>1
          <5>2. CASE local' # local
            BY <3>6, <4>1, <5>2 DEF Fill
          <5> QED
            BY <5>1, <5>2
        <4>5. call'[c].step \in {"done", "remove"}
          BY <3>6 DEF Fill, Judge, Answer, Call
        <4>6. \A d \in Client \ {c} : call'[d] = call[d] /\ late'[d] = late[d]
          BY <1>2 DEF Moved
        <4>7. Gone => Gone' /\ (local' = None \/ Past(local.row.expires)')
          BY <4>1, <4>4 DEF Past
        <4> QED
          BY <3>2, <4>3, <4>5, <4>6, <4>7
      <3>7. CASE AnswerHas(c)
        BY <3>2, <3>7 DEF AnswerHas, Answer, Call
      <3> QED
        BY <1>2, <3>3, <3>4, <3>5, <3>6, <3>7
    <2> QED
      BY <1>2, <2>1 DEF Moved
  <1>3. ASSUME NEW c \in Client, NEW s \in Store, Write(c, s), Advanced(c, s, "local", None)
        PROVE  Judged'
    BY <1>3 DEF Write, Advanced, Past
  <1>4. ASSUME NEW c \in Client, NEW s \in Store, Remove(c, s), Advanced(c, s, "done", None)
        PROVE  Judged'
    BY <1>4 DEF Remove, Advanced, Clear, Past
  <1>5. ASSUME NEW c \in Client, NEW s \in Store, RemoveLate(c, s)
        PROVE  Judged'
    BY <1>5 DEF RemoveLate, Clear, Past
  <1>6. CASE Tick
    BY <1>6, PastStays, RowsExpire DEF Tick
  <1>7. CASE Restart
    BY <1>7 DEF Restart, Idle, Past
  <1>9. ASSUME NEW c \in Client, Dropped(c)
        PROVE  Judged'
    BY <1>9 DEF Dropped, Past
  <1>8. CASE UNCHANGED vars
    BY <1>8 DEF vars, Past
  <1> QED
    BY <1>1, <1>2, <1>3, <1>4, <1>5, <1>6, <1>7, <1>8, <1>9, StepCases

LEMMA StandingStep ==
    TypeInv /\ Wrapped /\ Solo /\ Written /\ Standing /\ [Next]_vars => Standing'
  <1> SUFFICES ASSUME TypeInv, Wrapped, Solo, Written, Standing, [Next]_vars PROVE Standing'
    OBVIOUS
  <1> USE DEF TypeInv, TypeOK, Busy, Solo, Written, Standing, Fresh, InHand
  <1>1. ASSUME NEW c \in Client, Started(c)
        PROVE  Standing'
    BY <1>1 DEF Started, Past
  <1>2. ASSUME NEW c \in Client, Moved(c),
               ReadLocal(c) \/ Evict(c) \/ ReadRemote(c) \/ Fill(c) \/ AnswerHas(c)
        PROVE  Standing'
    <2>1. CASE settled /\ Fresh
      <3>1. /\ \A d \in Client \ {c} : call'[d] = call[d] /\ late'[d] = late[d]
            /\ call'[c].step # "write" /\ remote' = remote /\ Fresh' /\ settled'
        BY <1>2, <2>1 DEF Moved, Past
      <3>2. /\ local' = None \/ local'.row = remote.row
            /\ call'[c].step \notin {"remove", "evictRemote"} /\ late'[c] = {}
            /\ call'[c].step = "fill" => call'[c].row = remote.row /\ call'[c].until \in {0, remote.until}
        <4>1. CASE ReadLocal(c)
          <5>1. CASE local # None /\ Past(local.until)
            BY <2>1, <4>1, <5>1 DEF ReadLocal, Call
          <5>2. CASE local # None /\ ~Past(local.until)
            <6>1. local.row = remote.row /\ Judge(c, local.row, local.until) /\ local' = local
              BY <2>1, <4>1, <5>2 DEF ReadLocal
            <6> QED
              BY <2>1, <5>2, <6>1, FreshJudged, StoreTypes DEF Wrapped
          <5>3. CASE local = None
            BY <2>1, <4>1, <5>3 DEF ReadLocal, Call
          <5> QED
            BY <5>1, <5>2, <5>3
        <4>2. CASE Evict(c) \/ AnswerHas(c)
          <5>1. CASE Evict(c)
            BY <2>1, <5>1 DEF Evict, Clear, Call
          <5>2. CASE AnswerHas(c)
            BY <2>1, <5>2 DEF AnswerHas, Answer, Call
          <5> QED
            BY <4>2, <5>1, <5>2
        <4>3. CASE ReadRemote(c)
          <5>1. ~Past(remote.until)
            BY <2>1, CoveredLonger, StoreTypes DEF Wrapped
          <5> QED
            BY <2>1, <4>3, <5>1 DEF ReadRemote, Answer, Call
        <4>4. CASE Fill(c)
          <5>1. /\ call[c].step = "fill" /\ call[c].row = remote.row
                /\ Judge(c, call[c].row, call[c].until)
                /\ local' = local \/ local'.row = call[c].row
            BY <2>1, <4>4 DEF Fill
          <5> QED
            BY <2>1, <5>1, FreshJudged, StoreTypes DEF Wrapped
        <4> QED
          BY <1>2, <4>1, <4>2, <4>3, <4>4
      <3> QED
        BY <2>1, <3>1, <3>2
    <2>2. CASE ~(settled /\ Fresh)
      BY <1>2, <2>2 DEF Moved, Past
    <2> QED
      BY <2>1, <2>2
  <1>3. ASSUME NEW c \in Client, NEW s \in Store, Write(c, s), Advanced(c, s, "local", None)
        PROVE  Standing'
    <2>1. PICK copy \in Copy :
            /\ copy # None /\ copy.row = call[c].row
            /\ local' = (IF s = "local" THEN copy ELSE local)
            /\ remote' = (IF s = "remote" THEN copy ELSE remote)
      BY <1>3, CopyIsWritten
    <2>2. ~settled
      BY <1>3 DEF Write
    <2>3. CASE call'[c].todo = {} /\ call[c].alone
      <3>1. call[c].step = "write" /\ call'[c].step = "local" /\ call[c].todo = {s}
        BY <1>3, <2>3 DEF Write, Advanced, Call
      <3>2. \A d \in Client \ {c} : call'[d] = call[d] /\ call[d].step = "done" /\ late[d] = {}
        BY <1>3, <2>3, <3>1 DEF Advanced
      <3>3. late[c] = {} /\ late' = late
        BY <1>3, <2>3, <3>1 DEF Write
      <3>4. local' # None /\ local'.row = call[c].row /\ remote' # None /\ remote'.row = call[c].row
        BY <2>1, <2>3, <3>1
      <3> QED
        BY <3>1, <3>2, <3>3, <3>4
    <2>4. CASE ~(call'[c].todo = {} /\ call[c].alone)
      BY <1>3, <2>2, <2>4 DEF Advanced
    <2> QED
      BY <2>3, <2>4
  <1>4. ASSUME NEW c \in Client, NEW s \in Store, Remove(c, s), Advanced(c, s, "done", None)
        PROVE  Standing'
    <2>1. settled' <=> settled
      BY <1>4 DEF Advanced, Remove
    <2>2. CASE settled
      <3>1. ~Fresh
        BY <1>4, <2>2 DEF Remove
      <3>2. ~Fresh'
        BY <1>4, <3>1 DEF Remove, Clear, Past
      <3> QED
        BY <1>4, <2>2, <3>2 DEF Remove, Advanced
    <2> QED
      BY <2>1, <2>2
  <1>5. ASSUME NEW c \in Client, NEW s \in Store, RemoveLate(c, s)
        PROVE  Standing'
    <2>1. settled => ~Fresh
      BY <1>5 DEF RemoveLate
    <2>2. settled => ~Fresh'
      BY <1>5, <2>1 DEF RemoveLate, Clear, Past
    <2> QED
      BY <1>5, <2>2 DEF RemoveLate
  <1>6. CASE Tick
    <2>1. Fresh' => Fresh
      BY <1>6, PastStays, RowsExpire DEF Tick
    <2> QED
      BY <1>6, <2>1 DEF Tick
  <1>7. CASE Restart
    BY <1>7 DEF Restart, Idle
  <1>8. CASE UNCHANGED vars
    BY <1>8 DEF vars, Past
  <1>9. ASSUME NEW c \in Client, Dropped(c)
        PROVE  Standing'
    BY <1>9 DEF Dropped
  <1> QED
    BY <1>1, <1>2, <1>3, <1>4, <1>5, <1>6, <1>7, <1>8, <1>9, StepCases

-----------------------------------------------------------------------------
(* What a call that meets no other relies on between its steps, what the   *)
(* two stores have in common, and what becomes of what a lone set wrote:   *)
(* TypeInv .. Standing.                                                    *)
THEOREM InductiveInvariant == Spec => []IInv
  <1>1. Init => IInv
    <2> SUFFICES ASSUME Init PROVE IInv
      OBVIOUS
    <2>1. TypeInv
      BY TypeInit
    <2>2. \A c \in Client : call[c].step = "done" /\ call[c].op = None /\ late[c] = {}
      BY DEF Init, Idle
    <2> QED
      BY <2>1, <2>2 DEF Init, IInv, Solo, Lone, InTurn, Written, Removed, Agree, Agreed, Judged, Wrapped,
                         Standing
  <1>2. IInv /\ [Next]_vars => IInv'
    BY TypeStep, WrappedStep, SoloStep, LoneStep, InTurnStep, WrittenStep, RemovedStep, AgreeStep,
       JudgedStep, StandingStep DEF IInv
  <1> QED
    BY <1>1, <1>2, PTL DEF Spec

(* While no calls have met and nothing is under way, the Map holds nothing,*)
(* the row of the remote store, or one that is over.                       *)
THEOREM LoneWriteHealsAlways == Spec => []LoneWriteHeals
  <1>1. IInv => LoneWriteHeals
    BY DEF IInv, Agree, Agreed, LoneWriteHeals, Busy
  <1> QED
    BY <1>1, InductiveInvariant, PTL

(* What a set that met no other call wrote stands, whatever reads meet,    *)
(* until a set or a delete begins or it is over, and every read is told it.*)
THEOREM LoneSetStandsAlways == Spec => LoneSetStands
  <1> DEFINE Told == \A c \in Client :
                call[c].step # "done" /\ call'[c].step = "done" /\ call'[c].op \notin {None, "has"}
                  => call'[c].row = remote.row
             Stands == settled /\ Fresh => remote' = remote /\ Told
  <1>1. ASSUME IInv, [Next]_vars PROVE Stands
    <2> SUFFICES ASSUME settled, Fresh PROVE remote' = remote /\ Told
      OBVIOUS
    <2> USE DEF IInv, TypeInv, TypeOK
    <2>1. ASSUME NEW c \in Client, Started(c) PROVE remote' = remote /\ Told
      BY <2>1 DEF Started
    <2>2. ASSUME NEW c \in Client, Moved(c),
                 ReadLocal(c) \/ Evict(c) \/ ReadRemote(c) \/ Fill(c) \/ AnswerHas(c)
          PROVE  remote' = remote /\ Told
      <3>1. remote' = remote /\ \A d \in Client \ {c} : call'[d] = call[d]
        BY <2>2 DEF Moved
      <3>2. call'[c].step = "done" /\ call'[c].op # "has" => call'[c].row = remote.row
        <4>1. CASE ReadLocal(c)
          <5>1. CASE local # None /\ ~Past(local.until)
            <6>1. local.row = remote.row /\ Judge(c, local.row, local.until)
              BY <1>1, <4>1, <5>1 DEF ReadLocal, Standing
            <6> QED
              BY <1>1, <5>1, <6>1, FreshJudged, StoreTypes DEF Wrapped, Fresh
          <5>2. CASE ~(local # None /\ ~Past(local.until))
            BY <1>1, <4>1, <5>2 DEF ReadLocal, Call
          <5> QED
            BY <5>1, <5>2
        <4>2. CASE Evict(c)
          BY <4>2 DEF Evict, Call
        <4>3. CASE ReadRemote(c)
          <5>1. remote # None
            BY DEF Fresh
          <5> QED
            BY <1>1, <4>3, <5>1 DEF ReadRemote, Call
        <4>4. CASE Fill(c)
          <5>1. /\ call[c].step = "fill" /\ call[c].row = remote.row
                /\ Judge(c, call[c].row, call[c].until)
            BY <1>1, <4>4 DEF Fill, Standing, InHand
          <5> QED
            BY <1>1, <5>1, FreshJudged, StoreTypes DEF Wrapped, Fresh
        <4>5. CASE AnswerHas(c)
          <5>1. call[c].op = "has" /\ call'[c].op = call[c].op
            BY <1>1, <2>2, <4>5 DEF AnswerHas, Shape, Moved
          <5> QED
            BY <5>1
        <4> QED
          BY <2>2, <4>1, <4>2, <4>3, <4>4, <4>5
      <3> QED
        BY <3>1, <3>2
    <2>3. ASSUME NEW c \in Client, NEW s \in Store, Write(c, s) \/ Remove(c, s) \/ RemoveLate(c, s)
          PROVE  FALSE
      <3>1. call[c].step # "write" /\ call[c].step # "remove" /\ late[c] = {}
        BY <1>1 DEF Standing
      <3> QED
        BY <2>3, <3>1 DEF Write, Remove, RemoveLate
    <2>4. ASSUME NEW c \in Client, Dropped(c) PROVE FALSE
      <3>1. call[c].step # "evictRemote"
        BY <1>1 DEF Standing
      <3> QED
        BY <2>4, <3>1 DEF Dropped
    <2>5. CASE Tick \/ UNCHANGED vars
      BY <2>5 DEF Tick, vars
    <2>6. CASE Restart
      BY <2>6 DEF Restart, Idle
    <2> QED
      BY <1>1, <2>1, <2>2, <2>3, <2>4, <2>5, <2>6, StepCases
  <1> QED
    BY <1>1, InductiveInvariant, PTL DEF Spec, LoneSetStands
-----------------------------------------------------------------------------
\* In turn, a call that ends is told what the map has for the key.
LEMMA CallTellsOrGoesOn ==
    ASSUME IInv, order = "inTurn", NEW c \in Client, Moved(c),
           ReadLocal(c) \/ Evict(c) \/ ReadRemote(c) \/ Fill(c) \/ AnswerHas(c)
    PROVE  /\ Held' = Held
           /\ \/ Heard' = Heard
              \/ Heard[c] = <<>> /\ Heard' = [Heard EXCEPT ![c] = <<Held>>]
  <1> USE DEF IInv, TypeInv, TypeOK
  <1>1. ~overlapped /\ call[c].op # "has" /\ call[c].op # "getManyAsValueData"
    BY DEF InTurn
  <1>2. Agreed
    BY <1>1 DEF Agree, Lone, Solo, Moved, Busy
  <1>3. Held' = Held
    BY DEF Moved, Held, Fresh, Past
  <1>4. Heard[c] = <<>>
    BY DEF Heard, Moved
  <1>5. \A d \in Client \ {c} : Heard'[d] = Heard[d]
    BY DEF Heard, Moved
  <1>6. call'[c].step # "done" => Heard'[c] = <<>>
    BY DEF Heard
  <1>7. call'[c].step = "done" => call'[c].row = Held
    <2>1. CASE ReadLocal(c)
      <3>1. CASE local # None /\ ~Past(local.until)
        <4>1. Judge(c, local.row, local.until) /\ call[c].op \in {"set", "get", "getMany"}
          BY <1>1, <2>1, <3>1 DEF ReadLocal, Shape
        <4>2. call'[c].step = "done" =>
                call'[c].row = IF Past(local.row.expires) THEN None ELSE local.row
          BY <4>1 DEF Judge, Raw, Answer, Call
        <4> QED
          BY <1>2, <3>1, <4>2 DEF Agreed, Held, Fresh
      <3>2. CASE ~(local # None /\ ~Past(local.until))
        BY <2>1, <3>2 DEF ReadLocal, Call
      <3> QED
        BY <3>1, <3>2
    <2>2. CASE Evict(c)
      BY <2>2 DEF Evict, Call
    <2>3. CASE ReadRemote(c)
      BY <2>3 DEF ReadRemote, Answer, Call, Held, Fresh
    <2>4. CASE Fill(c)
      <3>1. /\ Judge(c, call[c].row, call[c].until) /\ call[c].op \in {"set", "get", "getMany"}
            /\ remote # None /\ call[c].row = remote.row
        BY <1>1, <2>4 DEF Fill, Judged, InHand, Shape
      <3>2. call'[c].step = "done" =>
              call'[c].row = IF Past(call[c].row.expires) THEN None ELSE call[c].row
        BY <3>1 DEF Judge, Raw, Answer, Call
      <3> QED
        BY <3>1, <3>2 DEF Held, Fresh
    <2>5. CASE AnswerHas(c)
      BY <1>1, <2>5 DEF AnswerHas, Shape
    <2> QED
      BY <2>1, <2>2, <2>3, <2>4, <2>5
  <1>8. call'[c].step = "done" => call'[c].op \in {"set", "get", "getMany"}
    <2>1. call'[c].op = call[c].op
      BY DEF Moved
    <2>2. call[c].op \in {"set", "get", "getMany"}
      BY <1>1 DEF Shape, ReadLocal, Evict, ReadRemote, Fill, AnswerHas
    <2> QED
      BY <2>1, <2>2
  <1>9. Heard'[c] = IF call'[c].step = "done" THEN <<Held>> ELSE <<>>
    BY <1>6, <1>7, <1>8 DEF Heard
  <1>10. Heard' = IF call'[c].step = "done" THEN [Heard EXCEPT ![c] = <<Held>>] ELSE Heard
    <2>1. Heard = [d \in Client |-> Heard[d]] /\ Heard' = [d \in Client |-> Heard'[d]]
      BY DEF Heard
    <2> QED
      BY <1>4, <1>5, <1>9, <2>1
  <1> QED
    BY <1>3, <1>4, <1>10

(* Calls made in turn see one map.                                         *)
THEOREM InTurnIsAMapAlways == Spec => InTurnIsAMap
  <1> DEFINE AsMap == order = "inTurn" => (Map!Next \/ UNCHANGED <<now, Held, Heard>>)
  <1>1. ASSUME IInv, [Next]_vars PROVE AsMap
    <2> SUFFICES ASSUME order = "inTurn" PROVE Map!Next \/ UNCHANGED <<now, Held, Heard>>
      OBVIOUS
    <2> USE DEF IInv, TypeInv, TypeOK
    <2>0. ~overlapped
      BY <1>1 DEF InTurn
    <2>1. ASSUME NEW c \in Client, Started(c) PROVE Map!Next
      <3>1. now' = now /\ Held' = Held
        BY <2>1 DEF Started, Held, Fresh, Past
      <3>2. Heard' = [d \in Client |-> IF d \in {c} THEN <<>> ELSE Heard[d]]
        BY <2>1 DEF Started, Heard
      <3>3. Map!Ask({c})
        BY <3>1, <3>2 DEF Map!Ask
      <3> QED
        BY <3>3 DEF Map!Next
    <2>2. ASSUME NEW c \in Client, Moved(c),
                 ReadLocal(c) \/ Evict(c) \/ ReadRemote(c) \/ Fill(c) \/ AnswerHas(c)
          PROVE  Map!Next \/ UNCHANGED <<now, Held, Heard>>
      <3>1. now' = now
        BY <2>2 DEF Moved
      <3> QED
        BY <1>1, <2>2, <3>1, CallTellsOrGoesOn DEF Map!Next, Map!Tell
    <2>3. ASSUME NEW c \in Client, NEW s \in Store, Write(c, s), Advanced(c, s, "local", None)
          PROVE  Map!Next \/ UNCHANGED <<now, Held, Heard>>
      <3>1. now' = now
        BY <2>3 DEF Write
      <3>2. Heard' = Heard
        BY <2>3 DEF Write, Advanced, Heard
      <3> QED
        BY <3>1, <3>2 DEF Map!Next, Map!Write
    <2>4. ASSUME NEW c \in Client, NEW s \in Store, Remove(c, s), Advanced(c, s, "done", None)
          PROVE  Map!Next \/ UNCHANGED <<now, Held, Heard>>
      <3>1. now' = now /\ \A d \in Client \ {c} : Heard'[d] = Heard[d]
        BY <2>4 DEF Remove, Advanced, Heard
      <3>2. Heard[c] = <<>> /\ call[c].op \in {"set", "get", "delete"} /\ call'[c].op = call[c].op
        BY <1>1, <2>4 DEF Remove, Advanced, Heard, Shape
      <3>3. Heard = [d \in Client |-> Heard[d]] /\ Heard' = [d \in Client |-> Heard'[d]]
        BY DEF Heard
      <3>4. CASE call[c].op = "delete"
        <4>1. Heard'[c] = <<>>
          BY <3>2, <3>4 DEF Heard
        <4>2. Heard' = Heard
          BY <3>1, <3>2, <3>3, <4>1
        <4> QED
          BY <3>1, <4>2 DEF Map!Next, Map!Write
      <3>5. CASE call[c].op # "delete"
        <4>1. Held = None
          BY <1>1, <2>0, <2>4, <3>5 DEF Remove, Judged, Gone, Held, Fresh
        <4>2. Held' = None
          BY <4>1, <2>4 DEF Remove, Clear, Held, Fresh, Past
        <4>3. Heard'[c] = <<>> \/ (Heard'[c] = <<call'[c].row>> /\ call'[c].step = "done")
          BY DEF Heard
        <4>4. call'[c].step = "done" => call'[c].row = None
          BY <2>4 DEF Remove, Advanced
        <4>5. Heard' = Heard \/ Heard' = [Heard EXCEPT ![c] = <<Held>>]
          <5>1. CASE Heard'[c] = <<>>
            BY <3>1, <3>2, <3>3, <5>1
          <5>2. CASE Heard'[c] = <<call'[c].row>> /\ call'[c].step = "done"
            <6>1. Heard'[c] = <<Held>>
              BY <4>1, <4>4, <5>2
            <6> QED
              BY <3>1, <3>3, <6>1
          <5> QED
            BY <4>3, <5>1, <5>2
        <4> QED
          BY <3>1, <3>2, <4>1, <4>2, <4>5 DEF Map!Next, Map!Tell
      <3> QED
        BY <3>4, <3>5
    <2>5. ASSUME NEW c \in Client, NEW s \in Store, RemoveLate(c, s)
          PROVE  UNCHANGED <<now, Held, Heard>>
      <3>1. Gone
        BY <1>1, <2>0, <2>5 DEF RemoveLate, Judged
      <3>2. Held = None /\ Held' = None
        BY <2>5, <3>1 DEF RemoveLate, Clear, Held, Fresh, Gone, Past
      <3> QED
        BY <2>5, <3>2 DEF RemoveLate, Heard
    <2>9. ASSUME NEW c \in Client, Dropped(c)
          PROVE  Map!Next \/ UNCHANGED <<now, Held, Heard>>
      <3>1. now' = now /\ Held = None /\ Held' = None
        <4>1. Gone
          BY <1>1, <2>0, <2>9 DEF Dropped, Judged
        <4> QED
          BY <2>9, <4>1 DEF Dropped, Gone, Held, Fresh
      <3>2. Heard[c] = <<>> /\ \A d \in Client \ {c} : Heard'[d] = Heard[d]
        BY <2>9 DEF Dropped, Heard
      <3>3. Heard'[c] = <<>> \/ Heard'[c] = <<Held>>
        BY <2>9, <3>1 DEF Dropped, Heard
      <3>4. Heard = [d \in Client |-> Heard[d]] /\ Heard' = [d \in Client |-> Heard'[d]]
        BY DEF Heard
      <3>5. Heard' = Heard \/ Heard' = [Heard EXCEPT ![c] = <<Held>>]
        BY <3>2, <3>3, <3>4
      <3> QED
        BY <3>1, <3>2, <3>5 DEF Map!Next, Map!Tell
    <2>6. CASE Tick
      <3>1. Held' = IF Held # None /\ Map!Over(Held, now') THEN None ELSE Held
        BY <1>1, <2>6, RowsExpire, PastStays DEF Tick, Held, Fresh, Past, Map!Over
      <3>2. Heard' = Heard /\ now' = now + 1
        BY <2>6 DEF Tick, Heard
      <3> QED
        BY <3>1, <3>2 DEF Map!Next, Map!Tick
    <2>7. CASE Restart
      <3>1. now' = now /\ Held' = Held
        BY <2>7 DEF Restart, Held, Fresh, Past
      <3>2. Heard' = [d \in Client |-> IF d \in Client THEN <<>> ELSE Heard[d]]
        BY <2>7 DEF Restart, Idle, Heard
      <3>3. Map!Ask(Client)
        BY <3>1, <3>2 DEF Map!Ask
      <3> QED
        BY <3>3 DEF Map!Next
    <2>8. CASE UNCHANGED vars
      BY <2>8 DEF vars, Held, Fresh, Heard, Past
    <2> QED
      BY <1>1, <2>1, <2>2, <2>3, <2>4, <2>5, <2>6, <2>7, <2>8, <2>9, StepCases
  <1> QED
    BY <1>1, InductiveInvariant, PTL DEF Spec, InTurnIsAMap
=============================================================================
