-------------------------- MODULE StatusListProofs --------------------------
(***************************************************************************)
(* Theorems about StatusList, for any number of credentials, requests and  *)
(* positions. Each rests on TypeInv; the rest of each inductive invariant  *)
(* says what a handler between two of its steps may still rely on.         *)
(***************************************************************************)
EXTENDS StatusList, SequenceTheorems, TLAPS

USE StatusListAssumption DEF Request, Index

(* What a handler knows of its own request at each of its steps.           *)
IssuanceShape ==
    \A r \in Issuance :
        /\ pc[r] \in Ended \cup {"idle", "find", "check", "draw", "upsert", "answer"}
        /\ pc[r] \in {"find", "check", "draw", "upsert", "answer", "done"} => cred[r] \in Credential
        /\ pc[r] \in {"check", "upsert", "answer", "done"} => idx[r] \in Index
        /\ pc[r] = "draw" => tries[r] < MaxTries
        /\ pc[r] \in {"idle", "find", "check"} => tries[r] = 0
        /\ drawn[r] => pc[r] \in Ended \cup {"upsert", "answer"}

UpdateShape ==
    \A u \in Update :
        /\ pc[u] \in Ended \cup {"idle", "lookup", "read", "item", "publish"}
        /\ pc[u] \in {"lookup", "read", "item", "publish", "done"} => cred[u] \in Credential
        /\ pc[u] \in {"read", "item", "publish", "done"} => idx[u] \in Index
        /\ pc[u] \in {"lookup", "read", "item", "publish"} => todo[u] # <<>>

TypeInv == TypeOK /\ IssuanceShape /\ UpdateShape
-----------------------------------------------------------------------------
LEMMA TypeInit == Init => TypeInv
  BY SMT DEF Init, TypeInv, TypeOK, IssuanceShape, UpdateShape, Ended, Clear, NoEntry, Entry

LEMMA ItemListsAreSequences == \A list \in ItemLists : list \in Seq(Items) /\ list # <<>>
  <1>1. TAKE list \in ItemLists
  <1>2. PICK n \in 1 .. MaxItems : list \in [1 .. n -> Items]
    BY DEF ItemLists
  <1>3. n \in Nat \ {0}
    BY <1>2
  <1>4. list \in Seq(Items)
    BY <1>2, <1>3
  <1>5. Len(list) = n
    BY <1>2, <1>3
  <1> QED
    BY <1>3, <1>4, <1>5

LEMMA TailOfTodo ==
    ASSUME NEW list \in Seq(Items), list # <<>>
    PROVE  Tail(list) \in Seq(Items) /\ (Len(list) # 1 => Tail(list) # <<>>)
  <1>1. Tail(list) \in Seq(Items) /\ Len(Tail(list)) = Len(list) - 1
    BY HeadTailProperties
  <1>2. Len(list) \in Nat /\ Len(<<>>) = 0
    BY EmptySeq
  <1> QED
    BY <1>1, <1>2

\* The row an issuance writes is its credential's and keeps or takes a status.
LEMMA UpsertWrites ==
    ASSUME TypeInv, NEW r \in Issuance, Upsert(r)
    PROVE  /\ pc[r] = "upsert" /\ pc' = [pc EXCEPT ![r] = "answer"]
           /\ idx[r] \in Index /\ cred[r] \in Credential
           /\ entries' \in [Index -> Entry \cup {NoEntry}]
           /\ \A i \in Index \ {idx[r]} : entries'[i] = entries[i]
           /\ entries'[idx[r]] \in Entry /\ entries'[idx[r]].cred = cred[r]
           /\ stated' \subseteq stated \cup {idx[r]} /\ stated \subseteq stated'
           /\ idx[r] \in stated' \/ entries'[idx[r]].value = entries[idx[r]].value
           /\ UNCHANGED <<bits, cred, idx, tries, drawn, snap, todo, prior>>
  <1> USE DEF TypeInv, TypeOK, IssuanceShape
  <1>1. pc[r] = "upsert" /\ idx[r] \in Index /\ cred[r] \in Credential
    BY DEF Upsert
  <1>2. PICK v \in Values :
          /\ entries' = [entries EXCEPT ![idx[r]] =
                           [cred |-> cred[r], value |-> IF v = "none" THEN entries[idx[r]].value ELSE v]]
          /\ stated' = IF v = "none" THEN stated ELSE stated \cup {idx[r]}
    BY DEF Upsert
  <1>3. entries[idx[r]].value \in {"none", "0", "1"}
    BY <1>1, SMT DEF Entry, NoEntry
  <1>4. entries'[idx[r]] = [cred |-> cred[r], value |-> IF v = "none" THEN entries[idx[r]].value ELSE v]
    BY <1>1, <1>2
  <1>5. entries'[idx[r]] \in Entry
    BY <1>1, <1>3, <1>4 DEF Entry
  <1>6. /\ entries' \in [Index -> Entry \cup {NoEntry}]
        /\ \A i \in Index \ {idx[r]} : entries'[i] = entries[i]
    <2> DEFINE row == [cred |-> cred[r], value |-> IF v = "none" THEN entries[idx[r]].value ELSE v]
    <2>1. row \in Entry /\ entries' = [entries EXCEPT ![idx[r]] = row]
      BY <1>2, <1>4, <1>5
    <2> HIDE DEF row
    <2> QED
      BY <1>1, <2>1
  <1> QED
    BY <1>1, <1>2, <1>4, <1>5, <1>6 DEF Upsert

LEMMA TypeStep == TypeInv /\ [Next]_vars => TypeInv'
  <1> SUFFICES ASSUME TypeInv, [Next]_vars PROVE TypeInv'
    OBVIOUS
  <1> USE DEF TypeInv, TypeOK, IssuanceShape, UpdateShape, Ended
  <1>1. ASSUME NEW r \in Issuance, StartIssuance(r) PROVE TypeInv'
    BY <1>1, SMT DEF StartIssuance, Start
  <1>2. ASSUME NEW r \in Issuance, FindGiven(r) PROVE TypeInv'
    BY <1>2, SMT DEF FindGiven
  <1>3. ASSUME NEW r \in Issuance, FindNothing(r) PROVE TypeInv'
    <2>1. pc[r] = "find" /\ cred[r] \in Credential /\ tries[r] = 0 /\ ~drawn[r]
      BY <1>3 DEF FindNothing
    <2> QED
      BY <1>3, <2>1, SMT DEF FindNothing
  <1>4. ASSUME NEW r \in Issuance, CheckGiven(r) PROVE TypeInv'
    BY <1>4, SMT DEF CheckGiven
  <1>5. ASSUME NEW r \in Issuance, DrawFree(r) PROVE TypeInv'
    BY <1>5, SMT DEF DrawFree, Available
  <1>6. ASSUME NEW r \in Issuance, DrawUsed(r) PROVE TypeInv'
    BY <1>6, SMT DEF DrawUsed, Exhausted
  <1>7. ASSUME NEW r \in Issuance, Upsert(r) \/ Answer(r) PROVE TypeInv'
    <2>1. CASE Upsert(r)
      <3>1. entries' \in [Index -> Entry \cup {NoEntry}] /\ stated' \subseteq Index
        BY <2>1, UpsertWrites
      <3>2. /\ pc' = [pc EXCEPT ![r] = "answer"]
            /\ UNCHANGED <<bits, cred, idx, tries, drawn, snap, todo, prior>>
        BY <2>1, UpsertWrites
      <3>3. idx[r] \in Index /\ cred[r] \in Credential
        BY <2>1, UpsertWrites
      <3>4. TypeOK' /\ UpdateShape'
        BY <3>1, <3>2
      <3>5. IssuanceShape'
        BY <3>2, <3>3
      <3> QED
        BY <3>4, <3>5
    <2>2. CASE Answer(r)
      BY <2>2, SMT DEF Answer
    <2> QED
      BY <1>7, <2>1, <2>2
  <1>8. ASSUME NEW u \in Update, StartUpdate(u) PROVE TypeInv'
    BY <1>8, ItemListsAreSequences, SMT DEF StartUpdate, Start
  <1>9. ASSUME NEW u \in Update, Lookup(u) PROVE TypeInv'
    <2>1. CASE RowsOf(cred[u]) = {} /\ pc' = [pc EXCEPT ![u] = "failed"] /\ UNCHANGED idx
      BY <1>9, <2>1, SMT DEF Lookup
    <2>2. ASSUME NEW i \in RowsOf(cred[u]), idx' = [idx EXCEPT ![u] = i],
                 pc' = [pc EXCEPT ![u] = "read"]
          PROVE  TypeInv'
      <3>1. i \in Index
        BY DEF RowsOf
      <3> QED
        BY <1>9, <2>2, <3>1, SMT DEF Lookup
    <2> QED
      BY <1>9, <2>1, <2>2 DEF Lookup
  <1>10. ASSUME NEW u \in Update, ReadList(u) PROVE TypeInv'
    BY <1>10, SMT DEF ReadList
  <1>11. ASSUME NEW u \in Update, RefuseItem(u) PROVE TypeInv'
    BY <1>11, SMT DEF RefuseItem
  <1>12. ASSUME NEW u \in Update, WriteEntry(u) PROVE TypeInv'
    <2>1. idx[u] \in Index /\ cred[u] \in Credential /\ todo[u] # <<>>
      BY <1>12 DEF WriteEntry
    <2>2. entries' \in [Index -> Entry \cup {NoEntry}] /\ stated' \subseteq Index
      BY <1>12, <2>1 DEF WriteEntry, Entry
    <2>3. pc' = [pc EXCEPT ![u] = "publish"] /\ UNCHANGED <<bits, cred, idx, tries, drawn, snap, todo, prior>>
      BY <1>12 DEF WriteEntry
    <2> QED
      BY <2>1, <2>2, <2>3
  <1>13. ASSUME NEW u \in Update, Publish(u) PROVE TypeInv'
    <2>1. idx[u] \in Index /\ todo[u] \in Seq(Items) /\ todo[u] # <<>>
      BY <1>13 DEF Publish
    <2>2. bits' \in [Index -> BOOLEAN]
      BY <1>13, <2>1 DEF Publish, NewBits
    <2>3. Tail(todo[u]) \in Seq(Items) /\ (Len(todo[u]) # 1 => Tail(todo[u]) # <<>>)
      BY <2>1, TailOfTodo
    <2>4. todo' \in [Update -> Seq(Items)]
      BY <1>13, <2>3 DEF Publish
    <2>5. pc'[u] = "item" => todo'[u] # <<>>
      BY <1>13, <2>3 DEF Publish
    <2>6. pc'[u] \in {"item", "done"}
      BY <1>13 DEF Publish
    <2> QED
      BY <1>13, <2>1, <2>2, <2>4, <2>5, <2>6, SMTT(30) DEF Publish
  <1>14. ASSUME Crash PROVE TypeInv'
    BY <1>14, SMT DEF Crash, InFlight, Clear
  <1>15. CASE UNCHANGED vars
    BY <1>15 DEF vars
  <1> QED
    BY <1>1, <1>2, <1>3, <1>4, <1>5, <1>6, <1>7, <1>8, <1>9, <1>10, <1>11,
       <1>12, <1>13, <1>14, <1>15
       DEF Next, IssuanceStep, UpdateStep

(* The tables, and what every handler holds of them, keep their types:     *)
(* StatusListStore.ts and the two request handlers.                        *)
THEOREM TypeCorrect == Spec => []TypeOK
  <1>1. Spec => []TypeInv
    BY TypeInit, TypeStep, PTL DEF Spec
  <1>2. TypeInv => TypeOK
    BY DEF TypeInv
  <1> QED
    BY <1>1, <1>2, PTL
-----------------------------------------------------------------------------
(* Every position a handler has found, and every bit it means to publish,  *)
(* has a row. Rows are never removed while the list is in use, so what was *)
(* true when the handler read it is true when it writes.                   *)
Backed ==
    /\ \A r \in Issuance : pc[r] \in {"answer", "done"} => entries[idx[r]] # NoEntry
    /\ \A u \in Update :
        /\ pc[u] \in {"read", "item", "publish"} => entries[idx[u]] # NoEntry
        /\ \A i \in Index : snap[u][i] => entries[i] # NoEntry
    /\ UnheldIsClear

LEMMA RowsStay ==
    TypeInv /\ [Next]_vars => \A i \in Index : entries[i] # NoEntry => entries'[i] # NoEntry
  <1> SUFFICES ASSUME TypeInv, [Next]_vars, NEW i \in Index, entries[i] # NoEntry
               PROVE  entries'[i] # NoEntry
    OBVIOUS
  <1> USE DEF TypeInv, TypeOK, IssuanceShape, UpdateShape
  <1>1. ASSUME NEW r \in Issuance, Upsert(r) PROVE entries'[i] # NoEntry
    <2>1. CASE i = idx[r]
      BY <1>1, <2>1, UpsertWrites, SMT DEF Entry, NoEntry
    <2>2. CASE i # idx[r]
      BY <1>1, <2>2, UpsertWrites
    <2> QED
      BY <2>1, <2>2
  <1>2. ASSUME NEW u \in Update, WriteEntry(u) PROVE entries'[i] # NoEntry
    BY <1>2, SMT DEF WriteEntry, NoEntry
  <1>3. CASE UNCHANGED entries
    BY <1>3
  <1> QED
    BY <1>1, <1>2, <1>3
       DEF Next, IssuanceStep, UpdateStep, StartIssuance, FindGiven, FindNothing, CheckGiven,
           DrawFree, DrawUsed, Answer, StartUpdate, Lookup, ReadList, RefuseItem, Publish, Crash, vars

LEMMA BackedStep == TypeInv /\ TypeInv' /\ Backed /\ [Next]_vars => Backed'
  <1> SUFFICES ASSUME TypeInv, TypeInv', Backed, [Next]_vars PROVE Backed'
    OBVIOUS
  <1>0. \A i \in Index : entries[i] # NoEntry => entries'[i] # NoEntry
    BY RowsStay
  <1> USE <1>0 DEF TypeInv, TypeOK, IssuanceShape, UpdateShape, Backed, UnheldIsClear, Ended
  <1>1. ASSUME NEW r \in Issuance, StartIssuance(r) PROVE Backed'
    BY <1>1, SMT DEF StartIssuance, Start
  <1>2. ASSUME NEW r \in Issuance, FindGiven(r) PROVE Backed'
    BY <1>2, SMT DEF FindGiven
  <1>3. ASSUME NEW r \in Issuance, FindNothing(r) PROVE Backed'
    BY <1>3, SMT DEF FindNothing
  <1>4. ASSUME NEW r \in Issuance, CheckGiven(r) PROVE Backed'
    BY <1>4, SMT DEF CheckGiven
  <1>5. ASSUME NEW r \in Issuance, DrawFree(r) PROVE Backed'
    BY <1>5, SMT DEF DrawFree, Available
  <1>6. ASSUME NEW r \in Issuance, DrawUsed(r) PROVE Backed'
    BY <1>6, SMT DEF DrawUsed, Exhausted
  <1>7. ASSUME NEW r \in Issuance, Upsert(r) \/ Answer(r) PROVE Backed'
    <2>1. CASE Upsert(r)
      <3>1. entries'[idx[r]] # NoEntry
        BY <2>1, UpsertWrites, SMT DEF Entry, NoEntry
      <3> QED
        BY <2>1, <3>1, UpsertWrites, SMT
    <2>2. CASE Answer(r)
      BY <2>2, SMT DEF Answer
    <2> QED
      BY <1>7, <2>1, <2>2
  <1>8. ASSUME NEW u \in Update, StartUpdate(u) PROVE Backed'
    BY <1>8, SMT DEF StartUpdate, Start
  <1>9. ASSUME NEW u \in Update, Lookup(u) PROVE Backed'
    <2>1. entries' = entries /\ snap' = snap /\ bits' = bits
      BY <1>9 DEF Lookup
    <2>2. pc'[u] \in {"read", "failed"} /\ \A q \in Request \ {u} : pc'[q] = pc[q] /\ idx'[q] = idx[q]
      BY <1>9 DEF Lookup
    <2>3. pc'[u] = "read" => idx'[u] \in RowsOf(cred[u])
      <3> SUFFICES ASSUME pc'[u] = "read" PROVE idx'[u] \in RowsOf(cred[u])
        OBVIOUS
      <3>1. PICK i \in RowsOf(cred[u]) : idx' = [idx EXCEPT ![u] = i]
        BY <1>9 DEF Lookup
      <3> QED
        BY <3>1
    <2>4. pc'[u] = "read" => entries'[idx'[u]] # NoEntry
      BY <2>1, <2>3 DEF RowsOf
    <2>5. \A r \in Issuance : pc'[r] \in {"answer", "done"} => entries'[idx'[r]] # NoEntry
      BY <2>1, <2>2
    <2>6. \A q \in Update : pc'[q] \in {"read", "item", "publish"} => entries'[idx'[q]] # NoEntry
      BY <2>1, <2>2, <2>4
    <2> QED
      BY <2>1, <2>5, <2>6
  <1>10. ASSUME NEW u \in Update, ReadList(u) PROVE Backed'
    BY <1>10, SMT DEF ReadList
  <1>11. ASSUME NEW u \in Update, RefuseItem(u) PROVE Backed'
    BY <1>11, SMT DEF RefuseItem
  <1>12. ASSUME NEW u \in Update, WriteEntry(u) PROVE Backed'
    BY <1>12, SMT DEF WriteEntry
  <1>13. ASSUME NEW u \in Update, Publish(u) PROVE Backed'
    BY <1>13, SMT DEF Publish, NewBits
  <1>14. ASSUME Crash PROVE Backed'
    BY <1>14, SMT DEF Crash, InFlight, Clear
  <1>15. CASE UNCHANGED vars
    BY <1>15 DEF vars
  <1> QED
    BY <1>1, <1>2, <1>3, <1>4, <1>5, <1>6, <1>7, <1>8, <1>9, <1>10, <1>11,
       <1>12, <1>13, <1>14, <1>15
       DEF Next, IssuanceStep, UpdateStep

LEMMA BackedAlways == Spec => [](TypeInv /\ Backed)
  <1>1. Init => Backed
    BY SMT DEF Init, Backed, UnheldIsClear, Clear
  <1> QED
    BY <1>1, TypeInit, TypeStep, BackedStep, PTL DEF Spec

(* A position nobody was given reads as clear: whatever updates overlap,   *)
(* api-functions.ts never publishes a set bit without a row to explain it. *)
THEOREM UnheldClear == Spec => []UnheldIsClear
  <1>1. Backed => UnheldIsClear
    BY DEF Backed
  <1> QED
    BY <1>1, BackedAlways, PTL
-----------------------------------------------------------------------------
(* What a step leaves alone: the requests that are over, and the position  *)
(* an issuance has settled on.                                             *)
LEMMA Frame ==
    ASSUME TypeInv, [Next]_vars
    PROVE  /\ \A q \in Request : pc[q] \in Ended =>
                pc'[q] = pc[q] /\ idx'[q] = idx[q] /\ cred'[q] = cred[q] /\ prior'[q] = prior[q]
           /\ \A s \in Issuance : pc[s] \in {"upsert", "answer"} =>
                /\ pc'[s] \in {"upsert", "answer", "done", "crashed"}
                /\ idx'[s] = idx[s] /\ cred'[s] = cred[s] /\ prior'[s] = prior[s]
  <1> DEFINE P == /\ \A q \in Request : pc[q] \in Ended =>
                       pc'[q] = pc[q] /\ idx'[q] = idx[q] /\ cred'[q] = cred[q] /\ prior'[q] = prior[q]
                  /\ \A s \in Issuance : pc[s] \in {"upsert", "answer"} =>
                       /\ pc'[s] \in {"upsert", "answer", "done", "crashed"}
                       /\ idx'[s] = idx[s] /\ cred'[s] = cred[s] /\ prior'[s] = prior[s]
  <1> USE DEF TypeInv, TypeOK, Ended
  <1>1. ASSUME NEW r \in Issuance, StartIssuance(r) PROVE P
    BY <1>1 DEF StartIssuance, Start
  <1>2. ASSUME NEW r \in Issuance, FindGiven(r) \/ FindNothing(r) PROVE P
    BY <1>2 DEF FindGiven, FindNothing
  <1>3. ASSUME NEW r \in Issuance, CheckGiven(r) PROVE P
    BY <1>3 DEF CheckGiven
  <1>4. ASSUME NEW r \in Issuance, DrawFree(r) PROVE P
    BY <1>4 DEF DrawFree
  <1>5. ASSUME NEW r \in Issuance, DrawUsed(r) PROVE P
    BY <1>5 DEF DrawUsed
  <1>6. ASSUME NEW r \in Issuance, Upsert(r) \/ Answer(r) PROVE P
    BY <1>6 DEF Upsert, Answer
  <1>7. ASSUME NEW u \in Update, StartUpdate(u) PROVE P
    BY <1>7 DEF StartUpdate, Start
  <1>8. ASSUME NEW u \in Update, Lookup(u) PROVE P
    BY <1>8 DEF Lookup
  <1>9. ASSUME NEW u \in Update, ReadList(u) \/ RefuseItem(u) \/ WriteEntry(u) \/ Publish(u)
        PROVE P
    BY <1>9 DEF ReadList, RefuseItem, WriteEntry, Publish
  <1>10. ASSUME Crash PROVE P
    BY <1>10 DEF Crash, InFlight
  <1>11. CASE UNCHANGED vars
    BY <1>11 DEF vars
  <1>12. P
    BY <1>1, <1>2, <1>3, <1>4, <1>5, <1>6, <1>7, <1>8, <1>9, <1>10, <1>11
       DEF Next, IssuanceStep, UpdateStep
  <1> QED
    BY <1>12

(* Only a draw makes a position a drawn one, and only a start fills prior. *)
LEMMA HistoryFrame ==
    ASSUME TypeInv, [Next]_vars
    PROVE  /\ \A s \in Issuance : drawn'[s] => drawn[s] \/ DrawFree(s)
           /\ \A q \in Request :
                prior'[q] = prior[q] \/ prior'[q] = {p \in Request : pc[p] \in Ended}
  <1> DEFINE P == /\ \A s \in Issuance : drawn'[s] => drawn[s] \/ DrawFree(s)
                  /\ \A q \in Request :
                       prior'[q] = prior[q] \/ prior'[q] = {p \in Request : pc[p] \in Ended}
  <1> USE DEF TypeInv, TypeOK
  <1>1. ASSUME NEW r \in Issuance, StartIssuance(r) PROVE P
    BY <1>1 DEF StartIssuance, Start
  <1>2. ASSUME NEW u \in Update, StartUpdate(u) PROVE P
    BY <1>2 DEF StartUpdate, Start
  <1>3. ASSUME NEW r \in Issuance, DrawFree(r) PROVE P
    <2>1. prior' = prior /\ \A s \in Issuance \ {r} : drawn'[s] = drawn[s]
      BY <1>3 DEF DrawFree
    <2> QED
      BY <1>3, <2>1
  <1>4. CASE UNCHANGED <<drawn, prior>>
    BY <1>4
  <1>5. P
    BY <1>1, <1>2, <1>3, <1>4
       DEF Next, IssuanceStep, UpdateStep, FindGiven, FindNothing, CheckGiven, DrawUsed,
           Upsert, Answer, Lookup, ReadList, RefuseItem, WriteEntry, Publish, Crash, vars
  <1> QED
    BY <1>5

PriorEnded == \A q \in Request : \A p \in prior[q] : pc[p] \in Ended

LEMMA PriorEndedStep == TypeInv /\ PriorEnded /\ [Next]_vars => PriorEnded'
  <1> SUFFICES ASSUME TypeInv, PriorEnded, [Next]_vars,
                      NEW q \in Request, NEW p \in prior'[q]
               PROVE  pc'[p] \in Ended
    BY DEF PriorEnded
  <1>1. p \in Request /\ pc[p] \in Ended
    <2>1. CASE prior'[q] = prior[q]
      BY <2>1 DEF PriorEnded, TypeInv, TypeOK
    <2>2. CASE prior'[q] = {x \in Request : pc[x] \in Ended}
      BY <2>2
    <2> QED
      BY <2>1, <2>2, HistoryFrame
  <1> QED
    BY <1>1, Frame

LEMMA FreshStep ==
    TypeInv /\ Backed /\ PriorEnded /\ FreshIndexIsFresh /\ [Next]_vars => FreshIndexIsFresh'
  <1> SUFFICES ASSUME TypeInv, Backed, PriorEnded, FreshIndexIsFresh, [Next]_vars,
                      NEW s \in Issuance, drawn'[s], pc'[s] \in {"upsert", "answer", "done"},
                      NEW r \in prior'[s] \cap Issuance, pc'[r] = "done"
               PROVE  idx'[r] # idx'[s]
    BY DEF FreshIndexIsFresh
  <1>1. CASE DrawFree(s)
    <2>1. r \in prior[s]
      BY <1>1 DEF DrawFree
    <2>2. pc[r] = "done" /\ idx'[r] = idx[r]
      BY <2>1, Frame DEF PriorEnded
    <2>3. entries[idx[r]] # NoEntry /\ idx[r] \in Index
      BY <2>2 DEF Backed, TypeInv, IssuanceShape
    <2>4. idx'[s] \in Available
      BY <1>1 DEF DrawFree, TypeInv, TypeOK
    <2> QED
      BY <2>2, <2>3, <2>4 DEF Available, Used
  <1>2. CASE ~DrawFree(s)
    <2>1. drawn[s]
      BY <1>2, HistoryFrame
    <2>2. pc[s] \in Ended \cup {"upsert", "answer"}
      BY <2>1 DEF TypeInv, IssuanceShape
    <2>3. /\ idx'[s] = idx[s] /\ prior'[s] = prior[s]
          /\ pc[s] \in {"upsert", "answer", "done"}
      BY <2>2, Frame DEF Ended
    <2>4. pc[r] = "done" /\ idx'[r] = idx[r]
      BY <2>3, Frame DEF PriorEnded
    <2> QED
      BY <2>1, <2>3, <2>4 DEF FreshIndexIsFresh
  <1> QED
    BY <1>1, <1>2

(* A drawn position differs from every position given out before, however  *)
(* many requests overlap (drivers.ts getRandomNewStatusListIndex).         *)
THEOREM FreshIndex == Spec => []FreshIndexIsFresh
  <1>1. Init => PriorEnded /\ FreshIndexIsFresh
    BY DEF Init, PriorEnded, FreshIndexIsFresh
  <1>2. Spec => [](TypeInv /\ Backed /\ PriorEnded /\ FreshIndexIsFresh)
    BY <1>1, BackedAlways, PriorEndedStep, FreshStep, PTL DEF Spec
  <1> QED
    BY <1>2, PTL
-----------------------------------------------------------------------------
(* With one issuance in flight at a time, the row a handler has found stays*)
(* its credential's own until the handler has written it.                  *)
OneIssuance == \A r, s \in Issuance \cap InFlight : r = s

Owned ==
    /\ \A r \in Issuance :
        /\ pc[r] \in {"answer", "done"} => entries[idx[r]].cred = cred[r]
        /\ pc[r] = "upsert" => Reusable(r)
    /\ \A u \in Update :
        pc[u] \in {"read", "item", "publish"} => entries[idx[u]].cred = cred[u]

LEMMA OneIssuanceStep ==
    ASSUME Isolation # "none"
    PROVE  TypeInv /\ OneIssuance /\ [Next]_vars => OneIssuance'
  <1> SUFFICES ASSUME TypeInv, OneIssuance, [Next]_vars PROVE OneIssuance'
    OBVIOUS
  <1> DEFINE Same == \A r \in Issuance : r \in InFlight' => r \in InFlight
  <1> USE DEF TypeInv, TypeOK, OneIssuance, InFlight, Ended
  <1>1. ASSUME NEW r \in Issuance, StartIssuance(r) PROVE OneIssuance'
    BY <1>1 DEF StartIssuance, Start, MayStart
  <1>2. ASSUME NEW u \in Update, StartUpdate(u) PROVE Same
    BY <1>2 DEF StartUpdate, Start
  <1>3. ASSUME NEW r \in Issuance, IssuanceStep(r) PROVE Same
    BY <1>3 DEF IssuanceStep, FindGiven, FindNothing, CheckGiven, DrawFree, DrawUsed, Upsert, Answer
  <1>4. ASSUME NEW u \in Update, UpdateStep(u) PROVE Same
    BY <1>4 DEF UpdateStep, Lookup, ReadList, RefuseItem, WriteEntry, Publish
  <1>5. ASSUME Crash PROVE Same
    BY <1>5 DEF Crash
  <1>6. CASE UNCHANGED vars
    BY <1>6 DEF vars
  <1>7. Same => OneIssuance'
    OBVIOUS
  <1> QED
    BY <1>1, <1>2, <1>3, <1>4, <1>5, <1>6, <1>7 DEF Next

LEMMA OwnedStep == TypeInv /\ OneIssuance /\ Backed /\ Owned /\ [Next]_vars => Owned'
  <1> SUFFICES ASSUME TypeInv, OneIssuance, Backed, Owned, [Next]_vars PROVE Owned'
    OBVIOUS
  <1> USE DEF TypeInv, TypeOK, IssuanceShape, UpdateShape, Owned, Reusable, Ended
  <1>1. ASSUME NEW r \in Issuance, StartIssuance(r) PROVE Owned'
    BY <1>1, SMT DEF StartIssuance, Start
  <1>2. ASSUME NEW r \in Issuance, FindGiven(r) PROVE Owned'
    BY <1>2, SMT DEF FindGiven
  <1>3. ASSUME NEW r \in Issuance, FindNothing(r) PROVE Owned'
    BY <1>3, SMT DEF FindNothing
  <1>4. ASSUME NEW r \in Issuance, CheckGiven(r) PROVE Owned'
    BY <1>4, SMT DEF CheckGiven
  <1>5. ASSUME NEW r \in Issuance, DrawFree(r) PROVE Owned'
    <2>1. PICK i \in Available : idx' = [idx EXCEPT ![r] = i]
      BY <1>5 DEF DrawFree
    <2>2. i \in Index /\ entries[i].cred = NoCredential
      BY <2>1 DEF Available, Used, NoEntry
    <2>3. pc' = [pc EXCEPT ![r] = "upsert"] /\ entries' = entries /\ cred' = cred
      BY <1>5 DEF DrawFree
    <2> QED
      BY <2>1, <2>2, <2>3, SMT
  <1>6. ASSUME NEW r \in Issuance, DrawUsed(r) PROVE Owned'
    BY <1>6, SMT DEF DrawUsed
  <1>7. ASSUME NEW r \in Issuance, Upsert(r) PROVE Owned'
    <2>1. /\ pc[r] = "upsert" /\ idx[r] \in Index /\ cred[r] \in Credential
          /\ pc' = [pc EXCEPT ![r] = "answer"] /\ cred' = cred /\ idx' = idx
          /\ entries'[idx[r]].cred = cred[r]
      BY <1>7, UpsertWrites
    <2>2. \A i \in Index \ {idx[r]} : entries'[i] = entries[i]
      BY <1>7, UpsertWrites
    <2>3. entries[idx[r]].cred \in {NoCredential, cred[r]}
      BY <2>1
    <2>4. ASSUME NEW s \in Issuance, pc[s] \in {"answer", "done"} PROVE entries'[idx[s]].cred = cred[s]
      <3>1. entries[idx[s]].cred = cred[s] /\ idx[s] \in Index /\ cred[s] \in Credential
        BY <2>4
      <3>2. CASE idx[s] = idx[r]
        <4>1. cred[s] = cred[r]
          BY <2>3, <3>1, <3>2
        <4> QED
          BY <2>1, <3>2, <4>1
      <3>3. CASE idx[s] # idx[r]
        BY <2>2, <3>1, <3>3
      <3> QED
        BY <3>2, <3>3
    <2>5. \A s \in Issuance : pc'[s] # "upsert"
      <3> SUFFICES ASSUME NEW s \in Issuance, pc'[s] = "upsert" PROVE FALSE
        OBVIOUS
      <3>1. s # r /\ pc[s] = "upsert"
        BY <2>1
      <3>2. {r, s} \subseteq Issuance \cap InFlight
        BY <2>1, <3>1 DEF InFlight
      <3> QED
        BY <3>1, <3>2 DEF OneIssuance
    <2>6. ASSUME NEW u \in Update, pc[u] \in {"read", "item", "publish"} PROVE entries'[idx[u]].cred = cred[u]
      <3>1. entries[idx[u]].cred = cred[u] /\ idx[u] \in Index /\ cred[u] \in Credential
        BY <2>6
      <3>2. CASE idx[u] = idx[r]
        <4>1. cred[u] = cred[r]
          BY <2>3, <3>1, <3>2
        <4> QED
          BY <2>1, <3>2, <4>1
      <3>3. CASE idx[u] # idx[r]
        BY <2>2, <3>1, <3>3
      <3> QED
        BY <3>2, <3>3
    <2> QED
      BY <2>1, <2>4, <2>5, <2>6, SMT
  <1>8. ASSUME NEW u \in Update, StartUpdate(u) PROVE Owned'
    BY <1>8, SMT DEF StartUpdate, Start
  <1>9. ASSUME NEW u \in Update, Lookup(u) PROVE Owned'
    <2>1. CASE RowsOf(cred[u]) = {} /\ pc' = [pc EXCEPT ![u] = "failed"] /\ UNCHANGED idx
      BY <1>9, <2>1, SMT DEF Lookup
    <2>2. ASSUME NEW i \in RowsOf(cred[u]), idx' = [idx EXCEPT ![u] = i],
                 pc' = [pc EXCEPT ![u] = "read"]
          PROVE  Owned'
      <3>1. i \in Index /\ entries[i].cred = cred[u]
        BY DEF RowsOf
      <3> QED
        BY <1>9, <2>2, <3>1, SMT DEF Lookup
    <2> QED
      BY <1>9, <2>1, <2>2 DEF Lookup
  <1>10. ASSUME NEW u \in Update, ReadList(u) PROVE Owned'
    BY <1>10, SMT DEF ReadList
  <1>11. ASSUME NEW u \in Update, RefuseItem(u) PROVE Owned'
    BY <1>11, SMT DEF RefuseItem
  <1>12. ASSUME NEW u \in Update, WriteEntry(u) PROVE Owned'
    <2>1. \A i \in Index : entries'[i].cred = entries[i].cred
      BY <1>12, SMT DEF WriteEntry
    <2> QED
      BY <1>12, <2>1, SMT DEF WriteEntry
  <1>13. ASSUME NEW u \in Update, Publish(u) PROVE Owned'
    BY <1>13, SMT DEF Publish
  <1>14. ASSUME Crash PROVE Owned'
    BY <1>14, SMT DEF Crash, InFlight
  <1>15. CASE UNCHANGED vars
    BY <1>15 DEF vars
  <1>16. ASSUME NEW r \in Issuance, Answer(r) PROVE Owned'
    BY <1>16, SMT DEF Answer
  <1> QED
    BY <1>1, <1>2, <1>3, <1>4, <1>5, <1>6, <1>7, <1>8, <1>9, <1>10, <1>11,
       <1>12, <1>13, <1>14, <1>15, <1>16
       DEF Next, IssuanceStep, UpdateStep

LEMMA OwnedAlways ==
    ASSUME Isolation # "none"
    PROVE  Spec => [](TypeInv /\ OneIssuance /\ Backed /\ Owned)
  <1>1. Init => OneIssuance /\ Owned
    BY DEF Init, OneIssuance, Owned, InFlight
  <1> QED
    BY <1>1, BackedAlways, OneIssuanceStep, OwnedStep, PTL DEF Spec

(* If the issuer takes issuances one at a time, no two credentials ever    *)
(* share a position, whatever the updates do meanwhile and wherever the    *)
(* process dies: the check in handleCredentialStatus is enough then.       *)
THEOREM IssuancesInTurnAreExclusive ==
    ASSUME Isolation # "none"
    PROVE  Spec => []ExclusiveIndex
  <1>1. Owned => ExclusiveIndex
    BY DEF Owned, ExclusiveIndex
  <1> QED
    BY <1>1, OwnedAlways, PTL
-----------------------------------------------------------------------------
(* One request at a time, the implementation refines StatusRegistry: the   *)
(* holder of a position is the credential in its row.                      *)
Serial == \A p, q \in InFlight : p = q

\* The bitstring an update works on differs from the list in its own bit only.
Current ==
    \A u \in Update : pc[u] \in {"item", "publish"} =>
        \A i \in Index \ {idx[u]} : snap[u][i] = bits[i]

LEMMA SerialStep ==
    ASSUME Isolation = "serial"
    PROVE  TypeInv /\ Serial /\ [Next]_vars => Serial'
  <1> SUFFICES ASSUME TypeInv, Serial, [Next]_vars PROVE Serial'
    OBVIOUS
  <1> USE DEF TypeInv, TypeOK, Serial, InFlight, Ended
  <1>1. ASSUME NEW r \in Issuance, StartIssuance(r) PROVE Serial'
    BY <1>1 DEF StartIssuance, Start, MayStart
  <1>2. ASSUME NEW u \in Update, StartUpdate(u) PROVE Serial'
    BY <1>2 DEF StartUpdate, Start, MayStart
  <1>3. ASSUME NEW r \in Issuance, IssuanceStep(r) PROVE InFlight' \subseteq InFlight
    BY <1>3 DEF IssuanceStep, FindGiven, FindNothing, CheckGiven, DrawFree, DrawUsed, Upsert, Answer
  <1>4. ASSUME NEW u \in Update, UpdateStep(u) PROVE InFlight' \subseteq InFlight
    BY <1>4 DEF UpdateStep, Lookup, ReadList, RefuseItem, WriteEntry, Publish
  <1>5. ASSUME Crash PROVE InFlight' \subseteq InFlight
    BY <1>5 DEF Crash
  <1>6. CASE UNCHANGED vars
    BY <1>6 DEF vars
  <1>7. InFlight' \subseteq InFlight => Serial'
    OBVIOUS
  <1> QED
    BY <1>1, <1>2, <1>3, <1>4, <1>5, <1>6, <1>7 DEF Next

LEMMA CurrentStep == TypeInv /\ Serial /\ Current /\ [Next]_vars => Current'
  <1> SUFFICES ASSUME TypeInv, Serial, Current, [Next]_vars,
                      NEW u \in Update, pc'[u] \in {"item", "publish"}
               PROVE  \A i \in Index \ {idx'[u]} : snap'[u][i] = bits'[i]
    BY DEF Current
  <1> USE DEF TypeInv, TypeOK, IssuanceShape, UpdateShape, Ended
  <1>1. CASE ReadList(u)
    BY <1>1 DEF ReadList
  <1>2. CASE WriteEntry(u)
    BY <1>2 DEF WriteEntry, Current
  <1>3. CASE Publish(u)
    <2>1. idx' = idx /\ snap' = snap /\ idx[u] \in Index /\ snap[u] \in [Index -> BOOLEAN]
      BY <1>3 DEF Publish
    <2>2. \A i \in Index \ {idx[u]} : bits'[i] = snap[u][i]
      BY <1>3, <2>1 DEF Publish, NewBits
    <2> QED
      BY <2>1, <2>2
  <1>4. ASSUME NEW r \in Issuance, StartIssuance(r)
        PROVE  UNCHANGED <<bits, snap>> /\ r # u /\ pc'[u] = pc[u] /\ idx'[u] = idx[u]
    BY <1>4 DEF StartIssuance, Start
  <1>5. ASSUME NEW r \in Issuance, IssuanceStep(r)
        PROVE  UNCHANGED <<bits, snap>> /\ pc'[u] = pc[u] /\ idx'[u] = idx[u]
    BY <1>5 DEF IssuanceStep, FindGiven, FindNothing, CheckGiven, DrawFree, DrawUsed, Upsert, Answer
  <1>6. ASSUME NEW v \in Update, StartUpdate(v)
        PROVE  UNCHANGED <<bits, snap>> /\ pc'[u] = pc[u] /\ idx'[u] = idx[u]
    BY <1>6 DEF StartUpdate, Start
  <1>7. ASSUME NEW v \in Update, Lookup(v) \/ RefuseItem(v)
        PROVE  /\ UNCHANGED <<bits, snap>> /\ pc'[u] = pc[u] /\ idx'[u] = idx[u]
    BY <1>7 DEF Lookup, RefuseItem
  <1>8. ASSUME NEW v \in Update \ {u}, ReadList(v) \/ WriteEntry(v) \/ Publish(v) PROVE FALSE
    <2>1. pc[v] \in {"read", "item", "publish"} /\ pc'[u] = pc[u]
      BY <1>8 DEF ReadList, WriteEntry, Publish
    <2>2. {u, v} \subseteq InFlight
      BY <2>1 DEF InFlight
    <2> QED
      BY <1>8, <2>2 DEF Serial
  <1>9. ASSUME Crash PROVE FALSE
    BY <1>9 DEF Crash, InFlight
  <1>10. CASE UNCHANGED vars
    BY <1>10 DEF vars, Current
  <1>11. (UNCHANGED <<bits, snap>> /\ pc'[u] = pc[u] /\ idx'[u] = idx[u])
            => \A i \in Index \ {idx'[u]} : snap'[u][i] = bits'[i]
    <2> SUFFICES ASSUME UNCHANGED <<bits, snap>>, pc'[u] = pc[u], idx'[u] = idx[u]
                 PROVE  \A i \in Index \ {idx'[u]} : snap'[u][i] = bits'[i]
      OBVIOUS
    <2>1. \A i \in Index \ {idx[u]} : snap[u][i] = bits[i]
      BY DEF Current
    <2> QED
      BY <2>1
  <1> QED
    BY <1>1, <1>2, <1>3, <1>4, <1>5, <1>6, <1>7, <1>8, <1>9, <1>10, <1>11
       DEF Next, UpdateStep

LEMMA RegistryStep ==
    TypeInv /\ Owned /\ Backed /\ Current /\ [Next]_vars => [Registry!Next]_(Registry!vars)
  <1> SUFFICES ASSUME TypeInv, Owned, Backed, Current, [Next]_vars
               PROVE  [Registry!Next]_(Registry!vars)
    OBVIOUS
  <1> DEFINE holder == [i \in Index |-> entries[i].cred]
  <1> USE DEF TypeInv, TypeOK, IssuanceShape, UpdateShape
  <1>1. ASSUME NEW r \in Issuance, Upsert(r) PROVE [Registry!Next]_(Registry!vars)
    <2>1. /\ idx[r] \in Index /\ cred[r] \in Credential /\ bits' = bits
          /\ \A i \in Index \ {idx[r]} : entries'[i] = entries[i]
      BY <1>1, UpsertWrites
    <2>3. entries'[idx[r]].cred = cred[r]
      BY <1>1, UpsertWrites
    <2>4. holder' = [holder EXCEPT ![idx[r]] = cred[r]]
      BY <2>1, <2>3
    <2>5. entries[idx[r]].cred \in {NoCredential, cred[r]}
      BY <1>1 DEF Upsert, Owned, Reusable
    <2>6. CASE entries[idx[r]].cred = cred[r]
      BY <2>1, <2>4, <2>6 DEF Registry!vars
    <2>7. CASE entries[idx[r]].cred = NoCredential
      <3>1. PICK i \in Index, c \in Credential : i = idx[r] /\ c = cred[r]
        BY <2>1
      <3>2. Registry!Assign(c, i)
        BY <2>1, <2>4, <2>7, <3>1 DEF Registry!Assign, Registry!Index
      <3>3. Registry!Next
        BY <3>2 DEF Registry!Next, Registry!Index
      <3> QED
        BY <3>3
    <2> QED
      BY <2>5, <2>6, <2>7
  <1>2. ASSUME NEW u \in Update, WriteEntry(u) PROVE [Registry!Next]_(Registry!vars)
    <2>1. bits' = bits /\ \A i \in Index : entries'[i].cred = entries[i].cred
      BY <1>2, SMT DEF WriteEntry, Owned
    <2> QED
      BY <2>1 DEF Registry!vars
  <1>3. ASSUME NEW u \in Update, Publish(u) PROVE [Registry!Next]_(Registry!vars)
    <2>1. /\ idx[u] \in Index /\ entries' = entries
          /\ bits' = [snap[u] EXCEPT ![idx[u]] = (Head(todo[u]) = "set")]
      BY <1>3 DEF Publish, NewBits
    <2>2. bits' = [bits EXCEPT ![idx[u]] = (Head(todo[u]) = "set")]
      BY <1>3, <2>1 DEF Current, Publish
    <2>3. entries[idx[u]].cred \in Credential
      BY <1>3 DEF Publish, Owned
    <2>4. Registry!SetStatus(idx[u], Head(todo[u]) = "set")
      BY <2>1, <2>2, <2>3 DEF Registry!SetStatus, Registry!Index
    <2> QED
      BY <2>1, <2>4 DEF Registry!Next, Registry!Index
  <1>4. CASE UNCHANGED <<entries, bits>>
    BY <1>4 DEF Registry!vars
  <1> QED
    BY <1>1, <1>2, <1>3, <1>4
       DEF Next, IssuanceStep, UpdateStep, StartIssuance, FindGiven, FindNothing, CheckGiven,
           DrawFree, DrawUsed, Answer, StartUpdate, Lookup, ReadList, RefuseItem, Crash, vars

(* Served one request at a time, crashes included, the table and the list  *)
(* are a StatusRegistry: positions are given once and for good, and each   *)
(* publication changes one held bit.                                       *)
THEOREM SerialImplementsRegistry ==
    ASSUME Isolation = "serial"
    PROVE  Spec => ImplementsRegistry
  <1>1. Init => Registry!Init
    BY DEF Init, Registry!Init, NoEntry, Clear, Registry!Index
  <1>2. Init => Serial /\ Current
    BY DEF Init, Serial, Current, InFlight
  <1>3. Spec => [](TypeInv /\ OneIssuance /\ Backed /\ Owned)
    BY OwnedAlways
  <1>4. Spec => [](Serial /\ Current)
    BY <1>2, <1>3, SerialStep, CurrentStep, PTL DEF Spec
  <1> QED
    BY <1>1, <1>3, <1>4, RegistryStep, PTL DEF Spec, ImplementsRegistry, Registry!Spec
-----------------------------------------------------------------------------
(* Positions a credential has had. A credential with two rows has one at   *)
(* position 0, which the code takes for none; whoever is about to write a  *)
(* row knows the only other one there can be.                              *)
RowsAgree ==
    \A c \in Credential : \A i, j \in RowsOf(c) : i # j => 0 \in RowsOf(c)

RowKnown ==
    \A r \in Issuance :
        /\ pc[r] \in {"check", "upsert"} => 0 \in RowsOf(cred[r]) \/ RowsOf(cred[r]) \subseteq {idx[r]}
        /\ pc[r] = "draw" => 0 \in RowsOf(cred[r]) \/ RowsOf(cred[r]) = {}

ReissueInv == RowsAgree /\ RowKnown

\* Which credential a row is of changes only when an issuance writes it.
LEMMA RowsAre ==
    ASSUME TypeInv, Backed, Owned, [Next]_vars
    PROVE  \/ \E r \in Issuance : Upsert(r)
           \/ /\ \A i \in Index : entries'[i].cred = entries[i].cred
              /\ \A i \in Index : entries[i] # NoEntry <=> entries'[i] # NoEntry
  <1> USE DEF TypeInv, TypeOK, UpdateShape
  <1>1. ASSUME NEW u \in Update, WriteEntry(u)
        PROVE  /\ \A i \in Index : entries'[i].cred = entries[i].cred
               /\ \A i \in Index : entries[i] # NoEntry <=> entries'[i] # NoEntry
    <2>1. /\ idx[u] \in Index /\ entries[idx[u]] # NoEntry
          /\ entries[idx[u]].cred = cred[u] /\ cred[u] \in Credential
      BY <1>1 DEF WriteEntry, Backed, Owned
    <2>2. entries'[idx[u]].cred = cred[u] /\ entries'[idx[u]] # NoEntry
      BY <1>1, <2>1 DEF WriteEntry, NoEntry
    <2>3. \A i \in Index \ {idx[u]} : entries'[i] = entries[i]
      BY <1>1, <2>1 DEF WriteEntry
    <2> QED
      BY <2>1, <2>2, <2>3
  <1>2. CASE UNCHANGED entries
    BY <1>2
  <1> QED
    BY <1>1, <1>2
       DEF Next, IssuanceStep, UpdateStep, StartIssuance, FindGiven, FindNothing, CheckGiven,
           DrawFree, DrawUsed, Answer, StartUpdate, Lookup, ReadList, RefuseItem, Publish, Crash, vars

\* The row that an issuance writes is its credential's from then on.
LEMMA UpsertRows ==
    ASSUME TypeInv, Owned, NEW r \in Issuance, Upsert(r)
    PROVE  /\ idx[r] \in Index /\ cred[r] \in Credential
           /\ RowsOf(cred[r])' = RowsOf(cred[r]) \cup {idx[r]}
           /\ \A c \in Credential \ {cred[r]} : RowsOf(c)' = RowsOf(c)
           /\ \A i \in Index \ {idx[r]} : entries'[i] = entries[i]
           /\ entries'[idx[r]].cred = cred[r]
           /\ UNCHANGED <<cred, idx>> /\ pc' = [pc EXCEPT ![r] = "answer"]
  <1> USE DEF TypeInv, TypeOK, IssuanceShape
  <1>1. /\ pc[r] = "upsert" /\ idx[r] \in Index /\ cred[r] \in Credential
        /\ entries[idx[r]] \in Entry \cup {NoEntry} /\ entries[idx[r]].cred \in {NoCredential, cred[r]}
        /\ UNCHANGED <<cred, idx>> /\ pc' = [pc EXCEPT ![r] = "answer"]
        /\ \A i \in Index \ {idx[r]} : entries'[i] = entries[i]
    BY UpsertWrites DEF Owned, Reusable
  <1>2. entries'[idx[r]].cred = cred[r] /\ entries'[idx[r]] # NoEntry
    BY <1>1, UpsertWrites DEF NoEntry
  <1>3. \A i \in Index \ {idx[r]} : entries'[i] = entries[i]
    BY <1>1
  <1>4. RowsOf(cred[r])' = RowsOf(cred[r]) \cup {idx[r]}
    BY <1>1, <1>2, <1>3 DEF RowsOf
  <1>5. ASSUME NEW c \in Credential \ {cred[r]} PROVE RowsOf(c)' = RowsOf(c)
    <2>1. idx[r] \notin RowsOf(c)
      BY <1>1, <1>5 DEF RowsOf
    <2>2. idx[r] \notin RowsOf(c)'
      BY <1>2, <1>5 DEF RowsOf
    <2>3. \A i \in Index \ {idx[r]} : i \in RowsOf(c)' <=> i \in RowsOf(c)
      BY <1>3 DEF RowsOf
    <2>4. RowsOf(c) \subseteq Index /\ RowsOf(c)' \subseteq Index
      BY DEF RowsOf
    <2>5. \A i : i \in RowsOf(c)' <=> i \in RowsOf(c)
      BY <2>1, <2>2, <2>3, <2>4
    <2> QED
      BY <2>5, Zenon
  <1> QED
    BY <1>1, <1>2, <1>3, <1>4, <1>5

LEMMA ReissueStep ==
    TypeInv /\ TypeInv' /\ OneIssuance /\ Backed /\ Owned /\ ReissueInv /\ [Next]_vars => ReissueInv'
  <1> SUFFICES ASSUME TypeInv, TypeInv', OneIssuance, Backed, Owned, ReissueInv, [Next]_vars
               PROVE  ReissueInv'
    OBVIOUS
  <1>1. ASSUME NEW r \in Issuance, Upsert(r) PROVE ReissueInv'
    <2>1. RowKnown'
      <3>1. \A s \in Issuance : pc'[s] \notin {"check", "upsert", "draw"}
        <4> SUFFICES ASSUME NEW s \in Issuance, pc'[s] \in {"check", "upsert", "draw"} PROVE FALSE
          OBVIOUS
        <4>1. s # r /\ pc'[s] = pc[s] /\ pc[r] = "upsert"
          BY <1>1, UpsertRows DEF Upsert, TypeInv, TypeOK
        <4>2. {r, s} \subseteq Issuance \cap InFlight
          BY <4>1 DEF InFlight, Ended
        <4> QED
          BY <4>1, <4>2 DEF OneIssuance
      <3> QED
        BY <3>1 DEF RowKnown
    <2>2. RowsAgree'
      <3> SUFFICES ASSUME NEW c \in Credential, NEW i \in RowsOf(c)', NEW j \in RowsOf(c)', i # j
                   PROVE  0 \in RowsOf(c)'
        BY DEF RowsAgree
      <3>1. CASE c = cred[r]
        <4>1. 0 \in RowsOf(c) \/ RowsOf(c) \subseteq {idx[r]}
          BY <1>1, <3>1 DEF Upsert, ReissueInv, RowKnown
        <4> QED
          BY <1>1, <3>1, <4>1, UpsertRows
      <3>2. CASE c # cred[r]
        BY <1>1, <3>2, UpsertRows DEF ReissueInv, RowsAgree
      <3> QED
        BY <3>1, <3>2
    <2> QED
      BY <2>1, <2>2 DEF ReissueInv
  <1>2. ASSUME \A i \in Index : entries'[i].cred = entries[i].cred,
               \A i \in Index : entries[i] # NoEntry <=> entries'[i] # NoEntry
        PROVE  ReissueInv'
    <2>1. ASSUME NEW c PROVE RowsOf(c)' = RowsOf(c)
      BY <1>2 DEF RowsOf
    <2>2. RowsAgree'
      BY <2>1 DEF ReissueInv, RowsAgree
    <2>3. RowKnown'
      <3> USE <2>1 DEF RowKnown, ReissueInv, TypeInv, TypeOK, IssuanceShape, Ended
      <3>1. ASSUME NEW r \in Issuance, StartIssuance(r) PROVE RowKnown'
        BY <3>1 DEF StartIssuance, Start
      <3>2. ASSUME NEW r \in Issuance, FindGiven(r) PROVE RowKnown'
        <4>1. /\ pc' = [pc EXCEPT ![r] = "check"] /\ UNCHANGED cred /\ cred[r] \in Credential
              /\ \E i \in Index : idx' = [idx EXCEPT ![r] = i] /\ Wanted(r, i)
          BY <3>2 DEF FindGiven
        <4>2. 0 \in RowsOf(cred[r]) \/ RowsOf(cred[r]) \subseteq {idx'[r]}
          BY <4>1 DEF Wanted, RowsAgree
        <4> QED
          BY <4>1, <4>2
      <3>3. ASSUME NEW r \in Issuance, FindNothing(r) PROVE RowKnown'
        <4>1. 0 \in RowsOf(cred[r]) \/ RowsOf(cred[r]) = {}
          <5>1. NoIndex \notin RowsOf(cred[r])
            BY DEF RowsOf
          <5> QED
            BY <3>3, <5>1 DEF FindNothing, Wanted
        <4> QED
          BY <3>3, <4>1 DEF FindNothing
      <3>4. ASSUME NEW r \in Issuance, CheckGiven(r) PROVE RowKnown'
        BY <3>4 DEF CheckGiven
      <3>5. ASSUME NEW r \in Issuance, DrawFree(r) PROVE RowKnown'
        BY <3>5 DEF DrawFree, Available
      <3>6. ASSUME NEW r \in Issuance, DrawUsed(r) PROVE RowKnown'
        BY <3>6 DEF DrawUsed
      <3>7. ASSUME NEW u \in Update, StartUpdate(u) \/ UpdateStep(u) PROVE RowKnown'
        <4>1. \A r \in Issuance : pc'[r] = pc[r] /\ idx'[r] = idx[r] /\ cred'[r] = cred[r]
          BY <3>7 DEF StartUpdate, Start, UpdateStep, Lookup, ReadList, RefuseItem, WriteEntry, Publish
        <4> QED
          BY <4>1
      <3>8. ASSUME Crash PROVE RowKnown'
        BY <3>8 DEF Crash, InFlight
      <3>9. CASE UNCHANGED vars
        BY <3>9 DEF vars
      <3>10. ASSUME NEW r \in Issuance, Upsert(r) PROVE RowKnown'
        BY <1>1, <3>10
      <3>11. ASSUME NEW r \in Issuance, Answer(r) PROVE RowKnown'
        BY <3>11 DEF Answer
      <3> QED
        BY <3>1, <3>2, <3>3, <3>4, <3>5, <3>6, <3>7, <3>8, <3>9, <3>10, <3>11 DEF Next, IssuanceStep
    <2> QED
      BY <2>2, <2>3 DEF ReissueInv
  <1> QED
    BY <1>1, <1>2, RowsAre

(* If the issuer takes issuances one at a time, a credential that is       *)
(* issued again keeps its position, whatever the updates do meanwhile,     *)
(* unless one of its positions is 0 (handleCredentialStatus, which takes a *)
(* stored 0 for none), and wherever an issuance of it died.                *)
THEOREM ReissuesKeepTheirIndex ==
    ASSUME Isolation # "none"
    PROVE  Spec => []ReissueKeepsIndex
  <1>1. Init => ReissueInv
    BY DEF Init, ReissueInv, RowsAgree, RowKnown, RowsOf
  <1>2. TypeInv /\ Backed /\ Owned /\ ReissueInv => ReissueKeepsIndex
    <2> SUFFICES ASSUME TypeInv, Backed, Owned, ReissueInv, NEW r \in Issuance, NEW s \in Issuance,
                        pc[r] = "done", pc[s] = "done", cred[r] = cred[s], idx[r] # idx[s]
                 PROVE  entries[0].cred = cred[r]
      BY DEF ReissueKeepsIndex
    <2>1. cred[r] \in Credential /\ idx[r] \in RowsOf(cred[r]) /\ idx[s] \in RowsOf(cred[r])
      BY DEF TypeInv, IssuanceShape, Backed, Owned, RowsOf
    <2>2. 0 \in RowsOf(cred[r])
      BY <2>1 DEF ReissueInv, RowsAgree
    <2> QED
      BY <2>2 DEF RowsOf
  <1> QED
    BY <1>1, <1>2, OwnedAlways, ReissueStep, PTL DEF Spec
-----------------------------------------------------------------------------
(* What an update publishes. Between the row and the list it works alone,  *)
(* so that the bit it publishes is the status it wrote; and an update has  *)
(* no position before its lookup, so that one which finds a position may   *)
(* be told from those that are over.                                       *)
Unplaced == \A u \in Update : pc[u] \in {"idle", "lookup"} => idx[u] = NoIndex

Written ==
    \A u \in Update :
        pc[u] = "publish" => entries[idx[u]].value = IF Head(todo[u]) = "set" THEN "1" ELSE "0"

Latest(u) == \A q \in Update \ {u} : idx[q] = idx[u] => q \in prior[u]
Shown(u) == bits[idx[u]] = (entries[idx[u]].value = "1")

LEMMA UnplacedStep == TypeInv /\ Unplaced /\ [Next]_vars => Unplaced'
  <1> SUFFICES ASSUME TypeInv, Unplaced, [Next]_vars PROVE Unplaced'
    OBVIOUS
  <1> USE DEF TypeInv, TypeOK, Unplaced, Ended
  <1>1. ASSUME NEW r \in Issuance, StartIssuance(r) \/ IssuanceStep(r)
        PROVE  \A u \in Update : pc'[u] = pc[u] /\ idx'[u] = idx[u]
    BY <1>1 DEF StartIssuance, Start, IssuanceStep, FindGiven, FindNothing, CheckGiven,
           DrawFree, DrawUsed, Upsert, Answer
  <1>2. ASSUME NEW v \in Update, StartUpdate(v) PROVE Unplaced'
    BY <1>2 DEF StartUpdate, Start
  <1>3. ASSUME NEW v \in Update, UpdateStep(v) PROVE Unplaced'
    <2>1. /\ pc'[v] \notin {"idle", "lookup"}
          /\ \A u \in Update \ {v} : pc'[u] = pc[u] /\ idx'[u] = idx[u]
      BY <1>3 DEF UpdateStep, Lookup, ReadList, RefuseItem, WriteEntry, Publish
    <2> QED
      BY <2>1
  <1>4. ASSUME Crash PROVE Unplaced'
    BY <1>4 DEF Crash, InFlight
  <1>5. CASE UNCHANGED vars
    BY <1>5 DEF vars
  <1> QED
    BY <1>1, <1>2, <1>3, <1>4, <1>5 DEF Next

\* While an update is about to publish, no other request changes its row.
LEMMA WrittenStep == TypeInv /\ Serial /\ Written /\ [Next]_vars => Written'
  <1> SUFFICES ASSUME TypeInv, Serial, Written, [Next]_vars, NEW u \in Update, pc'[u] = "publish"
               PROVE  entries'[idx'[u]].value = IF Head(todo'[u]) = "set" THEN "1" ELSE "0"
    BY DEF Written
  <1> USE DEF TypeInv, TypeOK, UpdateShape, Ended
  <1>1. ASSUME NEW r \in Issuance, StartIssuance(r)
        PROVE  UNCHANGED entries /\ pc'[u] = pc[u] /\ idx'[u] = idx[u] /\ todo'[u] = todo[u]
    BY <1>1 DEF StartIssuance, Start
  <1>2. ASSUME NEW v \in Update, StartUpdate(v)
        PROVE  UNCHANGED entries /\ pc'[u] = pc[u] /\ idx'[u] = idx[u] /\ todo'[u] = todo[u]
    BY <1>2 DEF StartUpdate, Start
  <1>3. ASSUME NEW r \in Request \ {u}, pc[r] \notin Ended \cup {"idle"}, pc'[u] = pc[u] PROVE FALSE
    <2>1. {r, u} \subseteq InFlight
      BY <1>3 DEF InFlight
    <2> QED
      BY <2>1, <1>3 DEF Serial
  <1>4. ASSUME NEW r \in Issuance, IssuanceStep(r) PROVE FALSE
    <2>1. pc[r] \notin Ended \cup {"idle"} /\ pc'[u] = pc[u] /\ r # u
      BY <1>4 DEF IssuanceStep, FindGiven, FindNothing, CheckGiven, DrawFree, DrawUsed, Upsert, Answer
    <2> QED
      BY <1>3, <2>1
  <1>5. ASSUME NEW v \in Update \ {u}, UpdateStep(v) PROVE FALSE
    <2>1. pc[v] \notin Ended \cup {"idle"} /\ pc'[u] = pc[u]
      BY <1>5 DEF UpdateStep, Lookup, ReadList, RefuseItem, WriteEntry, Publish
    <2> QED
      BY <1>3, <2>1
  <1>6. CASE UpdateStep(u)
    <2>1. WriteEntry(u)
      BY <1>6 DEF UpdateStep, Lookup, ReadList, RefuseItem, Publish
    <2>2. /\ idx[u] \in Index /\ UNCHANGED <<idx, todo>>
          /\ entries' = [entries EXCEPT ![idx[u]] = [cred |-> cred[u],
                                                     value |-> IF Head(todo[u]) = "set" THEN "1" ELSE "0"]]
      BY <2>1 DEF WriteEntry
    <2> QED
      BY <2>2
  <1>7. Crash => FALSE
    BY DEF Crash, InFlight
  <1>8. CASE UNCHANGED vars
    BY <1>8 DEF vars, Written
  <1> QED
    BY <1>1, <1>2, <1>4, <1>5, <1>6, <1>7, <1>8 DEF Next, Written

LEMMA PublishedStep ==
    TypeInv /\ PriorEnded /\ Current /\ Unplaced /\ Written /\ LastUpdateIsPublished /\ [Next]_vars
        => LastUpdateIsPublished'
  <1> SUFFICES ASSUME TypeInv, PriorEnded, Current, Unplaced, Written, LastUpdateIsPublished, [Next]_vars,
                      NEW u \in Update, pc'[u] = "done", Latest(u)', idx'[u] \notin stated'
               PROVE  Shown(u)'
    BY DEF LastUpdateIsPublished, Latest, Shown
  <1> USE DEF TypeInv, TypeOK, IssuanceShape, UpdateShape
  <1>1. CASE Publish(u)
    <2>1. /\ idx[u] \in Index /\ UNCHANGED <<entries, idx>> /\ pc[u] = "publish"
          /\ bits' = [snap[u] EXCEPT ![idx[u]] = (Head(todo[u]) = "set")]
      BY <1>1 DEF Publish, NewBits
    <2>2. bits'[idx[u]] = (Head(todo[u]) = "set")
      <3>1. snap[u] \in [Index -> BOOLEAN]
        OBVIOUS
      <3> QED
        BY <2>1, <3>1, Zenon
    <2> QED
      BY <2>1, <2>2 DEF Written, Shown
  <1>2. CASE ~Publish(u)
    <2>1. pc[u] = "done"
      <3>1. ASSUME NEW r \in Issuance, StartIssuance(r) \/ IssuanceStep(r) PROVE pc'[u] = pc[u]
        BY <3>1 DEF StartIssuance, Start, IssuanceStep, FindGiven, FindNothing, CheckGiven,
               DrawFree, DrawUsed, Upsert, Answer
      <3>2. ASSUME NEW v \in Update, StartUpdate(v) \/ (UpdateStep(v) /\ ~Publish(u)) PROVE pc[u] = "done"
        BY <3>2 DEF StartUpdate, Start, UpdateStep, Lookup, ReadList, RefuseItem, WriteEntry, Publish
      <3>3. Crash => pc'[u] = pc[u]
        BY DEF Crash
      <3> QED
        BY <1>2, <3>1, <3>2, <3>3 DEF Next, vars
    <2>2. idx'[u] = idx[u] /\ prior'[u] = prior[u] /\ idx[u] \in Index
      BY <2>1, Frame DEF Ended
    <2>3. ASSUME NEW q \in Update \ {u}, idx[q] = idx[u] PROVE q \in prior[u] /\ pc[q] \in Ended
      <3>1. pc[q] \notin {"idle", "lookup"}
        BY <2>2, <2>3 DEF Unplaced
      <3>2. idx'[q] = idx[q]
        <4>1. ASSUME NEW r \in Issuance, StartIssuance(r) \/ IssuanceStep(r) PROVE idx'[q] = idx[q]
          BY <4>1 DEF StartIssuance, IssuanceStep, FindGiven, FindNothing, CheckGiven,
                 DrawFree, DrawUsed, Upsert, Answer
        <4>2. ASSUME NEW v \in Update, StartUpdate(v) \/ UpdateStep(v) PROVE idx'[q] = idx[q]
          BY <3>1, <4>2 DEF StartUpdate, UpdateStep, Lookup, ReadList, RefuseItem, WriteEntry, Publish
        <4> QED
          BY <4>1, <4>2 DEF Next, Crash, vars
      <3> QED
        BY <2>2, <2>3, <3>2 DEF Latest, PriorEnded
    <2>4. Shown(u)
      <3>1. idx[u] \notin stated
        <4>1. ASSUME NEW v \in Update, WriteEntry(v) PROVE idx[v] # idx[u] /\ stated' = stated \ {idx[v]}
          BY <2>1, <2>3, <4>1 DEF WriteEntry, Ended
        <4>2. ASSUME NEW r \in Issuance, Upsert(r) PROVE stated \subseteq stated'
          BY <4>2, UpsertWrites
        <4>3. CASE UNCHANGED stated
          BY <2>2, <4>3
        <4> QED
          BY <2>2, <4>1, <4>2, <4>3
             DEF Next, IssuanceStep, UpdateStep, StartIssuance, FindGiven, FindNothing, CheckGiven,
                 DrawFree, DrawUsed, Answer, StartUpdate, Lookup, ReadList, RefuseItem, Publish,
                 Crash, vars
      <3> QED
        BY <2>1, <2>3, <3>1 DEF LastUpdateIsPublished, Shown
    <2>5. ASSUME NEW v \in Update, Publish(v) PROVE Shown(u)'
      <3>1. v # u /\ idx[v] # idx[u] /\ pc[v] = "publish"
        BY <1>2, <2>3, <2>5 DEF Publish, Ended
      <3>2. bits'[idx[u]] = bits[idx[u]]
        BY <2>2, <2>5, <3>1 DEF Publish, NewBits, Current
      <3> QED
        BY <2>2, <2>4, <2>5, <3>2 DEF Publish, Shown
    <2>6. ASSUME NEW v \in Update, WriteEntry(v) PROVE Shown(u)'
      <3>1. v # u /\ idx[v] # idx[u]
        BY <2>1, <2>3, <2>6 DEF WriteEntry, Ended
      <3>2. entries'[idx[u]] = entries[idx[u]]
        BY <2>2, <2>6, <3>1 DEF WriteEntry
      <3> QED
        BY <2>2, <2>4, <2>6, <3>2 DEF WriteEntry, Shown
    <2>7. ASSUME NEW r \in Issuance, Upsert(r) PROVE Shown(u)'
      <3>1. /\ bits' = bits /\ \A i \in Index \ {idx[r]} : entries'[i] = entries[i]
            /\ idx[r] \in stated' \/ entries'[idx[r]].value = entries[idx[r]].value
        BY <2>7, UpsertWrites
      <3>2. entries'[idx[u]].value = entries[idx[u]].value
        BY <2>2, <3>1
      <3> QED
        BY <2>2, <2>4, <3>1, <3>2 DEF Shown
    <2>8. CASE UNCHANGED <<entries, bits>>
      BY <2>2, <2>4, <2>8 DEF Shown
    <2> QED
      BY <2>5, <2>6, <2>7, <2>8
         DEF Next, IssuanceStep, UpdateStep, StartIssuance, FindGiven, FindNothing, CheckGiven,
             DrawFree, DrawUsed, Answer, StartUpdate, Lookup, ReadList, RefuseItem, Crash, vars
  <1> QED
    BY <1>1, <1>2

(* Served one request at a time, the list shows what the row says of the   *)
(* position of an update that is answered, once it is the last one there,  *)
(* whatever updates before it failed half way or died                      *)
(* (updateW3CStatusEndpoint: the row first, then the list).                *)
THEOREM LastUpdatesAreShown ==
    ASSUME Isolation = "serial"
    PROVE  Spec => []LastUpdateIsPublished
  <1>1. Init => PriorEnded /\ Serial /\ Current /\ Unplaced /\ Written /\ LastUpdateIsPublished
    BY DEF Init, PriorEnded, Serial, InFlight, Current, Unplaced, Written, LastUpdateIsPublished
  <1>2. Spec => [](Serial /\ Current /\ PriorEnded /\ Unplaced /\ TypeInv)
    BY <1>1, TypeInit, TypeStep, SerialStep, CurrentStep, PriorEndedStep, UnplacedStep, PTL DEF Spec
  <1>3. Spec => [](Written /\ LastUpdateIsPublished)
    BY <1>1, <1>2, WrittenStep, PublishedStep, PTL DEF Spec
  <1> QED
    BY <1>3, PTL
=============================================================================
