--------------------- MODULE DigitalCredentialStoreProofs ---------------------
(***************************************************************************)
(* Theorems about DigitalCredentialStore, for any documents, calls and     *)
(* number of rows. A removal carries from step to step what it has found:  *)
(* a chain from child to parent, whose end has no parent left. An update   *)
(* carries what it has read: the date that was right then.                 *)
(***************************************************************************)
EXTENDS DigitalCredentialStore, SequenceTheorems, FiniteSetTheorems, TLAPS

USE StoreAssumption

\* The type of the table, of the calls and of the histories.
TableType ==
    /\ rows \in Seq(Row) /\ present \subseteq Ids /\ revived \subseteq present
    /\ \A i \in Ids : rows[i].parent # None => rows[i].parent \in 1 .. (i - 1)
    /\ \A i, j \in present : rows[i].doc = rows[j].doc => i = j

Update == [id : Nat, kind : Kind, verifiedAt : Date, revokedAt : Date, seen : Nat]

CallType ==
    /\ at \in [Call -> {"idle", "save", "find", "delete", "done"}]
    /\ update \in [Call -> Update]
    /\ \A c \in Call : at[c] = "save" => update[c].id \in Ids
    /\ chain \in [Call -> Seq(Nat)]
    /\ \A c \in Call : \A k \in 1 .. Len(chain[c]) : chain[c][k] \in Ids
    /\ DOMAIN query = Call
    /\ robbed \subseteq Call

Saved == [by : Call \cup {Given}, kind : Kind, seen : Nat]

SavedType ==
    /\ saved \in Seq(Seq(Saved)) /\ Len(saved) = Len(rows)
    /\ \A c \in Call : at[c] = "save" => update[c].seen <= Len(saved[update[c].id])

TypeInv == TableType /\ CallType /\ SavedType

\* Nothing but a revived row is the parent of i.
Free(i) == rows[i].parent \in present => rows[i].parent \in revived

\* What is found for a removal leads up, and ends where there is no parent.
ClimbingAt(c) ==
    /\ at[c] \notin {"find", "delete"} => chain[c] = <<>>
    /\ \A k \in 1 .. Len(chain[c]) - 1 : rows[chain[c][k]].parent = chain[c][k + 1]
    /\ at[c] = "find" /\ chain[c] # <<>> => query[c] = rows[Last(chain[c])].parent
    /\ at[c] = "delete" => chain[c] # <<>> /\ Free(Last(chain[c]))

Climbing == \A c \in Call : ClimbingAt(c)

\* By the first n states saved, the date is that of the last revocation.
Standing(log, n, date) ==
    \A k \in 1 .. n :
        (/\ log[k].kind = "REVOKED"
         /\ \A j \in 1 .. n : j > k => log[j].kind # "REVOKED" /\ log[j].seen >= k)
        => date = log[k].by

\* So it is in the rows, and was in what an update has read.
Dated ==
    /\ \A i \in Ids : Standing(saved[i], Len(saved[i]), rows[i].revokedAt)
    /\ \A c \in Call : at[c] = "save" =>
          Standing(saved[update[c].id], update[c].seen, update[c].revokedAt)

IInv == TypeInv /\ Climbing /\ WholeTreesGo /\ Dated
-----------------------------------------------------------------------------
\* How a removal goes on when one credential is done.
LEMMA FinishEnds ==
    ASSUME CallType, NEW c \in Call, NEW any, Finish(c, any)
    PROVE  /\ \E s \in {"find", "done"} : at' = [at EXCEPT ![c] = s]
           /\ chain' = [chain EXCEPT ![c] = <<>>]
           /\ DOMAIN query' = Call /\ \A d \in Call \ {c} : query'[d] = query[d]
  BY DEF CallType, Finish

\* What Delete does, step by step.
LEMMA DeleteDoes ==
    ASSUME CallType, Climbing, NEW c \in Call, Delete(c)
    PROVE  LET x == Last(chain[c])
           IN /\ chain[c] # <<>> /\ x \in Ids
              /\ present' = present \ {x} /\ revived' = revived \ {x}
              /\ robbed' \subseteq Call
              /\ DOMAIN query' = Call
              /\ chain' = [chain EXCEPT ![c] = Front(chain[c])]
              /\ \/ /\ Front(chain[c]) = <<>>
                    /\ \E s \in {"find", "done"} : at' = [at EXCEPT ![c] = s]
                    /\ \A d \in Call \ {c} : query'[d] = query[d]
                 \/ Front(chain[c]) # <<>> /\ UNCHANGED <<at, query>>
  <1>1. chain[c] # <<>> /\ chain[c] \in Seq(Nat)
    BY DEF Climbing, ClimbingAt, Delete, CallType
  <1>2. Last(chain[c]) \in Ids
    BY <1>1 DEF CallType, Last
  <1>3. robbed' \subseteq Call
    BY DEF Delete, CallType
  <1> DEFINE x == Last(chain[c])
             any == affected[c] \/ x \in present
  <1>4. present' = present \ {x} /\ revived' = revived \ {x}
    BY DEF Delete, ParentFirst
  <1>5. CASE Front(chain[c]) = <<>> /\ Finish(c, any)
    <2>1. /\ \E s \in {"find", "done"} : at' = [at EXCEPT ![c] = s]
          /\ chain' = [chain EXCEPT ![c] = <<>>]
          /\ DOMAIN query' = Call /\ \A d \in Call \ {c} : query'[d] = query[d]
      <3> HIDE DEF any
      <3> QED
        BY <1>5, FinishEnds
    <2>2. chain' = [chain EXCEPT ![c] = Front(chain[c])]
      BY <1>5, <2>1, Zenon
    <2> QED
      BY <1>1, <1>2, <1>3, <1>4, <1>5, <2>1, <2>2
  <1>6. CASE /\ Front(chain[c]) # <<>> /\ chain' = [chain EXCEPT ![c] = Front(chain[c])]
             /\ UNCHANGED <<at, query, batch>>
    BY <1>1, <1>2, <1>3, <1>4, <1>6 DEF CallType
  <1> QED
    BY <1>5, <1>6 DEF Delete, ParentFirst

\* A chain without its end.
LEMMA FrontOf ==
    ASSUME NEW s \in Seq(Nat), s # <<>>
    PROVE  /\ Front(s) \in Seq(Nat) /\ Len(Front(s)) = Len(s) - 1
           /\ \A k \in 1 .. Len(s) - 1 : Front(s)[k] = s[k]
  <1> DEFINE n == Len(s) - 1
  <1>1. Len(s) \in Nat \ {0} /\ \A i \in 1 .. Len(s) : s[i] \in Nat
    BY EmptySeq, LenProperties, ElementOfSeq
  <1>2. n \in Nat /\ 1 \in Int /\ n - 1 + 1 = n /\ \A i \in 1 .. n : 1 + i - 1 = i
    BY <1>1
  <1>3. /\ SubSeq(s, 1, n) \in Seq(Nat)
        /\ Len(SubSeq(s, 1, n)) = IF 1 <= n THEN n - 1 + 1 ELSE 0
        /\ \A i \in 1 .. n - 1 + 1 : SubSeq(s, 1, n)[i] = s[1 + i - 1]
    <2>1. \A i \in 1 .. n : s[i] \in Nat
      BY <1>1
    <2> HIDE DEF n
    <2> QED
      BY <1>2, <2>1, SubSeqProperties
  <1>4. Len(SubSeq(s, 1, n)) = n
    <2> HIDE DEF n
    <2> QED
      BY <1>2, <1>3
  <1>5. \A i \in 1 .. n : SubSeq(s, 1, n)[i] = s[i]
    <2> HIDE DEF n
    <2> QED
      BY <1>2, <1>3
  <1> QED
    BY <1>3, <1>4, <1>5 DEF Front

\* The types hold of the empty table, which nobody has called yet.
LEMMA TableInit == Init => TableType
  BY DEF Init, TableType, Ids

\* Calls that were not made have read and found nothing.
LEMMA CallInit == Init => CallType
  BY DEF Init, CallType, Update, NoUpdate, Kind, Date, Ids

\* Nothing was saved.
LEMMA SavedInit == Init => SavedType
  BY DEF Init, SavedType

\* What is added is a row, and the revocation that it is added with, if any.
LEMMA AddedRow ==
    ASSUME TypeInv, AddCredential
    PROVE  \E d \in Doc, p \in Ids \cup {None}, row \in Row, log \in Seq(Saved) :
              /\ CanInsert(d) /\ row.doc = d /\ row.parent = p
              /\ rows' = Append(rows, row) /\ saved' = Append(saved, log)
              /\ Standing(log, Len(log), row.revokedAt)
  <1>1. PICK d \in Doc, p \in Ids \cup {None} : \E a \in Added[d] :
           /\ CanInsert(d) /\ rows' = Append(rows, NewRow(d, p, a))
           /\ saved' = Append(saved, RevokedBefore(a))
    BY DEF AddCredential
  <1>2. PICK a \in Added[d] :
           /\ CanInsert(d) /\ rows' = Append(rows, NewRow(d, p, a))
           /\ saved' = Append(saved, RevokedBefore(a))
    BY <1>1
  <1>3. a \in Initial
    BY <1>2
  <1>4. NewRow(d, p, a) \in Row /\ NewRow(d, p, a).revokedAt = a.revokedAt
    <2>1. p \in Nat \cup {None}
      BY DEF Ids
    <2>2. /\ a.state \in Kind \cup {None} /\ a.verifiedAt \in {None, Given}
          /\ a.revokedAt \in {None, Given}
      BY <1>3 DEF Initial
    <2> QED
      BY <2>1, <2>2 DEF NewRow, Row, Date
  <1>5. NewRow(d, p, a).doc = d /\ NewRow(d, p, a).parent = p
    BY DEF NewRow
  <1>6. RevokedBefore(a) \in Seq(Saved) /\ Standing(RevokedBefore(a), Len(RevokedBefore(a)), a.revokedAt)
    <2>1. CASE a.revokedAt = None
      <3>1. RevokedBefore(a) = <<>>
        BY <2>1 DEF RevokedBefore
      <3> QED
        BY <3>1 DEF Standing
    <2>2. CASE a.revokedAt # None
      <3> DEFINE e == [by |-> a.revokedAt, kind |-> "REVOKED", seen |-> 0]
      <3>1. e \in Saved /\ e.by = a.revokedAt
        BY <1>3, <2>2 DEF Initial, Saved, Kind
      <3>2. RevokedBefore(a) = <<e>>
        BY <2>2 DEF RevokedBefore
      <3> HIDE DEF e
      <3>3. <<e>> \in Seq(Saved) /\ Len(<<e>>) = 1 /\ <<e>>[1] = e
        BY <3>1
      <3> QED
        BY <3>1, <3>2, <3>3 DEF Standing
    <2> QED
      BY <2>1, <2>2
  <1> QED
    BY <1>2, <1>4, <1>5, <1>6

\* What a save writes is a row of the same document and parent.
LEMMA UpdatedRow ==
    ASSUME TypeInv, NEW c \in Call, at[c] = "save"
    PROVE  LET i == update[c].id
           IN /\ i \in Ids /\ Updated(c) \in Row
              /\ Updated(c).doc = rows[i].doc /\ Updated(c).parent = rows[i].parent
              /\ Updated(c).revokedAt =
                    IF update[c].kind = "REVOKED" THEN c ELSE update[c].revokedAt
  <1>1. update[c].id \in Ids /\ update[c] \in Update
    BY DEF TypeInv, CallType
  <1>2. rows[update[c].id] \in Row
    BY <1>1 DEF TypeInv, TableType, Ids
  <1> QED
    BY <1>1, <1>2 DEF Updated, Row, Update, Date, Kind

\* Every step keeps the types of the table: an insert is of a hash that is not there.
LEMMA TableStep == TypeInv /\ Climbing /\ [Next]_vars => TableType'
  <1> SUFFICES ASSUME TypeInv, Climbing, [Next]_vars PROVE TableType'
    OBVIOUS
  <1> USE DEF TypeInv, TableType, Ids
  <1>1. CASE AddCredential
    <2>1. PICK d \in Doc, p \in Ids \cup {None}, row \in Row :
             CanInsert(d) /\ row.doc = d /\ row.parent = p /\ rows' = Append(rows, row)
      BY <1>1, AddedRow
    <2>3. /\ rows' \in Seq(Row) /\ Len(rows') = Len(rows) + 1
          /\ rows'[Len(rows) + 1] = row /\ \A i \in 1 .. Len(rows) : rows'[i] = rows[i]
      BY <2>1
    <2>4. present' = present \cup {Len(rows) + 1} /\ revived' = revived
      BY <1>1 DEF AddCredential
    <2>5. row.doc = d /\ row.parent = p
      BY <2>1
    <2>6. \A i \in present : rows[i].doc # d
      BY <2>1 DEF CanInsert
    <2>7. \A i \in Ids' : rows'[i].parent # None => rows'[i].parent \in 1 .. (i - 1)
      BY <2>3, <2>5
    <2>8. \A i, j \in present' : rows'[i].doc = rows'[j].doc => i = j
      BY <2>3, <2>4, <2>5, <2>6
    <2>9. present' \subseteq Ids' /\ revived' \subseteq present'
      <3>1. Len(rows) \in Nat
        BY LenProperties
      <3>2. Len(rows') = Len(rows) + 1
        BY <2>3
      <3>3. \A i \in present \cup {Len(rows) + 1} : i \in 1 .. Len(rows) + 1
        BY <3>1
      <3> QED
        BY <2>4, <3>2, <3>3
    <2> QED
      BY <2>3, <2>7, <2>8, <2>9
  <1>2. ASSUME NEW c \in Call, Save(c) PROVE TableType'
    <2> DEFINE i == update[c].id
    <2>1. CASE UNCHANGED <<tableVars, saved, revived>>
      BY <2>1 DEF tableVars
    <2>2. CASE /\ i \in present \/ CanInsert(rows[i].doc)
               /\ rows' = [rows EXCEPT ![i] = Updated(c)]
               /\ present' = present \cup {i}
               /\ revived' = revived \cup ({i} \ present)
      <3>1. /\ i \in Ids /\ Updated(c) \in Row
            /\ Updated(c).doc = rows[i].doc /\ Updated(c).parent = rows[i].parent
        BY <1>2, UpdatedRow DEF Save
      <3>2. rows' \in Seq(Row) /\ Len(rows') = Len(rows)
        BY <2>2, <3>1
      <3>3. \A j \in Ids : rows'[j].doc = rows[j].doc /\ rows'[j].parent = rows[j].parent
        BY <2>2, <3>1
      <3>4. \A j, k \in present' : rows[j].doc = rows[k].doc => j = k
        BY <2>2 DEF CanInsert
      <3>5. \A j, k \in present' : rows'[j].doc = rows'[k].doc => j = k
        BY <2>2, <3>1, <3>3, <3>4
      <3>6. \A j \in Ids' : rows'[j].parent # None => rows'[j].parent \in 1 .. (j - 1)
        BY <3>2, <3>3
      <3> QED
        BY <2>2, <3>1, <3>2, <3>5, <3>6
    <2> QED
      BY <1>2, <2>1, <2>2 DEF Save
  <1>3. ASSUME NEW c \in Call, Delete(c) PROVE TableType'
    <2>1. rows' = rows
      BY <1>3 DEF Delete
    <2> QED
      BY <1>3, <2>1, DeleteDoes
  <1>4. ASSUME NEW c \in Call,
               UpdateCredentialState(c) \/ RemoveCredential(c) \/ DeleteCredentials(c)
                 \/ DeleteTree(c) \/ RemovalFails(c)
        PROVE TableType'
    BY <1>4 DEF UpdateCredentialState, RemoveCredential, DeleteCredentials, DeleteTree,
                RemovalFails, tableVars, historyVars
  <1>5. CASE UNCHANGED vars
    BY <1>5 DEF vars, tableVars, historyVars
  <1> QED
    BY <1>1, <1>2, <1>3, <1>4, <1>5 DEF Next, Step
-----------------------------------------------------------------------------
\* A row that was given an id keeps its parent.
LEMMA RowsStay ==
    ASSUME TypeInv, [Next]_vars
    PROVE  \A i \in Ids : i \in Ids' /\ rows'[i].parent = rows[i].parent
  <1> USE DEF TypeInv, TableType, Ids
  <1>1. CASE AddCredential
    <2>1. \E r \in Row : rows' = Append(rows, r)
      BY <1>1, AddedRow
    <2> QED
      BY <2>1, LenProperties
  <1>2. ASSUME NEW c \in Call, Save(c)
        PROVE  \A i \in Ids : i \in Ids' /\ rows'[i].parent = rows[i].parent
    <2>1. rows' = [rows EXCEPT ![update[c].id] = Updated(c)] \/ rows' = rows
      BY <1>2 DEF Save, tableVars
    <2>2. /\ update[c].id \in Ids /\ Updated(c) \in Row
          /\ Updated(c).parent = rows[update[c].id].parent
      BY <1>2, UpdatedRow DEF Save
    <2> QED
      BY <2>1, <2>2
  <1>3. ASSUME NEW c \in Call,
               UpdateCredentialState(c) \/ RemoveCredential(c) \/ DeleteCredentials(c)
                 \/ DeleteTree(c) \/ Delete(c) \/ RemovalFails(c)
        PROVE  rows' = rows
    BY <1>3 DEF UpdateCredentialState, RemoveCredential, DeleteCredentials, DeleteTree,
                Delete, RemovalFails, tableVars
  <1>4. CASE UNCHANGED vars
    BY <1>4 DEF vars, tableVars
  <1> QED
    BY <1>1, <1>2, <1>3, <1>4 DEF Next, Step

\* What a call has read or found are rows that were given an id, and stay so.
LEMMA CallStep == TypeInv /\ Climbing /\ [Next]_vars => CallType'
  <1> SUFFICES ASSUME TypeInv, Climbing, [Next]_vars PROVE CallType'
    OBVIOUS
  <1> USE DEF CallType
  <1>1. CallType
    BY DEF TypeInv
  <1>2. \A i \in Ids : i \in Ids'
    BY RowsStay
  <1>3. CASE AddCredential
    BY <1>1, <1>2, <1>3 DEF AddCredential, removalVars
  <1>4. ASSUME NEW c \in Call, UpdateCredentialState(c) PROVE CallType'
    <2>1. PICK i \in present, k \in Kind :
             update' = [update EXCEPT ![c] = [id |-> i, kind |-> k, seen |-> Len(saved[i]),
                           verifiedAt |-> rows[i].verifiedAt, revokedAt |-> rows[i].revokedAt]]
      BY <1>4 DEF UpdateCredentialState
    <2>2. i \in Ids /\ i \in Nat /\ i \in 1 .. Len(saved) /\ rows[i] \in Row
      BY LenProperties DEF TypeInv, TableType, SavedType, Ids
    <2>3. Len(saved[i]) \in Nat
      <3>1. saved[i] \in Seq(Saved)
        BY <2>2 DEF TypeInv, SavedType
      <3> QED
        BY <3>1, LenProperties
    <2>4. [id |-> i, kind |-> k, seen |-> Len(saved[i]),
           verifiedAt |-> rows[i].verifiedAt, revokedAt |-> rows[i].revokedAt] \in Update
      BY <2>2, <2>3 DEF Update, Row
    <2>5. /\ at' = [at EXCEPT ![c] = "save"]
          /\ UNCHANGED <<rows, query, chain, robbed>>
      BY <1>4 DEF UpdateCredentialState, tableVars, removalVars, historyVars
    <2>6. update'[c].id = i
      BY <1>1, <2>1
    <2> QED
      BY <1>1, <1>2, <2>1, <2>2, <2>4, <2>5, <2>6 DEF Ids
  <1>5. ASSUME NEW c \in Call, Save(c) PROVE CallType'
    <2>1. NoUpdate \in Update
      BY DEF NoUpdate, Update, Kind, Date
    <2>2. /\ at' = [at EXCEPT ![c] = "done"] /\ update' = [update EXCEPT ![c] = NoUpdate]
          /\ UNCHANGED <<query, chain, robbed>>
      BY <1>5 DEF Save, removalVars
    <2> QED
      BY <1>1, <1>2, <2>1, <2>2
  <1>6. ASSUME NEW c \in Call, RemoveCredential(c) \/ DeleteCredentials(c) PROVE CallType'
    <2>1. /\ at' = [at EXCEPT ![c] = "find"] /\ DOMAIN query' = Call
          /\ UNCHANGED <<update, chain, robbed>>
      BY <1>1, <1>6 DEF RemoveCredential, DeleteCredentials, historyVars
    <2> QED
      BY <1>1, <1>2, <2>1
  <1>7. ASSUME NEW c \in Call, DeleteTree(c) PROVE CallType'
    <2>1. UNCHANGED <<update, robbed>>
      BY <1>7 DEF DeleteTree, historyVars
    <2>2. ASSUME NEW i \in present, Climb(c, i) PROVE CallType'
      <3>1. i \in Ids /\ i \in Nat
        BY LenProperties DEF TypeInv, TableType, Ids
      <3>2. /\ Append(chain[c], i) \in Seq(Nat)
            /\ \A k \in 1 .. Len(Append(chain[c], i)) : Append(chain[c], i)[k] \in Ids
        BY <1>1, <3>1
      <3>3. /\ at' \in [Call -> {"idle", "save", "find", "delete", "done"}]
            /\ at'[c] # "save" /\ \A d \in Call : d # c => at'[d] = at[d]
        BY <1>1, <2>2 DEF Climb
      <3>4. chain' = [chain EXCEPT ![c] = Append(chain[c], i)] /\ DOMAIN query' = Call
        BY <1>1, <2>2 DEF Climb
      <3> QED
        BY <1>1, <1>2, <2>1, <3>2, <3>3, <3>4
    <2>3. CASE Finish(c, FALSE)
      <3>1. PICK s \in {"find", "done"} : at' = [at EXCEPT ![c] = s]
        BY <1>1, <2>3, FinishEnds
      <3>2. chain' = [chain EXCEPT ![c] = <<>>] /\ DOMAIN query' = Call
        BY <1>1, <2>3, FinishEnds
      <3> QED
        BY <1>1, <1>2, <2>1, <3>1, <3>2
    <2>4. CASE at' = [at EXCEPT ![c] = "delete"] /\ UNCHANGED removalVars
      BY <1>1, <1>2, <2>1, <2>4 DEF removalVars
    <2> QED
      BY <1>7, <2>2, <2>3, <2>4 DEF DeleteTree
  <1>8. ASSUME NEW c \in Call, Delete(c) PROVE CallType'
    <2>1. update' = update
      BY <1>8 DEF Delete
    <2>2. chain[c] \in Seq(Nat) /\ chain[c] # <<>>
      BY <1>1, <1>8 DEF Delete, Climbing, ClimbingAt
    <2>3. /\ Front(chain[c]) \in Seq(Nat)
          /\ \A k \in 1 .. Len(Front(chain[c])) : Front(chain[c])[k] \in Ids
      <3>1. Len(chain[c]) \in Nat
        BY <2>2, LenProperties
      <3>2. /\ Front(chain[c]) \in Seq(Nat) /\ Len(Front(chain[c])) = Len(chain[c]) - 1
            /\ \A k \in 1 .. Len(chain[c]) - 1 : Front(chain[c])[k] = chain[c][k]
        BY <2>2, FrontOf
      <3>3. \A k \in 1 .. Len(chain[c]) : chain[c][k] \in Ids
        BY <1>1
      <3>4. \A k \in 1 .. Len(chain[c]) - 1 : k \in 1 .. Len(chain[c])
        BY <3>1
      <3> QED
        BY <3>2, <3>3, <3>4
    <2>4. /\ chain' = [chain EXCEPT ![c] = Front(chain[c])]
          /\ DOMAIN query' = Call /\ robbed' \subseteq Call
          /\ at' = at \/ \E s \in {"find", "done"} : at' = [at EXCEPT ![c] = s]
      BY <1>1, <1>8, DeleteDoes
    <2>5. /\ at' \in [Call -> {"idle", "save", "find", "delete", "done"}]
          /\ \A d \in Call : at'[d] = "save" => at[d] = "save"
      BY <1>1, <2>4
    <2> QED
      BY <1>1, <1>2, <2>1, <2>3, <2>4, <2>5
  <1>9. ASSUME NEW c \in Call, RemovalFails(c) PROVE CallType'
    <2>1. update' = update /\ robbed' \subseteq Call
      BY <1>1, <1>9 DEF RemovalFails
    <2>2. PICK s \in {"find", "done"} : at' = [at EXCEPT ![c] = s]
      BY <1>1, <1>9, FinishEnds DEF RemovalFails
    <2>3. chain' = [chain EXCEPT ![c] = <<>>] /\ DOMAIN query' = Call
      BY <1>1, <1>9, FinishEnds DEF RemovalFails
    <2> QED
      BY <1>1, <1>2, <2>1, <2>2, <2>3
  <1>10. CASE UNCHANGED vars
    BY <1>1, <1>2, <1>10 DEF vars, tableVars, removalVars, historyVars
  <1> QED
    BY <1>3, <1>4, <1>5, <1>6, <1>7, <1>8, <1>9, <1>10 DEF Next, Step

\* No update has seen more saved states than there are.
LEMMA SavedStep == TypeInv /\ [Next]_vars => SavedType'
  <1> SUFFICES ASSUME TypeInv, [Next]_vars PROVE SavedType'
    OBVIOUS
  <1> USE DEF TypeInv, SavedType
  <1>1. /\ Len(rows) \in Nat /\ Ids = 1 .. Len(saved)
        /\ \A i \in Ids : saved[i] \in Seq(Saved) /\ Len(saved[i]) \in Nat
    BY LenProperties DEF TableType, Ids
  <1>2. \A c \in Call : at[c] = "save" => update[c].id \in Ids
    BY DEF CallType
  <1>3. CASE AddCredential
    <2>4. PICK row \in Row, log \in Seq(Saved) : rows' = Append(rows, row) /\ saved' = Append(saved, log)
      BY <1>3, AddedRow
    <2>1. Len(rows') = Len(rows) + 1 /\ UNCHANGED <<at, update>>
      BY <1>3, <2>4 DEF AddCredential, TableType
    <2>2. saved' \in Seq(Seq(Saved)) /\ Len(saved') = Len(saved) + 1
      BY <2>4
    <2>3. \A i \in Ids : saved'[i] = saved[i]
      BY <1>1, <2>4
    <2> QED
      BY <1>2, <2>1, <2>2, <2>3
  <1>4. ASSUME NEW c \in Call, UpdateCredentialState(c) PROVE SavedType'
    <2>1. PICK i \in present, k \in Kind :
             update' = [update EXCEPT ![c] = [id |-> i, kind |-> k, seen |-> Len(saved[i]),
                           verifiedAt |-> rows[i].verifiedAt, revokedAt |-> rows[i].revokedAt]]
      BY <1>4 DEF UpdateCredentialState
    <2>2. at' = [at EXCEPT ![c] = "save"] /\ UNCHANGED <<rows, saved>>
      BY <1>4 DEF UpdateCredentialState, tableVars, historyVars
    <2>3. update'[c].id = i /\ update'[c].seen = Len(saved[i]) /\ i \in Ids
      BY <2>1 DEF CallType, TableType
    <2>4. \A d \in Call : d # c => update'[d] = update[d] /\ at'[d] = at[d]
      BY <2>1, <2>2 DEF CallType
    <2> QED
      BY <1>1, <2>2, <2>3, <2>4
  <1>5. ASSUME NEW c \in Call, Save(c) PROVE SavedType'
    <2> DEFINE i == update[c].id
               e == [by |-> c, kind |-> update[c].kind, seen |-> update[c].seen]
    <2>1. at[c] = "save" /\ i \in Ids /\ e \in Saved
      BY <1>2, <1>5 DEF Save, CallType, Update, Saved
    <2>2. at' = [at EXCEPT ![c] = "done"] /\ update' = [update EXCEPT ![c] = NoUpdate]
      BY <1>5 DEF Save
    <2>3. Len(rows') = Len(rows)
      BY <1>5 DEF Save, TableType, tableVars
    <2>4. CASE saved' = saved
      BY <2>2, <2>3, <2>4 DEF CallType
    <2>5. CASE saved' = [saved EXCEPT ![i] = Append(@, e)]
      <3>1. Append(saved[i], e) \in Seq(Saved) /\ Len(Append(saved[i], e)) = Len(saved[i]) + 1
        BY <1>1, <2>1
      <3>2. /\ saved' \in Seq(Seq(Saved)) /\ Len(saved') = Len(saved)
            /\ \A j \in Ids : j # i => saved'[j] = saved[j]
            /\ saved'[i] = Append(saved[i], e)
        BY <1>1, <2>1, <2>5, <3>1
      <3>3. \A j \in Ids : Len(saved'[j]) >= Len(saved[j])
        <4> TAKE j \in Ids
        <4>1. Len(saved[j]) \in Nat
          BY <1>1
        <4>2. CASE j = i
          <5>1. Len(saved'[j]) = Len(saved[j]) + 1
            BY <3>1, <3>2, <4>2, Zenon
          <5> QED
            BY <4>1, <5>1
        <4>3. CASE j # i
          BY <3>2, <4>1, <4>3
        <4> QED
          BY <4>2, <4>3
      <3>4. \A d \in Call : at'[d] = "save" => at[d] = "save" /\ update'[d] = update[d]
        BY <2>2 DEF CallType
      <3>5. \A d \in Call : update[d].seen \in Nat
        BY DEF CallType, Update
      <3>6. ASSUME NEW d \in Call, at'[d] = "save"
            PROVE  update'[d].seen <= Len(saved'[update'[d].id])
        <4>1. /\ update'[d] = update[d] /\ update[d].id \in Ids
              /\ update[d].seen <= Len(saved[update[d].id])
          BY <1>2, <3>4, <3>6
        <4> QED
          BY <1>1, <3>2, <3>3, <3>5, <4>1
      <3> QED
        BY <2>3, <3>2, <3>6
    <2> QED
      BY <1>5, <2>4, <2>5 DEF Save
  <1>6. ASSUME NEW c \in Call,
               RemoveCredential(c) \/ DeleteCredentials(c) \/ DeleteTree(c) \/ Delete(c)
                 \/ RemovalFails(c)
        PROVE SavedType'
    <2>1. UNCHANGED <<rows, saved, update>>
      BY <1>6 DEF RemoveCredential, DeleteCredentials, DeleteTree, Delete, RemovalFails,
                  tableVars, historyVars
    <2>2. \A d \in Call : at'[d] = "save" => at[d] = "save"
      BY <1>6 DEF RemoveCredential, DeleteCredentials, DeleteTree, Climb, Delete, RemovalFails,
                  Finish, CallType
    <2> QED
      BY <2>1, <2>2
  <1>7. CASE UNCHANGED vars
    BY <1>7 DEF vars, tableVars, historyVars
  <1> QED
    BY <1>3, <1>4, <1>5, <1>6, <1>7 DEF Next, Step
-----------------------------------------------------------------------------
\* A row is there that was not before, or is no longer revived, only if it is new or deleted.
LEMMA TableMoves ==
    ASSUME TypeInv, Climbing, [Next]_vars
    PROVE  \A p \in Ids : p \in present' =>
              p \in revived' \/ (p \in present /\ (p \in revived => p \in revived'))
  <1> USE DEF TypeInv, TableType, Ids
  <1> SUFFICES ASSUME NEW p \in Ids, p \in present'
               PROVE  p \in revived' \/ (p \in present /\ (p \in revived => p \in revived'))
    OBVIOUS
  <1>1. CASE AddCredential
    <2>1. Len(rows) \in Nat
      BY LenProperties
    <2>2. p # Len(rows) + 1
      BY <2>1
    <2> QED
      BY <1>1, <2>2 DEF AddCredential
  <1>2. ASSUME NEW c \in Call, Save(c)
        PROVE  p \in revived' \/ (p \in present /\ (p \in revived => p \in revived'))
    BY <1>2 DEF Save, tableVars
  <1>3. ASSUME NEW c \in Call, Delete(c)
        PROVE  p \in revived' \/ (p \in present /\ (p \in revived => p \in revived'))
    <2>1. /\ present' = present \ {Last(chain[c])}
          /\ revived' = revived \ {Last(chain[c])}
      BY <1>3, DeleteDoes
    <2> QED
      BY <2>1
  <1>4. ASSUME NEW c \in Call,
               UpdateCredentialState(c) \/ RemoveCredential(c) \/ DeleteCredentials(c)
                 \/ DeleteTree(c) \/ RemovalFails(c)
        PROVE  UNCHANGED <<present, revived>>
    BY <1>4 DEF UpdateCredentialState, RemoveCredential, DeleteCredentials, DeleteTree,
                RemovalFails, tableVars, historyVars
  <1>5. CASE UNCHANGED vars
    BY <1>5 DEF vars, tableVars, historyVars
  <1> QED
    BY <1>1, <1>2, <1>3, <1>4, <1>5 DEF Next, Step

\* A parent that is gone comes back only revived.
LEMMA FreeStays ==
    ASSUME TypeInv, Climbing, [Next]_vars, NEW i \in Ids, Free(i)
    PROVE  Free(i)'
  <1>1. rows'[i].parent = rows[i].parent
    BY RowsStay
  <1>2. present' \subseteq Ids' /\ None \notin Ids'
    BY TableStep, LenProperties DEF TableType, Ids
  <1>3. rows[i].parent = None \/ rows[i].parent \in Ids
    BY LenProperties DEF TypeInv, TableType, Ids
  <1>4. CASE rows[i].parent = None
    BY <1>1, <1>2, <1>4 DEF Free
  <1>5. CASE rows[i].parent \in Ids
    BY <1>1, <1>5, TableMoves DEF Free
  <1> QED
    BY <1>3, <1>4, <1>5

\* A removal that does not move keeps what it has found.
LEMMA OthersClimb ==
    ASSUME TypeInv, Climbing, [Next]_vars, NEW c \in Call,
           at'[c] = at[c], chain'[c] = chain[c], query'[c] = query[c]
    PROVE  ClimbingAt(c)'
  <1>1. /\ chain[c] \in Seq(Nat) /\ Len(chain[c]) \in Nat
        /\ \A k \in 1 .. Len(chain[c]) : chain[c][k] \in Ids
    BY LenProperties DEF TypeInv, CallType
  <1>2. ClimbingAt(c)
    BY DEF Climbing
  <1>3. \A k \in 1 .. Len(chain[c]) - 1 : rows'[chain[c][k]].parent = rows[chain[c][k]].parent
    BY <1>1, RowsStay
  <1>4. chain[c] # <<>> => Last(chain[c]) \in Ids
    BY <1>1, EmptySeq DEF Last
  <1>5. chain[c] # <<>> => rows'[Last(chain[c])].parent = rows[Last(chain[c])].parent
    BY <1>4, RowsStay
  <1>6. at[c] = "delete" => Free(Last(chain[c]))'
    <2>1. SUFFICES ASSUME at[c] = "delete" PROVE Free(Last(chain[c]))'
      OBVIOUS
    <2>2. PICK i \in Ids : i = Last(chain[c]) /\ Free(i)
      BY <1>2, <1>4, <2>1 DEF ClimbingAt
    <2>3. Free(i)'
      BY <2>2, FreeStays
    <2> QED
      BY <2>2, <2>3 DEF Free
  <1> QED
    BY <1>2, <1>3, <1>5, <1>6 DEF ClimbingAt

\* A row goes when nothing but a revived row is its parent.
LEMMA WholeStep == TypeInv /\ Climbing /\ WholeTreesGo /\ [Next]_vars => WholeTreesGo'
  <1> SUFFICES ASSUME TypeInv, Climbing, WholeTreesGo, [Next]_vars PROVE WholeTreesGo'
    OBVIOUS
  <1>1. SUFFICES ASSUME NEW i \in Ids' \ present' PROVE Free(i)'
    BY DEF WholeTreesGo, Free
  <1>2. CASE i \in Ids /\ i \notin present
    BY <1>2, FreeStays DEF WholeTreesGo, Free
  <1>3. CASE i \in present
    <2>1. PICK c \in Call : Delete(c)
      <3>1. \A c \in Call :
               UpdateCredentialState(c) \/ RemoveCredential(c) \/ DeleteCredentials(c)
                 \/ DeleteTree(c) \/ RemovalFails(c) \/ Save(c) => i \in present'
        BY <1>3 DEF UpdateCredentialState, RemoveCredential, DeleteCredentials, DeleteTree,
                    RemovalFails, Save, tableVars
      <3>2. AddCredential \/ UNCHANGED vars => i \in present'
        BY <1>3 DEF AddCredential, vars, tableVars
      <3> QED
        BY <3>1, <3>2 DEF Next, Step
    <2>2. i = Last(chain[c])
      BY <1>3, <2>1, DeleteDoes DEF TypeInv
    <2>3. Free(i) /\ i \in Ids
      BY <1>3, <2>1, <2>2 DEF Climbing, ClimbingAt, Delete, TypeInv, TableType
    <2> QED
      BY <2>3, FreeStays
  <1>4. CASE i \notin Ids
    <2>1. AddCredential
      <3>1. ASSUME NEW c \in Call, Save(c) PROVE Len(rows') = Len(rows)
        BY <3>1 DEF Save, tableVars, TypeInv, TableType
      <3>2. ASSUME NEW c \in Call, Step(c), ~Save(c) PROVE rows' = rows
        BY <3>2 DEF Step, UpdateCredentialState, RemoveCredential, DeleteCredentials, DeleteTree,
                    Delete, RemovalFails, tableVars
      <3>3. UNCHANGED vars => rows' = rows
        BY DEF vars, tableVars
      <3> QED
        BY <1>4, <3>1, <3>2, <3>3 DEF Next, Ids
    <2>2. Len(rows) \in Nat /\ Len(rows') = Len(rows) + 1
      BY <2>1, AddedRow, LenProperties DEF TypeInv, TableType
    <2> QED
      BY <1>4, <2>1, <2>2 DEF AddCredential, Ids
  <1> QED
    BY <1>2, <1>3, <1>4 DEF TypeInv, TableType

\* Each step of a removal goes one up, or deletes the end of the chain, and leaves a chain.
LEMMA ClimbingStep == TypeInv /\ Climbing /\ [Next]_vars => Climbing'
  <1> SUFFICES ASSUME TypeInv, Climbing, [Next]_vars, NEW d \in Call PROVE ClimbingAt(d)'
    BY DEF Climbing
  <1>1. CallType /\ CallType'
    BY CallStep DEF TypeInv
  <1>2. ClimbingAt(d)
    BY DEF Climbing
  <1>3. CASE AddCredential
    BY <1>3, OthersClimb DEF AddCredential, removalVars
  <1>4. ASSUME NEW c \in Call, Step(c), c # d PROVE ClimbingAt(d)'
    <2>1. at'[d] = at[d] /\ chain'[d] = chain[d] /\ query'[d] = query[d]
      BY <1>1, <1>4 DEF Step, UpdateCredentialState, Save, RemoveCredential, DeleteCredentials,
                        DeleteTree, Climb, Delete, RemovalFails, Finish, removalVars, CallType
    <2> QED
      BY <2>1, OthersClimb
  <1>5. CASE UpdateCredentialState(d) \/ Save(d)
    <2>1. chain'[d] = <<>> /\ at'[d] \in {"save", "done"}
      BY <1>1, <1>2, <1>5 DEF UpdateCredentialState, Save, removalVars, CallType, ClimbingAt
    <2> QED
      BY <2>1 DEF ClimbingAt
  <1>6. CASE RemoveCredential(d) \/ DeleteCredentials(d)
    <2>1. chain'[d] = <<>> /\ at'[d] = "find"
      BY <1>1, <1>2, <1>6 DEF RemoveCredential, DeleteCredentials, CallType, ClimbingAt
    <2> QED
      BY <2>1 DEF ClimbingAt
  <1>7. ASSUME NEW any, Finish(d, any) PROVE ClimbingAt(d)'
    <2>1. chain'[d] = <<>> /\ at'[d] \in {"find", "done"}
      BY <1>1, <1>7, FinishEnds DEF CallType
    <2> QED
      BY <2>1 DEF ClimbingAt
  <1>8. ASSUME NEW i \in present, Climb(d, i), UNCHANGED tableVars, at[d] = "find"
        PROVE  ClimbingAt(d)'
    <2>1. chain[d] \in Seq(Nat) /\ Len(chain[d]) \in Nat /\ i \in Nat /\ i \in Ids
      BY <1>1, LenProperties DEF CallType, TypeInv, TableType, Ids
    <2>2. chain'[d] = Append(chain[d], i) /\ query'[d] = rows[i].parent
      BY <1>1, <1>8 DEF Climb, CallType
    <2>3. /\ Len(chain'[d]) = Len(chain[d]) + 1 /\ chain'[d] # <<>> /\ Last(chain'[d]) = i
          /\ chain'[d][Len(chain[d]) + 1] = i
          /\ \A k \in 1 .. Len(chain[d]) : chain'[d][k] = chain[d][k]
      BY <2>1, <2>2, AppendProperties DEF Last
    <2>4. at'[d] = IF rows[i].parent = None THEN "delete" ELSE "find"
      BY <1>1, <1>8 DEF Climb, CallType
    <2>5. ASSUME NEW k \in 1 .. Len(chain'[d]) - 1
          PROVE  rows'[chain'[d][k]].parent = chain'[d][k + 1]
      <3>1. CASE k < Len(chain[d])
        <4>1. /\ k \in 1 .. Len(chain[d]) - 1
              /\ k \in 1 .. Len(chain[d]) /\ k + 1 \in 1 .. Len(chain[d])
          BY <2>1, <3>1
        <4> QED
          BY <1>2, <1>8, <2>3, <4>1 DEF ClimbingAt, tableVars
      <3>2. CASE k = Len(chain[d])
        <4>1. chain[d] # <<>> /\ chain'[d][k] = Last(chain[d]) /\ chain'[d][k + 1] = i
          BY <2>1, <2>3, <3>2, EmptySeq DEF Last
        <4>2. query[d] = rows[Last(chain[d])].parent
          BY <1>2, <1>8, <4>1 DEF ClimbingAt
        <4>3. rows[Last(chain[d])].parent \in Nat \cup {None}
          <5>1. Last(chain[d]) \in Ids
            BY <1>1, <2>1, <4>1, EmptySeq DEF CallType, Last
          <5> QED
            BY <5>1 DEF TypeInv, TableType, Row, Ids
        <4>4. i = query[d]
          <5>1. rows[i] \in Row
            BY <2>1, ElementOfSeq DEF TypeInv, TableType, Ids
          <5>2. rows[i].doc \in Doc
            BY <5>1 DEF Row
          <5> QED
            BY <1>8, <4>2, <4>3, <5>2 DEF Climb, Found
        <4> QED
          BY <1>8, <4>1, <4>2, <4>4 DEF tableVars
      <3> QED
        BY <2>1, <2>3, <2>5, <3>1, <3>2
    <2>6. CASE rows[i].parent = None
      <3>1. None \notin present
        <4>1. Len(rows) \in Nat
          BY LenProperties DEF TypeInv, TableType
        <4>2. None \notin Ids
          BY <4>1 DEF Ids
        <4>3. present \subseteq Ids
          BY DEF TypeInv, TableType
        <4> QED
          BY <4>2, <4>3
      <3> QED
        BY <1>8, <2>3, <2>4, <2>5, <2>6, <3>1 DEF ClimbingAt, Free, tableVars
    <2>7. CASE rows[i].parent # None
      BY <1>8, <2>2, <2>3, <2>4, <2>5, <2>7 DEF ClimbingAt, tableVars
    <2> QED
      BY <2>6, <2>7
  <1>9. ASSUME Found(query[d]) = {}, chain[d] # <<>>, at[d] = "find", UNCHANGED tableVars,
               at' = [at EXCEPT ![d] = "delete"], UNCHANGED removalVars
        PROVE  ClimbingAt(d)'
    <2>1. rows[Last(chain[d])].parent \notin present
      BY <1>2, <1>9 DEF ClimbingAt, Found
    <2> QED
      BY <1>1, <1>2, <1>9, <2>1 DEF ClimbingAt, Free, CallType, tableVars, removalVars
  <1>10. CASE DeleteTree(d)
    BY <1>7, <1>8, <1>9, <1>10 DEF DeleteTree
  <1>11. CASE RemovalFails(d)
    BY <1>7, <1>11 DEF RemovalFails
  <1>12. CASE Delete(d)
    <2>0. PICK x, f : x = Last(chain[d]) /\ f = Front(chain[d])
      OBVIOUS
    <2>1. /\ chain[d] # <<>> /\ chain[d] \in Seq(Nat) /\ Len(chain[d]) \in Nat
          /\ present' = present \ {x} /\ rows' = rows /\ chain'[d] = f
      <3>1. chain[d] # <<>> /\ present' = present \ {x} /\ chain' = [chain EXCEPT ![d] = f]
        BY <1>1, <1>12, <2>0, DeleteDoes
      <3>2. chain[d] \in Seq(Nat) /\ rows' = rows /\ d \in DOMAIN chain
        BY <1>1, <1>12 DEF CallType, Delete
      <3> QED
        BY <3>1, <3>2, LenProperties
    <2>2. f \in Seq(Nat) /\ Len(f) = Len(chain[d]) - 1 /\ \A k \in 1 .. Len(f) : f[k] = chain[d][k]
      BY <2>0, <2>1, FrontOf
    <2>3. \A k \in 1 .. Len(f) - 1 : rows'[f[k]].parent = f[k + 1]
      <3>1. ASSUME NEW k \in 1 .. Len(f) - 1
            PROVE  k \in 1 .. Len(chain[d]) - 1 /\ k \in 1 .. Len(f) /\ k + 1 \in 1 .. Len(f)
        BY <2>1, <2>2
      <3> QED
        BY <1>2, <2>1, <2>2, <3>1 DEF ClimbingAt
    <2>4. CASE f = <<>>
      <3>1. at'[d] \in {"find", "done"}
        BY <1>1, <1>12, <2>0, <2>4, DeleteDoes DEF CallType
      <3> QED
        BY <2>1, <2>4, <3>1 DEF ClimbingAt
    <2>5. CASE f # <<>>
      <3>1. at' = at /\ at[d] = "delete"
        BY <1>1, <1>12, <2>0, <2>5, DeleteDoes DEF Delete
      <3>2. Len(f) \in Nat \ {0} /\ Last(f) = f[Len(f)]
        BY <2>2, <2>5, EmptySeq, LenProperties DEF Last
      <3>3. rows'[Last(f)].parent = x
        <4>1. Len(f) \in Nat \ {0}
          BY <3>2
        <4>2. Len(f) = Len(chain[d]) - 1 /\ Len(chain[d]) \in Nat
          BY <2>1, <2>2
        <4>3. Len(chain[d]) = Len(f) + 1
          BY <4>1, <4>2
        <4>4. Len(f) \in 1 .. Len(chain[d]) - 1 /\ Len(f) \in 1 .. Len(f)
          BY <4>1, <4>3
        <4>5. rows[chain[d][Len(f)]].parent = chain[d][Len(f) + 1]
          BY <1>2, <4>4 DEF ClimbingAt
        <4> QED
          BY <2>0, <2>1, <2>2, <3>2, <4>3, <4>4, <4>5 DEF Last
      <3>4. rows'[Last(f)].parent \notin present'
        <4>1. x \notin present'
          BY <2>1
        <4> QED
          BY <3>3, <4>1
      <3>5. chain'[d] = f
        BY <2>1
      <3> QED
        BY <2>3, <2>5, <3>1, <3>4, <3>5 DEF ClimbingAt, Free
    <2> QED
      BY <2>4, <2>5
  <1>13. CASE UNCHANGED vars
    BY <1>13, OthersClimb DEF vars, removalVars
  <1> QED
    BY <1>3, <1>4, <1>5, <1>6, <1>10, <1>11, <1>12, <1>13 DEF Next, Step
-----------------------------------------------------------------------------
\* A state that is saved keeps the date that was read, or is a revocation itself.
LEMMA StandingAppend ==
    ASSUME NEW log \in Seq(Saved), NEW e \in Saved, NEW read, e.seen <= Len(log),
           Standing(log, e.seen, read)
    PROVE  Standing(Append(log, e), Len(log) + 1, IF e.kind = "REVOKED" THEN e.by ELSE read)
  <1> DEFINE next == Append(log, e)
             n == Len(log)
  <1>1. n \in Nat /\ e.seen \in Nat
    BY LenProperties DEF Saved
  <1>2. next[n + 1] = e /\ \A k \in 1 .. n : next[k] = log[k]
    BY AppendProperties
  <1> HIDE DEF next, n
  <1>3. SUFFICES ASSUME NEW k \in 1 .. n + 1, next[k].kind = "REVOKED",
                        \A j \in 1 .. n + 1 :
                            j > k => next[j].kind # "REVOKED" /\ next[j].seen >= k
                 PROVE  (IF e.kind = "REVOKED" THEN e.by ELSE read) = next[k].by
    BY DEF Standing, next, n
  <1>4. CASE k = n + 1
    BY <1>2, <1>3, <1>4
  <1>5. CASE k \in 1 .. n
    <2>1. e.kind # "REVOKED" /\ e.seen >= k
      BY <1>1, <1>2, <1>3, <1>5
    <2>2. k \in 1 .. e.seen /\ \A j \in 1 .. e.seen : j \in 1 .. n /\ j \in 1 .. n + 1
      BY <1>1, <1>5, <2>1 DEF n
    <2>3. log[k].kind = "REVOKED" /\ log[k] = next[k]
      BY <1>2, <1>3, <1>5
    <2>4. \A j \in 1 .. e.seen : j > k => log[j].kind # "REVOKED" /\ log[j].seen >= k
      BY <1>2, <1>3, <2>2
    <2>5. read = log[k].by
      BY <2>2, <2>3, <2>4 DEF Standing
    <2> QED
      BY <2>1, <2>3, <2>5
  <1> QED
    BY <1>1, <1>4, <1>5

\* What is saved later changes nothing of what stood.
LEMMA StandingStays ==
    ASSUME NEW log \in Seq(Saved), NEW e \in Saved, NEW n \in 0 .. Len(log), NEW date,
           Standing(log, n, date)
    PROVE  Standing(Append(log, e), n, date)
  <1>1. Len(log) \in Nat /\ \A k \in 1 .. n : k \in 1 .. Len(log)
    BY LenProperties
  <1>2. \A k \in 1 .. n : Append(log, e)[k] = log[k]
    BY <1>1, AppendProperties
  <1> QED
    BY <1>2 DEF Standing

\* What stood still stands, and what an update reads stands.
LEMMA DatedStep == TypeInv /\ Dated /\ [Next]_vars => Dated'
  <1> SUFFICES ASSUME TypeInv, Dated, [Next]_vars PROVE Dated'
    OBVIOUS
  <1>1. /\ Len(rows) \in Nat /\ rows \in Seq(Row) /\ saved \in Seq(Seq(Saved))
        /\ Ids = 1 .. Len(rows) /\ Len(saved) = Len(rows)
        /\ \A i \in Ids : saved[i] \in Seq(Saved) /\ Len(saved[i]) \in Nat
    BY LenProperties DEF TypeInv, TableType, SavedType, Ids
  <1>2. \A c \in Call : update[c].seen \in Nat /\ update[c] \in Update
    BY DEF TypeInv, CallType, Update
  <1>3. \A c \in Call : at[c] = "save" =>
           update[c].id \in Ids /\ update[c].seen \in 0 .. Len(saved[update[c].id])
    BY <1>1, <1>2 DEF TypeInv, CallType, SavedType
  <1>4. CASE AddCredential
    <2>5. PICK row \in Row, log \in Seq(Saved) :
             /\ rows' = Append(rows, row) /\ saved' = Append(saved, log)
             /\ Standing(log, Len(log), row.revokedAt)
      BY <1>4, AddedRow
    <2>1. UNCHANGED <<at, update>>
      BY <1>4 DEF AddCredential
    <2>2. /\ Ids' = 1 .. Len(rows) + 1
          /\ saved'[Len(rows) + 1] = log /\ rows'[Len(rows) + 1] = row
          /\ \A i \in Ids : rows'[i] = rows[i] /\ saved'[i] = saved[i]
      BY <1>1, <2>5 DEF Ids
    <2>3. Standing(saved'[Len(rows) + 1], Len(saved'[Len(rows) + 1]),
                   rows'[Len(rows) + 1].revokedAt)
      BY <2>2, <2>5
    <2>4. \A i \in Ids' : i \in Ids \/ i = Len(rows) + 1
      BY <1>1, <2>2
    <2> QED
      BY <1>3, <2>1, <2>2, <2>3, <2>4 DEF Dated
  <1>5. ASSUME NEW c \in Call, UpdateCredentialState(c) PROVE Dated'
    <2>1. PICK i \in present, k \in Kind :
             update' = [update EXCEPT ![c] = [id |-> i, kind |-> k, seen |-> Len(saved[i]),
                           verifiedAt |-> rows[i].verifiedAt, revokedAt |-> rows[i].revokedAt]]
      BY <1>5 DEF UpdateCredentialState
    <2>2. at' = [at EXCEPT ![c] = "save"] /\ UNCHANGED <<rows, saved>> /\ i \in Ids
      BY <1>5 DEF UpdateCredentialState, tableVars, historyVars, TypeInv, TableType
    <2>3. /\ update'[c].id = i /\ update'[c].seen = Len(saved[i])
          /\ update'[c].revokedAt = rows[i].revokedAt
      BY <2>1 DEF TypeInv, CallType
    <2>4. \A d \in Call : d # c => update'[d] = update[d] /\ at'[d] = at[d]
      BY <2>1, <2>2 DEF TypeInv, CallType
    <2>5. Ids' = Ids
      BY <2>2 DEF Ids
    <2> QED
      BY <2>2, <2>3, <2>4, <2>5 DEF Dated
  <1>6. ASSUME NEW c \in Call, Save(c) PROVE Dated'
    <2> DEFINE i == update[c].id
               e == [by |-> c, kind |-> update[c].kind, seen |-> update[c].seen]
    <2>1. at[c] = "save" /\ i \in Ids /\ e \in Saved
      BY <1>2, <1>3, <1>6 DEF Save, Update, Saved
    <2>2. \A d \in Call : at'[d] = "save" => at[d] = "save" /\ update'[d] = update[d]
      BY <1>6 DEF Save, TypeInv, CallType
    <2>3. CASE UNCHANGED <<tableVars, saved>>
      BY <2>2, <2>3 DEF Dated, tableVars, Ids
    <2>4. CASE /\ rows' = [rows EXCEPT ![i] = Updated(c)]
               /\ saved' = [saved EXCEPT ![i] = Append(@, e)]
      <3>1. /\ Ids' = Ids /\ saved'[i] = Append(saved[i], e)
            /\ Len(saved'[i]) = Len(saved[i]) + 1
            /\ \A j \in Ids : j # i => rows'[j] = rows[j] /\ saved'[j] = saved[j]
        <4>1. Append(saved[i], e) \in Seq(Saved) /\ Len(Append(saved[i], e)) = Len(saved[i]) + 1
          BY <1>1, <2>1
        <4> QED
          BY <1>1, <2>1, <2>4, <4>1 DEF Ids
      <3>2. rows'[i].revokedAt = IF e.kind = "REVOKED" THEN e.by ELSE update[c].revokedAt
        BY <1>1, <2>1, <2>4, UpdatedRow
      <3>3. Standing(saved[i], e.seen, update[c].revokedAt) /\ e.seen <= Len(saved[i])
        BY <1>1, <1>3, <2>1 DEF Dated
      <3>4. Standing(saved'[i], Len(saved'[i]), rows'[i].revokedAt)
        <4> HIDE DEF e, i
        <4>1. saved[i] \in Seq(Saved)
          BY <1>1, <2>1
        <4>2. Standing(Append(saved[i], e), Len(saved[i]) + 1,
                       IF e.kind = "REVOKED" THEN e.by ELSE update[c].revokedAt)
          BY <2>1, <3>3, <4>1, StandingAppend
        <4> QED
          BY <3>1, <3>2, <4>2
      <3>5. ASSUME NEW d \in Call, at'[d] = "save"
            PROVE  Standing(saved'[update'[d].id], update'[d].seen, update'[d].revokedAt)
        <4>1. /\ at[d] = "save" /\ update'[d] = update[d] /\ update[d].id \in Ids
              /\ Standing(saved[update[d].id], update[d].seen, update[d].revokedAt)
              /\ update[d].seen \in 0 .. Len(saved[update[d].id])
          BY <1>3, <2>2, <3>5 DEF Dated
        <4>2. CASE update[d].id = i
          <5> HIDE DEF e, i
          <5>1. saved[i] \in Seq(Saved)
            BY <1>1, <2>1
          <5>2. Standing(Append(saved[i], e), update[d].seen, update[d].revokedAt)
            BY <2>1, <4>1, <4>2, <5>1, StandingStays
          <5> QED
            BY <3>1, <4>1, <4>2, <5>2
        <4>3. CASE update[d].id # i
          BY <3>1, <4>1, <4>3
        <4> QED
          BY <4>2, <4>3
      <3> QED
        BY <3>1, <3>4, <3>5 DEF Dated
    <2> QED
      BY <1>6, <2>3, <2>4 DEF Save
  <1>7. ASSUME NEW c \in Call,
               RemoveCredential(c) \/ DeleteCredentials(c) \/ DeleteTree(c) \/ Delete(c)
                 \/ RemovalFails(c)
        PROVE Dated'
    <2>1. UNCHANGED <<rows, saved, update>>
      BY <1>7 DEF RemoveCredential, DeleteCredentials, DeleteTree, Delete, RemovalFails,
                  tableVars, historyVars
    <2>2. \A d \in Call : at'[d] = "save" => at[d] = "save"
      BY <1>7 DEF RemoveCredential, DeleteCredentials, DeleteTree, Climb, Delete, RemovalFails,
                  Finish, TypeInv, CallType
    <2> QED
      BY <2>1, <2>2 DEF Dated, Ids
  <1>8. CASE UNCHANGED vars
    BY <1>8 DEF vars, tableVars, historyVars, Dated, Ids
  <1> QED
    BY <1>4, <1>5, <1>6, <1>7, <1>8 DEF Next, Step
-----------------------------------------------------------------------------
\* The invariant holds of the empty table.
LEMMA IInvInit == Init => IInv
  <1> SUFFICES ASSUME Init PROVE IInv
    OBVIOUS
  <1>1. TypeInv
    BY TableInit, CallInit, SavedInit DEF TypeInv
  <1>2. rows = <<>> /\ Ids = {}
    BY DEF Init, Ids
  <1>3. \A c \in Call : at[c] = "idle" /\ chain[c] = <<>>
    BY DEF Init
  <1>4. Climbing
    BY <1>3 DEF Climbing, ClimbingAt
  <1>5. WholeTreesGo /\ Dated
    BY <1>2, <1>3 DEF WholeTreesGo, Dated
  <1> QED
    BY <1>1, <1>4, <1>5 DEF IInv

\* It is kept by every step, each part with the parts it leans on.
LEMMA IInvStep == IInv /\ [Next]_vars => IInv'
  BY TableStep, CallStep, SavedStep, ClimbingStep, WholeStep, DatedStep DEF IInv, TypeInv

(* Whatever calls overlap, fail or stop half way, the invariant holds.     *)
THEOREM InductiveInvariant == Spec => []IInv
  BY IInvInit, IInvStep, PTL DEF Spec

(* The table and the calls keep their types: parents are older than their  *)
(* children, the hash stays unique though updates insert rows again, and   *)
(* deleteTree always has something to delete (DigitalCredentialStore.ts).  *)
THEOREM TypeCorrect == Spec => []TypeOK
  <1>1. IInv => TypeOK
    <2> SUFFICES ASSUME IInv PROVE TypeOK
      OBVIOUS
    <2>1. \A c \in Call : ToSet(chain[c]) \subseteq Ids
      BY DEF IInv, TypeInv, CallType, ToSet
    <2> QED
      BY <2>1 DEF IInv, TypeInv, TableType, CallType, Climbing, ClimbingAt, TypeOK
  <1> QED
    BY <1>1, InductiveInvariant, PTL

(* A credential that is gone left no parent behind (deleteTree), however   *)
(* many removals overlap and wherever they fail or stop: only an update    *)
(* that was under way brings a parent back (updateCredentialState).        *)
THEOREM WholeTreesAlways == Spec => []WholeTreesGo
  <1>1. IInv => WholeTreesGo
    BY DEF IInv
  <1> QED
    BY <1>1, InductiveInvariant, PTL

(* The date of a revocation stands (updateCredentialState) unless an update*)
(* was saved after it that had been read before it: for any number of      *)
(* updates, verifications and removals in any order.                       *)
THEOREM RevocationAlways == Spec => []RevocationStands
  <1>1. IInv => RevocationStands
    <2> SUFFICES ASSUME IInv, NEW i \in Ids, NEW k \in DOMAIN saved[i],
                        saved[i][k].kind = "REVOKED",
                        \A j \in DOMAIN saved[i] :
                            j > k => saved[i][j].kind # "REVOKED" /\ saved[i][j].seen >= k
                 PROVE  rows[i].revokedAt = saved[i][k].by
      BY DEF RevocationStands
    <2>1. saved[i] \in Seq(Saved)
      BY DEF IInv, TypeInv, SavedType, Ids
    <2>2. DOMAIN saved[i] = 1 .. Len(saved[i])
      BY <2>1, LenProperties
    <2> QED
      BY <2>2 DEF IInv, Dated, Standing
  <1> QED
    BY <1>1, InductiveInvariant, PTL
-----------------------------------------------------------------------------
(* The count. Of a removal of several credentials that nobody has robbed,  *)
(* the one under way and those in its queue are there: what it deletes is  *)
(* at or above the one under way, which goes last, and older than those in *)
(* the queue. So each of them deletes something, and counts.               *)
Batch == [selected : SUBSET Nat, queue : Seq(Nat), count : Nat]
BatchType == batch \in [Call -> Batch]

\* The credential that a removal was called for.
Current(c) == IF chain[c] = <<>> THEN query[c] ELSE chain[c][1]

Downward(c) == \A k \in 1 .. Len(chain[c]) : k > 1 => chain[c][k] < chain[c][1]

OnCourse(c) ==
    LET b == batch[c]
    IN /\ Current(c) \in present \cap b.selected
       /\ \A k \in 1 .. Len(b.queue) :
             /\ b.queue[k] \in present \cap b.selected
             /\ Current(c) < b.queue[k]
             /\ \A j \in 1 .. k - 1 : b.queue[j] < b.queue[k]
       /\ b.count + 1 + Len(b.queue) = Cardinality(b.selected)

Counting(c) ==
    /\ Downward(c)
    /\ at[c] \in {"idle", "save"} => batch[c] = OneOnly
    /\ c \notin robbed /\ batch[c].selected # {} =>
          /\ Busy(c) => OnCourse(c)
          /\ at[c] = "done" => batch[c].count = Cardinality(batch[c].selected)

CountInv == BatchType /\ \A c \in Call : Counting(c)

\* The order of creation: a finite set of ids has one enumeration that goes up.
LEMMA CreatedInOrder ==
    ASSUME NEW S \in SUBSET Nat, IsFiniteSet(S)
    PROVE  /\ CreatedAtAsc(S) \in [1 .. Cardinality(S) -> S]
           /\ \A i, j \in 1 .. Cardinality(S) : i < j => CreatedAtAsc(S)[i] < CreatedAtAsc(S)[j]
  <1> DEFINE n == Cardinality(S)
             Below(x) == {y \in S : y <= x}
             rank == [x \in S |-> Cardinality(Below(x))]
  <1>0. \A x \in S : x \in Nat
    OBVIOUS
  <1>1. n \in Nat
    BY FS_CardinalityType
  <1>2. ASSUME NEW x \in S PROVE IsFiniteSet(Below(x)) /\ rank[x] \in Nat /\ rank[x] \in 1 .. n
    <2>1. IsFiniteSet(Below(x)) /\ Cardinality(Below(x)) <= n
      BY FS_Subset
    <2>2. Cardinality(Below(x)) \in Nat
      BY <2>1, FS_CardinalityType
    <2>3. x \in Below(x)
      OBVIOUS
    <2>4. Cardinality(Below(x)) # 0
      BY <2>1, <2>3, FS_EmptySet
    <2> QED
      BY <1>1, <2>1, <2>2, <2>4
  <1>3. ASSUME NEW x \in S, NEW y \in S, x < y PROVE rank[x] < rank[y]
    <2>1. Below(x) \in SUBSET Below(y)
      <3>1. \A z \in S : z <= x => z <= y
        BY <1>0, <1>3
      <3> QED
        BY <3>1
    <2>2. y \in Below(y) /\ y \notin Below(x)
      BY <1>0, <1>3
    <2>3. Cardinality(Below(x)) <= Cardinality(Below(y)) /\ Cardinality(Below(x)) # Cardinality(Below(y))
      BY <1>2, <2>1, <2>2, FS_Subset
    <2>4. /\ rank[x] \in Nat /\ rank[x] = Cardinality(Below(x))
          /\ rank[y] \in Nat /\ rank[y] = Cardinality(Below(y))
      BY <1>1, <1>2
    <2> HIDE DEF rank, Below
    <2> QED
      BY <2>3, <2>4
  <1> HIDE DEF rank, Below
  <1>4. rank \in Injection(S, 1 .. n)
    <2>1. rank \in [S -> 1 .. n]
      BY <1>2 DEF rank
    <2>2. ASSUME NEW x \in S, NEW y \in S, rank[x] = rank[y] PROVE x = y
      <3>1. x < y \/ y < x \/ x = y
        BY <1>0
      <3>2. rank[x] \in Int /\ rank[y] \in Int
        BY <1>2
      <3> QED
        BY <1>3, <2>2, <3>1, <3>2
    <2> QED
      BY <2>1, <2>2 DEF Injection, IsInjective
  <1>5. rank \in Surjection(S, 1 .. n)
    <2>1. IsFiniteSet(1 .. n) /\ Cardinality(1 .. n) = n
      BY <1>1, FS_Interval
    <2> QED
      BY <1>4, <2>1, FS_Injection
  <1> DEFINE s == [k \in 1 .. n |-> CHOOSE x \in S : rank[x] = k]
  <1>6. \A k \in 1 .. n : s[k] \in S /\ rank[s[k]] = k
    BY <1>5 DEF Surjection
  <1>7. s \in [1 .. n -> S]
    BY <1>6
  <1>8. \A i, j \in DOMAIN s : i < j => s[i] < s[j]
    <2> SUFFICES ASSUME NEW i \in 1 .. n, NEW j \in 1 .. n, i < j PROVE s[i] < s[j]
      OBVIOUS
    <2>1. s[i] \in S /\ s[j] \in S /\ rank[s[i]] = i /\ rank[s[j]] = j
      BY <1>6
    <2> HIDE DEF s
    <2>2. s[i] \in Nat /\ s[j] \in Nat
      BY <1>0, <2>1, Zenon
    <2>3. s[i] < s[j] \/ s[j] < s[i] \/ s[i] = s[j]
      BY <2>2
    <2>4. s[j] < s[i] => rank[s[j]] < rank[s[i]]
      BY <1>3, <2>1
    <2> QED
      BY <2>1, <2>3, <2>4
  <1> HIDE DEF s
  <1>9. CreatedAtAsc(S) \in [1 .. n -> S]
        /\ \A i, j \in DOMAIN CreatedAtAsc(S) : i < j => CreatedAtAsc(S)[i] < CreatedAtAsc(S)[j]
    BY <1>7, <1>8 DEF CreatedAtAsc
  <1> QED
    BY <1>9
LEMMA EmptyBatch == OneOnly \in Batch /\ OneOnly.selected = {}
  BY DEF OneOnly, Batch

\* How a batch goes on when one credential is done.
LEMMA FinishBatch ==
    ASSUME CallType, BatchType, NEW c \in Call, NEW any \in BOOLEAN, Finish(c, any)
    PROVE  LET b == batch[c]
               n == batch'[c]
           IN /\ BatchType' /\ \A d \in Call \ {c} : batch'[d] = batch[d]
              /\ n.selected = b.selected /\ n.count = IF any THEN b.count + 1 ELSE b.count
              /\ chain'[c] = <<>>
              /\ b.queue = <<>> => at'[c] = "done"
              /\ b.queue # <<>> => at'[c] = "find" /\ query'[c] = Head(b.queue) /\ n.queue = Tail(b.queue)
  <1> DEFINE b == batch[c]
             queue == IF b.queue = <<>> THEN b.queue ELSE Tail(b.queue)
             count == IF any THEN b.count + 1 ELSE b.count
  <1>1. b \in Batch /\ b.queue \in Seq(Nat) /\ b.count \in Nat
    BY DEF BatchType, Batch
  <1>2. queue \in Seq(Nat) /\ count \in Nat
    <2>1. b.queue # <<>> => Tail(b.queue) \in Seq(Nat)
      BY <1>1, HeadTailProperties
    <2> QED
      BY <1>1, <2>1
  <1>3. batch' = [batch EXCEPT ![c] = [b EXCEPT !.queue = queue, !.count = count]]
    BY DEF Finish, BatchType, Batch
  <1> DEFINE next == [b EXCEPT !.queue = queue, !.count = count]
  <1>4. next \in Batch /\ next.selected = b.selected /\ next.queue = queue /\ next.count = count
    <2> HIDE DEF queue, count
    <2> QED
      BY <1>1, <1>2 DEF Batch
  <1> HIDE DEF next, queue, count
  <1>5. /\ BatchType' /\ \A d \in Call \ {c} : batch'[d] = batch[d]
        /\ batch'[c].selected = b.selected /\ batch'[c].queue = queue /\ batch'[c].count = count
    <2>1. batch' = [batch EXCEPT ![c] = next]
      BY <1>3 DEF next
    <2> QED
      BY <1>4, <2>1 DEF BatchType
  <1>6. chain'[c] = <<>>
    BY DEF Finish, CallType
  <1>7. b.queue = <<>> => at'[c] = "done"
    BY DEF Finish, CallType
  <1>8. b.queue # <<>> => at'[c] = "find" /\ query'[c] = Head(b.queue)
    BY DEF Finish, CallType
  <1> QED
    BY <1>5, <1>6, <1>7, <1>8 DEF queue, count

\* What a step of another call leaves of a removal that it does not rob.
LEMMA BatchApart ==
    ASSUME TypeInv, Climbing, BatchType, NEW d \in Call, Step(d), NEW c \in Call \ {d}
    PROVE  /\ at'[c] = at[c] /\ chain'[c] = chain[c] /\ query'[c] = query[c] /\ batch'[c] = batch[c]
           /\ c \in robbed => c \in robbed'
           /\ c \notin robbed' /\ Busy(c) => present \cap batch[c].selected \subseteq present'
  <1> USE DEF TypeInv, CallType, BatchType
  <1>1. CASE UpdateCredentialState(d) \/ RemoveCredential(d)
    BY <1>1 DEF UpdateCredentialState, RemoveCredential, tableVars, removalVars, historyVars
  <1>2. CASE Save(d)
    BY <1>2 DEF Save, tableVars, removalVars
  <1>3. CASE DeleteCredentials(d)
    BY <1>3 DEF DeleteCredentials, tableVars, historyVars
  <1>4. ASSUME NEW any, Finish(d, any)
        PROVE  at'[c] = at[c] /\ chain'[c] = chain[c] /\ query'[c] = query[c] /\ batch'[c] = batch[c]
    BY <1>4 DEF Finish
  <1>5. CASE DeleteTree(d)
    <2>1. UNCHANGED <<present, robbed>>
      BY <1>5 DEF DeleteTree, tableVars, historyVars
    <2>2. ASSUME NEW i \in present, Climb(d, i)
          PROVE  at'[c] = at[c] /\ chain'[c] = chain[c] /\ query'[c] = query[c] /\ batch'[c] = batch[c]
      BY <2>2 DEF Climb
    <2> QED
      BY <1>4, <1>5, <2>1, <2>2 DEF DeleteTree, removalVars
  <1>6. CASE Delete(d)
    <2> DEFINE x == Last(chain[d])
    <2>1. at'[c] = at[c] /\ chain'[c] = chain[c] /\ query'[c] = query[c] /\ batch'[c] = batch[c]
      BY <1>4, <1>6 DEF Delete
    <2>2. /\ present' = present \ {x}
          /\ robbed' = robbed \cup {e \in Call \ {d} : Busy(e) /\ x \in batch[e].selected}
      BY <1>6 DEF Delete, ParentFirst
    <2> HIDE DEF x
    <2> QED
      BY <2>1, <2>2
  <1>7. CASE RemovalFails(d)
    BY <1>4, <1>7 DEF RemovalFails, tableVars
  <1> QED
    BY <1>1, <1>2, <1>3, <1>5, <1>6, <1>7 DEF Step

LEMMA CountingStays ==
    ASSUME TypeInv, BatchType, NEW c \in Call, Counting(c),
           at'[c] = at[c], chain'[c] = chain[c], query'[c] = query[c], batch'[c] = batch[c],
           c \in robbed => c \in robbed',
           c \notin robbed' /\ Busy(c) => present \cap batch[c].selected \subseteq present'
    PROVE  Counting(c)'
  <1>1. Downward(c)' /\ (at'[c] \in {"idle", "save"} => batch'[c] = OneOnly)
    BY DEF Counting, Downward
  <1>2. Current(c)' = Current(c)
    BY DEF Current
  <1>3. c \notin robbed' /\ Busy(c) /\ OnCourse(c) => OnCourse(c)'
    BY <1>2 DEF OnCourse
  <1> QED
    BY <1>1, <1>3 DEF Counting, Busy
\* What is found is a row that was given an id, which is no document.
LEMMA FoundIs ==
    ASSUME TypeInv, NEW q, q \in Nat \cup {None}
    PROVE  Found(q) = present \cap {q} /\ present \subseteq Nat
  <1>1. \A i \in present : i \in Nat /\ rows[i] \in Row
    BY LenProperties DEF TypeInv, TableType, Ids
  <1>2. \A i \in present : rows[i].doc # q
    BY <1>1 DEF Row
  <1> QED
    BY <1>1, <1>2 DEF Found

LEMMA BatchBegins ==
    ASSUME TypeInv, Climbing, BatchType, NEW c \in Call, Counting(c), DeleteCredentials(c)
    PROVE  BatchType' /\ Counting(c)'
  <1> PICK S \in SUBSET present :
              /\ S # {}
              /\ query' = [query EXCEPT ![c] = Head(CreatedAtAsc(S))]
              /\ batch' = [batch EXCEPT ![c] =
                             [selected |-> S, queue |-> Tail(CreatedAtAsc(S)), count |-> 0]]
    BY DEF DeleteCredentials
  <1> DEFINE ids == CreatedAtAsc(S)
             n == Cardinality(S)
  <1>1. S \in SUBSET Nat /\ IsFiniteSet(S) /\ n \in Nat \ {0}
    <2>1. S \in SUBSET (1 .. Len(rows)) /\ Len(rows) \in Nat
      BY LenProperties DEF TypeInv, TableType, Ids
    <2>2. IsFiniteSet(S)
      <3>1. IsFiniteSet(1 .. Len(rows))
        BY <2>1, FS_Interval
      <3> QED
        BY <2>1, <3>1, FS_Subset
    <2>3. n \in Nat /\ n # 0
      <3>1. S # {}
        OBVIOUS
      <3>2. Cardinality(S) # 0
        BY <2>2, <3>1, FS_EmptySet
      <3> QED
        BY <2>2, <3>2, FS_CardinalityType
    <2>4. \A i \in S : i \in Nat
      BY <2>1
    <2> HIDE DEF n
    <2> QED
      BY <2>2, <2>3, <2>4
  <1>2. ids \in [1 .. n -> S] /\ \A i, j \in 1 .. n : i < j => ids[i] < ids[j]
    BY <1>1, CreatedInOrder
  <1> HIDE DEF ids, n
  <1>3. /\ ids \in Seq(S) /\ Len(ids) = n /\ ids # <<>>
        /\ Head(ids) = ids[1] /\ Tail(ids) \in Seq(Nat) /\ Len(Tail(ids)) = n - 1
        /\ \A k \in 1 .. n - 1 : Tail(ids)[k] = ids[k + 1]
    <2>1. ids \in Seq(S) /\ Len(ids) = n
      BY <1>1, <1>2
    <2>2. ids # <<>>
      BY <1>1, <2>1, EmptySeq
    <2>3. ids \in Seq(Nat)
      <3>1. ids \in [1 .. n -> Nat]
        BY <1>1, <1>2
      <3> QED
        BY <1>1, <3>1
    <2> QED
      BY <2>1, <2>2, <2>3, HeadTailProperties
  <1> DEFINE b == [selected |-> S, queue |-> Tail(ids), count |-> 0]
  <1>4. /\ b \in Batch /\ batch'[c] = b /\ BatchType'
        /\ b.selected = S /\ b.queue = Tail(ids) /\ b.count = 0
    BY <1>1, <1>3 DEF Batch, BatchType, ids
  <1> HIDE DEF b
  <1>5. at'[c] = "find" /\ chain'[c] = <<>> /\ query'[c] = ids[1] /\ UNCHANGED <<present, robbed>>
    BY <1>3 DEF DeleteCredentials, Climbing, ClimbingAt, TypeInv, CallType, tableVars, historyVars, ids
  <1>6. OnCourse(c)'
    <2>1. Current(c)' = ids[1]
      BY <1>5 DEF Current
    <2>2. batch'[c].selected = S /\ batch'[c].queue = Tail(ids) /\ batch'[c].count = 0
      BY <1>4
    <2>3. \A k \in 1 .. n : ids[k] \in present /\ ids[k] \in S
      BY <1>2
    <2>4. \A k \in 1 .. n - 1 :
             /\ Tail(ids)[k] \in present \cap S /\ ids[1] < Tail(ids)[k]
             /\ \A j \in 1 .. k - 1 : Tail(ids)[j] < Tail(ids)[k]
      BY <1>1, <1>2, <1>3, <2>3
    <2>5. 0 + 1 + Len(Tail(ids)) = Cardinality(S)
      BY <1>1, <1>3 DEF n
    <2>6. ids[1] \in present' \cap S /\ 1 .. Len(Tail(ids)) = 1 .. n - 1
      BY <1>1, <1>3, <1>5, <2>3
    <2> QED
      BY <1>5, <2>1, <2>2, <2>4, <2>5, <2>6 DEF OnCourse
  <1>7. Downward(c)'
    BY <1>5, EmptySeq DEF Downward
  <1> QED
    BY <1>4, <1>5, <1>6, <1>7 DEF Counting

\* The end of a chain, which is at or below its beginning.
LEMMA EndOfChain ==
    ASSUME TypeInv, NEW c \in Call, chain[c] # <<>>, Downward(c)
    PROVE  /\ Len(chain[c]) \in Nat \ {0} /\ Last(chain[c]) = chain[c][Len(chain[c])]
           /\ Last(chain[c]) \in Nat /\ Last(chain[c]) \in Ids /\ chain[c][1] \in Nat
           /\ Last(chain[c]) <= chain[c][1]
           /\ Len(chain[c]) > 1 => Last(chain[c]) < chain[c][1]
  <1>1. Len(chain[c]) \in Nat \ {0} /\ chain[c] \in Seq(Nat)
    BY EmptySeq, LenProperties DEF TypeInv, CallType
  <1>2. \A k \in 1 .. Len(chain[c]) : chain[c][k] \in Nat /\ chain[c][k] \in Ids
    BY <1>1, ElementOfSeq DEF TypeInv, CallType
  <1> QED
    BY <1>1, <1>2 DEF Last, Downward

LEMMA TreeCounts ==
    ASSUME TypeInv, Climbing, BatchType, NEW c \in Call, Counting(c), DeleteTree(c)
    PROVE  BatchType' /\ Counting(c)'
  <1>1. at[c] = "find" /\ UNCHANGED <<present, robbed>> /\ Busy(c)
    BY DEF DeleteTree, tableVars, historyVars, Busy
  <1> DEFINE b == batch[c]
             Followed == c \notin robbed /\ b.selected # {}
  <1>2. Followed => OnCourse(c)
    BY <1>1 DEF Counting
  <1>3. ASSUME NEW i \in present, Climb(c, i) PROVE BatchType' /\ Counting(c)'
    <2>1. /\ chain' = [chain EXCEPT ![c] = Append(chain[c], i)] /\ UNCHANGED batch
          /\ at'[c] \in {"find", "delete"} /\ i \in Found(query[c])
      BY <1>3 DEF Climb, TypeInv, CallType
    <2>2. chain'[c] = Append(chain[c], i) /\ chain[c] \in Seq(Nat) /\ i \in Nat
      BY <2>1, LenProperties DEF TypeInv, CallType, TableType, Ids
    <2>3. CASE chain[c] = <<>>
      <3>1. chain'[c] = <<i>>
        BY <2>2, <2>3
      <3>2. Downward(c)' /\ Current(c)' = i
        BY <3>1 DEF Downward, Current
      <3>3. Followed => i = Current(c)
        <4> SUFFICES ASSUME Followed PROVE i = Current(c)
          OBVIOUS
        <4>1. query[c] = Current(c) /\ query[c] \in present
          BY <1>2, <2>3 DEF Current, OnCourse
        <4>2. query[c] \in Nat
          <5>1. present \subseteq 1 .. Len(rows) /\ Len(rows) \in Nat
            BY LenProperties DEF TypeInv, TableType, Ids
          <5>2. \A k \in 1 .. Len(rows) : k \in Nat
            BY <5>1
          <5> QED
            BY <4>1, <5>1, <5>2, Zenon
        <4> QED
          BY <2>1, <4>1, <4>2, FoundIs
      <3>4. Followed => OnCourse(c)'
        BY <1>1, <1>2, <2>1, <3>2, <3>3 DEF OnCourse
      <3> QED
        BY <1>1, <2>1, <3>2, <3>4 DEF Counting, BatchType
    <2>4. CASE chain[c] # <<>>
      <3> DEFINE n == Len(chain[c])
      <3>1. /\ n \in Nat \ {0} /\ Last(chain[c]) \in Ids /\ Last(chain[c]) \in Nat
            /\ chain[c][1] \in Nat /\ Last(chain[c]) <= chain[c][1] /\ Downward(c)
        BY <2>4, EndOfChain DEF Counting
      <3>2. query[c] = rows[Last(chain[c])].parent /\ rows[Last(chain[c])] \in Row
        BY <1>1, <2>4, <3>1 DEF Climbing, ClimbingAt, TypeInv, TableType, Ids
      <3>3. query[c] \in Nat \cup {None}
        BY <3>2 DEF Row
      <3>4. i = query[c]
        BY <2>1, <3>3, FoundIs
      <3>5. i < Last(chain[c])
        BY <2>2, <3>1, <3>2, <3>4 DEF TypeInv, TableType, Ids
      <3>6. i < chain[c][1]
        BY <2>2, <3>1, <3>5
      <3>7. /\ Len(chain'[c]) = n + 1 /\ chain'[c][n + 1] = i
            /\ \A k \in 1 .. n : chain'[c][k] = chain[c][k]
        BY <2>2
      <3>8. Downward(c)' /\ chain'[c][1] = chain[c][1] /\ chain'[c] # <<>>
        BY <3>1, <3>6, <3>7, EmptySeq DEF Downward
      <3>9. Current(c)' = Current(c)
        BY <2>4, <3>8 DEF Current
      <3>10. Followed => OnCourse(c)'
        BY <1>1, <1>2, <2>1, <3>9 DEF OnCourse
      <3> QED
        BY <1>1, <2>1, <3>8, <3>10 DEF Counting, BatchType
    <2> QED
      BY <2>3, <2>4
  <1>4. CASE Found(query[c]) = {} /\ chain[c] = <<>> /\ Finish(c, FALSE)
    <2>1. ~Followed
      <3> SUFFICES ASSUME Followed PROVE FALSE
        OBVIOUS
      <3>1. query[c] \in present
        BY <1>2, <1>4 DEF OnCourse, Current
      <3> QED
        BY <1>4, <3>1 DEF Found
    <2>2. BatchType' /\ batch'[c].selected = b.selected /\ chain'[c] = <<>> /\ at'[c] \in {"find", "done"}
      BY <1>4, FinishBatch DEF TypeInv
    <2>3. Downward(c)'
      BY <2>2, EmptySeq DEF Downward
    <2> QED
      BY <1>1, <2>1, <2>2, <2>3 DEF Counting
  <1>5. CASE at' = [at EXCEPT ![c] = "delete"] /\ UNCHANGED removalVars
    <2>1. at'[c] = "delete" /\ UNCHANGED <<query, chain, batch>>
      BY <1>5 DEF removalVars, TypeInv, CallType
    <2>2. Downward(c)' /\ (Followed => OnCourse(c)')
      BY <1>1, <1>2, <2>1 DEF Counting, Downward, OnCourse, Current
    <2> QED
      BY <1>1, <2>1, <2>2 DEF Counting, BatchType
  <1> QED
    BY <1>3, <1>4, <1>5 DEF DeleteTree
\* What a batch is for is older than what is in its queue, and goes before it.
LEMMA NextInQueue ==
    ASSUME BatchType, NEW c \in Call, OnCourse(c), batch[c].queue # <<>>
    PROVE  LET q == batch[c].queue
           IN /\ Head(q) = q[1] /\ Len(q) \in Nat \ {0}
              /\ Len(Tail(q)) = Len(q) - 1 /\ \A k \in 1 .. Len(q) - 1 : Tail(q)[k] = q[k + 1]
              /\ \A k \in 1 .. Len(q) : q[k] \in Nat
  <1> DEFINE q == batch[c].queue
  <1>1. q \in Seq(Nat)
    BY DEF BatchType, Batch
  <1>2. \A k \in 1 .. Len(q) : q[k] \in Nat
    BY <1>1, ElementOfSeq
  <1> HIDE DEF q
  <1>3. q # <<>> => /\ Head(q) = q[1] /\ Len(q) \in Nat \ {0}
                    /\ Len(Tail(q)) = Len(q) - 1 /\ \A k \in 1 .. Len(q) - 1 : Tail(q)[k] = q[k + 1]
    BY <1>1, EmptySeq, HeadTailProperties, LenProperties
  <1> QED
    BY <1>2, <1>3 DEF q

LEMMA DeleteCounts ==
    ASSUME TypeInv, Climbing, BatchType, NEW c \in Call, Counting(c), Delete(c)
    PROVE  BatchType' /\ Counting(c)'
  <1> DEFINE b == batch[c]
             x == Last(chain[c])
             Followed == c \notin robbed /\ b.selected # {}
  <1>1. at[c] = "delete" /\ Busy(c) /\ Downward(c) /\ chain[c] # <<>>
    BY DEF Delete, Busy, Counting, Climbing, ClimbingAt
  <1>2. /\ Len(chain[c]) \in Nat \ {0} /\ x = chain[c][Len(chain[c])] /\ x \in Nat
        /\ chain[c][1] \in Nat /\ x <= chain[c][1]
        /\ (Len(chain[c]) > 1 => x < chain[c][1])
    BY <1>1, EndOfChain
  <1>3. Followed => OnCourse(c)
    BY <1>1 DEF Counting
  <1>4. Current(c) = chain[c][1]
    BY <1>1 DEF Current
  <1>5. present' = present \ {x} /\ (c \in robbed' <=> c \in robbed)
    BY DEF Delete, ParentFirst
  <1>6. /\ Front(chain[c]) \in Seq(Nat) /\ Len(Front(chain[c])) = Len(chain[c]) - 1
        /\ \A k \in 1 .. Len(chain[c]) - 1 : Front(chain[c])[k] = chain[c][k]
    BY <1>1, FrontOf DEF TypeInv, CallType
  <1>7. b \in Batch /\ b.queue \in Seq(Nat) /\ b.count \in Nat /\ Len(b.queue) \in Nat
    BY LenProperties DEF BatchType, Batch
  <1> HIDE DEF x
  <1>8. Followed => \A k \in 1 .. Len(b.queue) : b.queue[k] \in present' \cap b.selected
    <2> SUFFICES ASSUME Followed, NEW k \in 1 .. Len(b.queue) PROVE b.queue[k] \in present' \cap b.selected
      OBVIOUS
    <2>1. b.queue[k] \in present \cap b.selected /\ chain[c][1] < b.queue[k]
      BY <1>3, <1>4 DEF OnCourse
    <2>2. b.queue[k] \in Nat
      BY <1>7, ElementOfSeq
    <2> HIDE DEF b
    <2>3. b.queue[k] # x
      BY <1>2, <2>1, <2>2
    <2> QED
      BY <1>5, <2>1, <2>3
  <1>9. CASE /\ Front(chain[c]) # <<>>
             /\ chain' = [chain EXCEPT ![c] = Front(chain[c])]
             /\ UNCHANGED <<at, query, batch>>
    <2>1. chain'[c] = Front(chain[c]) /\ Len(chain[c]) > 1
      BY <1>2, <1>6, <1>9, EmptySeq DEF TypeInv, CallType
    <2>2. chain'[c][1] = chain[c][1] /\ chain'[c] # <<>>
      BY <1>2, <1>6, <1>9, <2>1
    <2>3. Current(c)' = Current(c)
      BY <1>4, <2>2 DEF Current
    <2>4. Downward(c)'
      <3> SUFFICES ASSUME NEW k \in 1 .. Len(chain[c]) - 1, k > 1 PROVE chain'[c][k] < chain'[c][1]
        BY <1>6, <2>1 DEF Downward
      <3>1. chain'[c][k] = chain[c][k] /\ k \in 1 .. Len(chain[c])
        BY <1>2, <1>6, <2>1
      <3> QED
        BY <1>1, <2>2, <3>1 DEF Downward
    <2>5. Followed => chain[c][1] \in present'
      BY <1>2, <1>3, <1>4, <1>5, <2>1 DEF OnCourse
    <2>6. Followed => OnCourse(c)'
      BY <1>3, <1>4, <1>8, <1>9, <2>3, <2>5 DEF OnCourse
    <2> QED
      BY <1>1, <1>5, <1>9, <2>4, <2>6 DEF Counting, Busy, BatchType
  <1>10. ASSUME NEW any \in BOOLEAN, Followed => any, Front(chain[c]) = <<>>, Finish(c, any)
         PROVE  BatchType' /\ Counting(c)'
    <2> DEFINE n == batch'[c]
    <2>1. /\ BatchType' /\ n.selected = b.selected /\ n.count = IF any THEN b.count + 1 ELSE b.count
          /\ chain'[c] = <<>> /\ (b.queue = <<>> => at'[c] = "done")
          /\ (b.queue # <<>> => at'[c] = "find" /\ query'[c] = Head(b.queue) /\ n.queue = Tail(b.queue))
      BY <1>10, FinishBatch DEF TypeInv
    <2>2. Downward(c)'
      BY <2>1, EmptySeq DEF Downward
    <2>3. Followed /\ b.queue = <<>> => n.count = Cardinality(n.selected)
      <3> SUFFICES ASSUME Followed, b.queue = <<>> PROVE n.count = Cardinality(n.selected)
        OBVIOUS
      <3>1. b.count + 1 + Len(b.queue) = Cardinality(b.selected) /\ Len(b.queue) = 0
        BY <1>3, EmptySeq DEF OnCourse
      <3>2. n.count = b.count + 1
        BY <1>10, <2>1
      <3> QED
        BY <1>7, <2>1, <3>1, <3>2
    <2>4. Followed /\ b.queue # <<>> => OnCourse(c)'
      <3> SUFFICES ASSUME Followed, b.queue # <<>> PROVE OnCourse(c)'
        OBVIOUS
      <3> DEFINE q == b.queue
      <3>1. /\ Head(q) = q[1] /\ Len(q) \in Nat \ {0} /\ Len(Tail(q)) = Len(q) - 1
            /\ \A k \in 1 .. Len(q) - 1 : Tail(q)[k] = q[k + 1]
        BY <1>3, NextInQueue
      <3>2. /\ Current(c)' = q[1] /\ n.queue = Tail(q) /\ n.count = b.count + 1 /\ n.selected = b.selected
        BY <1>10, <2>1, <3>1 DEF Current
      <3>3. \A k \in 1 .. Len(q) : \A j \in 1 .. k - 1 : q[j] < q[k]
        BY <1>3 DEF OnCourse
      <3>4. b.count + 1 + Len(q) = Cardinality(b.selected)
        BY <1>3 DEF OnCourse
      <3>5. \A k \in 1 .. Len(q) : q[k] \in present' \cap b.selected
        BY <1>8
      <3> HIDE DEF q
      <3>6. \A k \in 1 .. Len(Tail(q)) :
               /\ Tail(q)[k] \in present' \cap b.selected /\ q[1] < Tail(q)[k]
               /\ \A j \in 1 .. k - 1 : Tail(q)[j] < Tail(q)[k]
        BY <3>1, <3>3, <3>5
      <3>7. q[1] \in present' \cap b.selected
        BY <3>1, <3>5
      <3>8. (b.count + 1) + 1 + Len(Tail(q)) = Cardinality(b.selected)
        BY <1>7, <3>1, <3>4
      <3> QED
        BY <3>2, <3>6, <3>7, <3>8 DEF OnCourse
    <2> QED
      BY <1>5, <2>1, <2>2, <2>3, <2>4 DEF Counting, Busy
  <1>11. CASE Front(chain[c]) = <<>> /\ Finish(c, affected[c] \/ x \in present)
    <2>1. Followed => x \in present
      <3>1. Len(chain[c]) = 1
        BY <1>2, <1>6, <1>11, EmptySeq
      <3>2. x = chain[c][1]
        BY <1>2, <3>1
      <3> QED
        BY <1>3, <1>4, <3>2 DEF OnCourse
    <2>2. (affected[c] \/ x \in present) \in BOOLEAN
      OBVIOUS
    <2> QED
      BY <1>10, <1>11, <2>1, <2>2
  <1> QED
    BY <1>9, <1>11 DEF Delete, ParentFirst, x

LEMMA CountInit == Init => CountInv
  <1> SUFFICES ASSUME Init PROVE CountInv
    OBVIOUS
  <1>1. BatchType
    BY EmptyBatch DEF Init, BatchType
  <1> QED
    BY <1>1, EmptyBatch, EmptySeq DEF Init, CountInv, Counting, Downward, Busy

LEMMA CountStep == TypeInv /\ Climbing /\ CountInv /\ [Next]_vars => CountInv'
  <1> SUFFICES ASSUME TypeInv, Climbing, CountInv, [Next]_vars PROVE CountInv'
    OBVIOUS
  <1>1. BatchType /\ \A c \in Call : Counting(c)
    BY DEF CountInv
  <1>2. CASE AddCredential \/ UNCHANGED vars
    <2>1. UNCHANGED <<at, removalVars, robbed>> /\ present \subseteq present'
      BY <1>2 DEF AddCredential, vars, tableVars, historyVars
    <2> QED
      BY <1>1, <2>1, CountingStays DEF CountInv, BatchType, removalVars
  <1>3. ASSUME NEW c \in Call, Step(c) PROVE CountInv'
    <2>1. BatchType' /\ Counting(c)'
      <3>1. CASE UpdateCredentialState(c) \/ Save(c)
        <4>1. /\ at[c] \in {"idle", "save"} /\ at'[c] \in {"save", "done"}
              /\ (at'[c] = "save" => at[c] = "idle") /\ UNCHANGED <<chain, batch>>
          BY <3>1 DEF UpdateCredentialState, Save, removalVars, TypeInv, CallType
        <4>2. batch'[c] = OneOnly /\ batch'[c].selected = {}
          BY <1>1, <4>1, EmptyBatch DEF Counting
        <4>3. Downward(c)' /\ BatchType'
          BY <1>1, <4>1 DEF Counting, Downward, BatchType
        <4> QED
          BY <4>1, <4>2, <4>3 DEF Counting, Busy
      <3>2. CASE RemoveCredential(c)
        <4>1. at[c] = "idle" /\ at'[c] = "find" /\ UNCHANGED <<chain, batch>>
          BY <3>2 DEF RemoveCredential, TypeInv, CallType
        <4>2. batch'[c] = OneOnly /\ batch'[c].selected = {}
          BY <1>1, <4>1, EmptyBatch DEF Counting
        <4>3. Downward(c)' /\ BatchType'
          BY <1>1, <4>1 DEF Counting, Downward, BatchType
        <4> QED
          BY <4>1, <4>2, <4>3 DEF Counting
      <3>3. CASE RemovalFails(c)
        <4>1. Finish(c, FALSE) /\ c \in robbed'
          BY <3>3 DEF RemovalFails
        <4>2. BatchType' /\ chain'[c] = <<>> /\ at'[c] \in {"find", "done"}
          BY <1>1, <4>1, FinishBatch DEF TypeInv
        <4>3. Downward(c)'
          BY <4>2, EmptySeq DEF Downward
        <4> QED
          BY <4>1, <4>2, <4>3 DEF Counting
      <3> QED
        BY <1>1, <1>3, <3>1, <3>2, <3>3, BatchBegins, TreeCounts, DeleteCounts DEF Step
    <2>2. ASSUME NEW d \in Call \ {c} PROVE Counting(d)'
      BY <1>1, <1>3, <2>2, BatchApart, CountingStays
    <2> QED
      BY <2>1, <2>2 DEF CountInv
  <1> QED
    BY <1>2, <1>3 DEF Next

(* A removal of several credentials answers with their number, for any     *)
(* number of them and trees of any depth, also where one is the parent of  *)
(* another, unless a step of it failed or another removal took one of them *)
(* (deleteCredentials, in the order of creation).                          *)
THEOREM CountsAlways == Spec => []CountIsExact
  <1>1. CountInv => CountIsExact
    BY DEF CountInv, Counting, CountIsExact
  <1>2. IInv => TypeInv /\ Climbing
    BY DEF IInv
  <1> QED
    BY <1>1, <1>2, CountInit, CountStep, InductiveInvariant, PTL DEF Spec
=============================================================================
