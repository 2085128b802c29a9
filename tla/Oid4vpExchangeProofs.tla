------------------------ MODULE Oid4vpExchangeProofs ------------------------
(***************************************************************************)
(* Theorems about Oid4vpExchange, for any requests, runs, editors, scenes  *)
(* and tables of definitions. The proofs follow the parts of the system:   *)
(* the editors and their table, the verifier, the wallet; then what holds  *)
(* between them.                                                           *)
(***************************************************************************)
EXTENDS Oid4vpExchange, FiniteSetTheorems, TLAPS

USE DefinitionAssumption, PartyAssumption, ExchangeAssumption

(* The editors. The number of the row that a call will add is its own: no  *)
(* row has it, and no row that another call has read.                      *)
EditorCall == [at : {"idle", "latest", "write", "save"}, mode : Mode \cup {None},
               version : Named \cup {None}, payload : Payload \cup {None}, row : 0 .. Edits,
               existing : Item \cup {None}, latest : Item \cup {None}, alone : BOOLEAN]

EditorsType ==
    /\ items \subseteq Item /\ IsFiniteSet(items)
    /\ editor \in [Editor -> EditorCall]
    /\ edited \in 0 .. Edits /\ changes \in 0 .. edited

\* The row x, if it is one, was begun by another call than one with row number n.
Other(x, n) == x # None => x.id # n
Begun(x) == x # None => x.id <= edited

Rows ==
    /\ \A i, j \in items : i.id = j.id => i = j
    /\ \A i \in items : Begun(i)
    /\ \A e \in Editor : Begun(editor[e].existing) /\ Begun(editor[e].latest)

OwnRow(e) ==
    LET c == editor[e] IN
    c.at # "idle" =>
        /\ c.row \in 1 .. edited /\ c.payload \in Payload /\ c.mode \in Mode
        /\ c.at = "save" => Target(c) # None
        /\ \A i \in items : Other(i, c.row)
        /\ \A f \in Editor :
              /\ f # e /\ editor[f].at # "idle" => editor[f].row # c.row
              /\ Other(editor[f].existing, c.row) /\ Other(editor[f].latest, c.row)

Busy == {e \in Editor : editor[e].at # "idle"}

\* Every edit writes the table once, at most.
Counted == IsFiniteSet(Busy) /\ changes + Cardinality(Busy) <= edited

EditorsInv == EditorsType /\ Rows /\ Counted /\ \A e \in Editor : OwnRow(e)

\* The steps of the editors, as the verifier and the wallet see them.
Editing ==
    \/ \E e \in Editor : Maintain(e)
    \/ \E e \in Editor, m \in Mode, v \in {None} \cup Named, p \in Payload : BeginPersist(e, m, v, p)
    \/ DeleteDefinition
-----------------------------------------------------------------------------
LEMMA TwoElements ==
    ASSUME NEW x, NEW y, x # y PROVE IsFiniteSet({x, y}) /\ Cardinality({x, y}) = 2
  <1>1. IsFiniteSet({x}) /\ Cardinality({x}) = 1
    BY FS_Singleton
  <1>2. {x, y} = {x} \cup {y} /\ y \notin {x}
    OBVIOUS
  <1>3. \A S : IsFiniteSet(S) /\ y \notin S =>
                  IsFiniteSet(S \cup {y}) /\ Cardinality(S \cup {y}) = Cardinality(S) + 1
    BY FS_AddElement
  <1>4. IsFiniteSet({x, y}) /\ Cardinality({x, y}) = Cardinality({x}) + 1
    BY <1>1, <1>2, <1>3, Zenon
  <1> QED
    BY <1>1, <1>4

\* What LatestOf answers, of whatever rows.
LEMMA LatestIsOne ==
    ASSUME NEW S, NEW x \in LatestOf(S) PROVE x = None \/ x \in S
  BY DEF LatestOf

LEMMA TargetIsRead ==
    ASSUME NEW c \in EditorCall PROVE Target(c) \in {None, c.existing, c.latest}
  BY DEF Target, EditorCall

LEMMA NoCallType == NoCall \in EditorCall
  BY DEF NoCall, EditorCall

LEMMA VersionIsNumber ==
    ASSUME NEW c \in EditorCall PROVE NewVersion(c) \in Nat \ {0}
  BY DEF NewVersion, EditorCall, Item

LEMMA EditorsInit == Init => EditorsInv
  <1> SUFFICES ASSUME Init PROVE EditorsInv
    OBVIOUS
  <1>1. items \in Tables /\ editor = [e \in Editor |-> NoCall] /\ edited = 0 /\ changes = 0
    BY DEF Init, InitDefinitions
  <1>2. items \subseteq [id : {0}, version : 1 .. MaxVersion, payload : Payload]
    BY <1>1
  <1>3. EditorsType
    BY <1>1, <1>2, NoCallType DEF EditorsType, Item
  <1>4. Busy = {}
    BY <1>1 DEF Busy, NoCall
  <1>5. Counted
    BY <1>1, <1>4, FS_EmptySet DEF Counted
  <1>6. \A i, j \in items : i = j
    <2>1. IsFiniteSet(items) /\ Cardinality(items) <= 1
      BY <1>1
    <2> SUFFICES ASSUME NEW i \in items, NEW j \in items, i # j PROVE FALSE
      OBVIOUS
    <2>2. IsFiniteSet({i, j}) /\ Cardinality({i, j}) = 2
      BY TwoElements
    <2>3. {i, j} \subseteq items
      OBVIOUS
    <2>4. Cardinality({i, j}) <= Cardinality(items)
      BY <2>1, <2>3, FS_Subset
    <2> QED
      BY <2>1, <2>2, <2>4, FS_CardinalityType
  <1>7. Rows
    BY <1>1, <1>2, <1>6 DEF Rows, Begun, NoCall
  <1> QED
    BY <1>1, <1>3, <1>5, <1>7 DEF EditorsInv, OwnRow, NoCall

\* A call of an editor ends, or goes on with what it has read.
LEMMA BusyShrinks ==
    ASSUME EditorsType, Counted, EditorsType', Busy' \subseteq Busy, edited' = edited,
           \/ changes' = changes
           \/ changes' = changes + 1 /\ \E e \in Busy : e \notin Busy'
    PROVE  Counted'
  <1>1. IsFiniteSet(Busy) /\ Cardinality(Busy) \in Nat /\ edited \in Nat /\ changes \in Nat
    BY FS_CardinalityType DEF Counted, EditorsType
  <1>2. IsFiniteSet(Busy') /\ Cardinality(Busy') \in Nat /\ Cardinality(Busy') <= Cardinality(Busy)
    BY <1>1, FS_Subset, FS_CardinalityType
  <1>3. CASE changes' = changes
    BY <1>1, <1>2, <1>3 DEF Counted
  <1>4. ASSUME NEW e \in Busy, e \notin Busy', changes' = changes + 1 PROVE Counted'
    <2>1. Busy' \subseteq Busy \ {e}
      BY <1>4
    <2>2. IsFiniteSet(Busy \ {e}) /\ Cardinality(Busy \ {e}) = Cardinality(Busy) - 1
      BY <1>1, <1>4, FS_RemoveElement
    <2>3. Cardinality(Busy') <= Cardinality(Busy \ {e})
      BY <2>1, <2>2, FS_Subset
    <2> QED
      BY <1>1, <1>2, <1>4, <2>2, <2>3 DEF Counted
  <1> QED
    BY <1>3, <1>4

\* A call that ends leaves the other calls what they have.
LEMMA ReturnKeeps ==
    ASSUME EditorsInv, NEW e \in Busy, Return(e), edited' = edited, changes' \in {changes, changes + 1},
           items' \subseteq Item, IsFiniteSet(items'),
           \A i, j \in items' : i.id = j.id => i = j,
           \A i \in items' : i.id <= edited,
           \A i \in items' : \A f \in Busy \ {e} : i.id # editor[f].row
    PROVE  EditorsInv'
  <1> USE DEF EditorsInv
  <1>1. e \in Editor /\ editor[e].at # "idle"
    BY DEF Busy
  <1>2. editor' = [editor EXCEPT ![e] = NoCall]
    BY DEF Return
  <1>3. /\ editor'[e] = NoCall /\ NoCall.at = "idle" /\ NoCall.existing = None /\ NoCall.latest = None
        /\ \A f \in Editor \ {e} : editor'[f] = editor[f]
    BY <1>1, <1>2 DEF EditorsType, NoCall
  <1>4. EditorsType /\ editor' \in [Editor -> EditorCall]
    BY <1>1, <1>2, NoCallType DEF EditorsType
  <1>5. edited \in Nat /\ changes \in Nat
    BY DEF EditorsType
  <1>6. Busy' = Busy \ {e}
    BY <1>1, <1>3 DEF Busy
  <1>7. IsFiniteSet(Busy) /\ Cardinality(Busy) \in Nat /\ Cardinality(Busy \ {e}) = Cardinality(Busy) - 1
        /\ IsFiniteSet(Busy \ {e}) /\ Cardinality(Busy \ {e}) \in Nat
    BY FS_CardinalityType, FS_RemoveElement DEF Counted
  <1>8. changes' + Cardinality(Busy') <= edited
    BY <1>5, <1>6, <1>7 DEF Counted
  <1>9. EditorsType' /\ Counted'
    BY <1>4, <1>5, <1>6, <1>7, <1>8 DEF EditorsType, Counted
  <1>10. Rows'
    BY <1>3 DEF Rows, Begun
  <1>11. ASSUME NEW f \in Editor PROVE OwnRow(f)'
    <2>1. CASE f = e
      BY <1>3, <2>1 DEF OwnRow
    <2>2. CASE f # e /\ editor[f].at = "idle"
      BY <1>3, <2>2 DEF OwnRow
    <2>3. CASE f # e /\ editor[f].at # "idle"
      <3>1. f \in Busy \ {e} /\ OwnRow(f) /\ editor'[f] = editor[f]
        BY <1>3, <2>3 DEF Busy
      <3>2. Target(editor'[f]) = Target(editor[f])
        BY <3>1
      <3> QED
        BY <1>3, <2>3, <3>1, <3>2 DEF OwnRow, Other
    <2> QED
      BY <2>1, <2>2, <2>3
  <1> QED
    BY <1>9, <1>10, <1>11

\* A call that goes on with the row x it has found.
LEMMA GoesOnKeeps ==
    ASSUME EditorsInv, NEW e \in Busy, NEW c \in EditorCall, NEW x,
           editor' = [editor EXCEPT ![e] = c], UNCHANGED <<items, edited, changes>>,
           c.at # "idle", c.row = editor[e].row, c.payload = editor[e].payload, c.mode = editor[e].mode,
           c.at = "save" => Target(c) # None,
           c.existing = editor[e].existing, c.latest \in {editor[e].latest, x},
           x = None \/ x \in items
    PROVE  EditorsInv'
  <1> USE DEF EditorsInv
  <1>1. e \in Editor /\ editor[e].at # "idle"
    BY DEF Busy
  <1>2. editor'[e] = c /\ \A f \in Editor \ {e} : editor'[f] = editor[f]
    BY <1>1 DEF EditorsType
  <1>3. EditorsType'
    BY <1>1 DEF EditorsType
  <1>4. Busy' = Busy
    BY <1>1, <1>2 DEF Busy
  <1>5. Counted'
    BY <1>4 DEF Counted
  <1>6. Begun(c.existing) /\ Begun(c.latest)
    BY <1>1 DEF Rows, Begun
  <1>7. Rows'
    BY <1>2, <1>6 DEF Rows, Begun
  <1>8. ASSUME NEW f \in Editor, editor[f].at # "idle"
        PROVE  Other(c.existing, editor[f].row) /\ Other(c.latest, editor[f].row)
    BY <1>1, <1>8 DEF OwnRow, Other
  <1>9. ASSUME NEW f \in Editor PROVE OwnRow(f)'
    <2>1. CASE f = e
      <3>1. OwnRow(e)
        BY <1>1
      <3> QED
        BY <1>1, <1>2, <1>8, <2>1, <3>1 DEF OwnRow, Other
    <2>2. CASE f # e /\ editor[f].at = "idle"
      BY <1>2, <2>2 DEF OwnRow
    <2>3. CASE f # e /\ editor[f].at # "idle"
      <3>1. OwnRow(f) /\ editor'[f] = editor[f] /\ Target(editor'[f]) = Target(editor[f])
        BY <1>2, <2>3
      <3> QED
        BY <1>1, <1>2, <1>8, <2>3, <3>1 DEF OwnRow, Other
    <2> QED
      BY <2>1, <2>2, <2>3
  <1> QED
    BY <1>3, <1>5, <1>7, <1>9

LEMMA MaintainKeeps == ASSUME EditorsInv, NEW e \in Editor, Maintain(e) PROVE EditorsInv'
  <1> USE DEF EditorsInv
  <1> DEFINE c == editor[e]
  <1>1. c \in EditorCall
    BY DEF EditorsType
  <1>2. e \in Busy /\ c.at # "idle"
    BY DEF Maintain, ReadLatest, AddDefinition, RefusePersist, FindTarget, SaveTarget, Busy
  <1>3. OwnRow(e)
    OBVIOUS
  <1>4. c.row \in 1 .. edited /\ c.payload \in Payload /\ edited \in 0 .. Edits /\ changes \in Nat
    BY <1>2, <1>3 DEF OwnRow, EditorsType
  <1>5. Target(c) \in {None, c.existing, c.latest}
    BY <1>1, TargetIsRead
  <1>6. \A f \in Busy \ {e} :
            /\ editor[f].row # c.row
            /\ \A i \in items : i.id # editor[f].row
            /\ Target(c) # None => Target(c).id # editor[f].row
    <2> TAKE f \in Busy \ {e}
    <2>1. f \in Editor /\ editor[f].at # "idle" /\ OwnRow(f)
      BY DEF Busy
    <2>2. \A i \in items : i \in Item /\ i # None
      BY DEF EditorsType
    <2> QED
      BY <1>2, <1>5, <2>1, <2>2 DEF OwnRow, Other
  <1>7. CASE ReadLatest(e)
    <2>1. PICK x \in LatestOf(items) :
            editor' = [editor EXCEPT ![e].latest = IF x = None THEN @ ELSE x, ![e].at = "write"]
      BY <1>7 DEF ReadLatest
    <2> DEFINE d == [c EXCEPT !.latest = IF x = None THEN @ ELSE x, !.at = "write"]
    <2>2. x = None \/ x \in items
      BY LatestIsOne
    <2>3. d \in EditorCall
      BY <1>1, <2>2 DEF EditorCall, EditorsType
    <2>4. editor' = [editor EXCEPT ![e] = d]
      BY <2>1 DEF EditorsType
    <2>5. /\ d.at = "write" /\ d.row = c.row /\ d.payload = c.payload /\ d.mode = c.mode
          /\ d.existing = c.existing /\ d.latest \in {c.latest, x}
      BY <1>1 DEF EditorCall
    <2> HIDE DEF d
    <2> QED
      BY <1>2, <1>7, <2>2, <2>3, <2>4, <2>5, GoesOnKeeps DEF ReadLatest
  <1>8. CASE AddDefinition(e)
    <2> DEFINE i == [id |-> c.row, version |-> NewVersion(c), payload |-> c.payload]
    <2>1. NewVersion(c) \in 1 .. MaxVersion
      <3>1. NewVersion(c) \in Nat \ {0}
        BY <1>1, VersionIsNumber
      <3> QED
        BY <1>8, <3>1 DEF AddDefinition
    <2>2. i \in Item /\ i.id = c.row
      BY <1>4, <2>1 DEF Item
    <2>3. items' = items \cup {i} /\ changes' = changes + 1 /\ Return(e) /\ edited' = edited
      BY <1>8 DEF AddDefinition
    <2> HIDE DEF i
    <2>4. IsFiniteSet(items') /\ items' \subseteq Item
      BY <2>2, <2>3, FS_AddElement DEF EditorsType
    <2>5. \A k \in items : k.id # c.row /\ k.id <= edited
      BY <1>2, <1>3 DEF OwnRow, Other, EditorsType, Rows, Begun
    <2>6. \A k, j \in items' : k.id = j.id => k = j
      BY <2>2, <2>3, <2>5 DEF Rows
    <2>7. \A k \in items' : k.id <= edited
      BY <1>4, <2>2, <2>3, <2>5
    <2>8. \A k \in items' : \A f \in Busy \ {e} : k.id # editor[f].row
      BY <1>6, <2>2, <2>3
    <2> QED
      BY <1>2, <2>3, <2>4, <2>6, <2>7, <2>8, ReturnKeeps
  <1>9. CASE RefusePersist(e)
    <2>1. Return(e) /\ UNCHANGED <<items, edited, changes>>
      BY <1>9 DEF RefusePersist
    <2>2. \A i \in items : i.id <= edited
      BY DEF Rows, Begun, EditorsType
    <2> QED
      BY <1>2, <1>6, <2>1, <2>2, ReturnKeeps DEF EditorsType, Rows
  <1>10. CASE FindTarget(e)
    <2>1. UNCHANGED <<items, edited, changes>> /\ Target(c) # None
      BY <1>10 DEF FindTarget
    <2>2. CASE Return(e)
      <3>1. \A i \in items : i.id <= edited
        BY DEF Rows, Begun, EditorsType
      <3> QED
        BY <1>2, <1>6, <2>1, <2>2, <3>1, ReturnKeeps DEF EditorsType, Rows
    <2>3. CASE editor' = [editor EXCEPT ![e].at = "save"]
      <3> DEFINE d == [c EXCEPT !.at = "save"]
      <3>1. d \in EditorCall /\ editor' = [editor EXCEPT ![e] = d]
        BY <1>1, <2>3 DEF EditorCall, EditorsType
      <3>2. /\ d.at = "save" /\ d.row = c.row /\ d.payload = c.payload /\ d.mode = c.mode
            /\ d.existing = c.existing /\ d.latest = c.latest
        BY <1>1 DEF EditorCall
      <3>3. Target(d) # None
        BY <2>1, <3>2 DEF Target
      <3> HIDE DEF d
      <3> QED
        BY <1>2, <2>1, <3>1, <3>2, <3>3, GoesOnKeeps
    <2> QED
      BY <1>10, <2>2, <2>3 DEF FindTarget
  <1>11. CASE SaveTarget(e)
    <2> DEFINE t == Target(c)
               i == [t EXCEPT !.payload = c.payload]
               rest == {k \in items : k.id # t.id}
    <2>1. t # None /\ t \in Item
      BY <1>1, <1>3, <1>5, <1>11 DEF OwnRow, SaveTarget, EditorCall
    <2>2. t.id <= edited
      BY <1>5, <2>1 DEF Rows, Begun
    <2>3. i \in Item /\ i.id = t.id
      BY <1>4, <2>1 DEF Item
    <2>4. items' = rest \cup {i} /\ changes' = changes + 1 /\ Return(e) /\ edited' = edited
      BY <1>11 DEF SaveTarget
    <2>5. IsFiniteSet(rest) /\ rest \subseteq items
      BY FS_Subset DEF EditorsType
    <2>6. \A f \in Busy \ {e} : t.id # editor[f].row
      BY <1>6, <2>1
    <2>7. \A k \in rest : k.id # i.id
      BY <2>3
    <2> HIDE DEF t, i, rest
    <2>8. IsFiniteSet(items') /\ items' \subseteq Item
      BY <2>3, <2>4, <2>5, FS_AddElement DEF EditorsType
    <2>9. \A k, j \in items' : k.id = j.id => k = j
      BY <2>4, <2>5, <2>7 DEF Rows
    <2>10. \A k \in items' : k.id <= edited
      BY <2>2, <2>3, <2>4, <2>5 DEF Rows, Begun, EditorsType
    <2>11. \A k \in items' : \A f \in Busy \ {e} : k.id # editor[f].row
      BY <1>6, <2>3, <2>4, <2>5, <2>6
    <2> QED
      BY <1>2, <2>4, <2>8, <2>9, <2>10, <2>11, ReturnKeeps
  <1> QED
    BY <1>7, <1>8, <1>9, <1>10, <1>11 DEF Maintain

\* Another call's entry, when a call begins or a row is deleted.
LEMMA AsideType ==
    ASSUME NEW c \in EditorCall
    PROVE  LET d == [c EXCEPT !.alone = c.at = "idle"] IN
           /\ d \in EditorCall /\ d.at = c.at /\ d.row = c.row /\ d.payload = c.payload
           /\ d.mode = c.mode /\ d.existing = c.existing /\ d.latest = c.latest
           /\ d.version = c.version /\ d.alone = (c.at = "idle") /\ Target(d) = Target(c)
  <1> DEFINE d == [c EXCEPT !.alone = c.at = "idle"]
  <1>1. /\ d.at = c.at /\ d.row = c.row /\ d.payload = c.payload
        /\ d.mode = c.mode /\ d.existing = c.existing /\ d.latest = c.latest
        /\ d.version = c.version /\ d.alone = (c.at = "idle")
    BY DEF EditorCall
  <1>2. d \in EditorCall
    <2>1. \A b \in BOOLEAN : [c EXCEPT !.alone = b] \in EditorCall
      BY DEF EditorCall
    <2> QED
      BY <2>1, Zenon
  <1>3. Target(d) = Target(c)
    BY <1>1 DEF Target
  <1> QED
    BY <1>1, <1>2, <1>3

LEMMA BeginKeeps ==
    ASSUME EditorsInv, NEW e \in Editor, NEW m \in Mode, NEW v \in {None} \cup Named,
           NEW p \in Payload, BeginPersist(e, m, v, p)
    PROVE  EditorsInv'
  <1> USE DEF EditorsInv
  <1>1. PICK x \in LatestOf({i \in items : v \in {None, i.version}}) :
          editor' = [f \in Editor |->
              IF f # e THEN [editor[f] EXCEPT !.alone = editor[f].at = "idle"]
              ELSE IF (x # None /\ v # None) /\ x.payload = p THEN NoCall
              ELSE [at |-> IF x # None /\ v # None THEN "latest" ELSE "write",
                    mode |-> m, version |-> v, payload |-> p, row |-> edited + 1,
                    existing |-> x, latest |-> x,
                    alone |-> \A g \in Editor \ {e} : editor[g].at = "idle"]]
    BY DEF BeginPersist
  <1>2. x = None \/ x \in items
    BY LatestIsOne
  <1>3. editor[e].at = "idle" /\ edited < Edits /\ edited' = edited + 1 /\ UNCHANGED <<items, changes>>
    BY DEF BeginPersist
  <1>4. edited \in Nat /\ edited + 1 \in 0 .. Edits /\ changes \in 0 .. edited /\ e \notin Busy
    BY <1>3 DEF EditorsType, Busy
  <1> DEFINE d == editor'[e]
  <1>5. \/ d = NoCall
        \/ /\ d.at \in {"latest", "write"} /\ d.row = edited + 1 /\ d.payload = p /\ d.mode = m
           /\ d.existing = x /\ d.latest = x
    BY <1>1
  <1>6. d \in EditorCall
    <2>1. x \in Item \cup {None} /\ edited + 1 \in 0 .. Edits
      BY <1>2, <1>4 DEF EditorsType
    <2> QED
      BY <1>1, <2>1, NoCallType DEF EditorCall
  <1>7. \A f \in Editor \ {e} :
            /\ editor'[f] \in EditorCall /\ editor'[f].at = editor[f].at /\ editor'[f].row = editor[f].row
            /\ editor'[f].payload = editor[f].payload /\ editor'[f].mode = editor[f].mode
            /\ editor'[f].existing = editor[f].existing /\ editor'[f].latest = editor[f].latest
            /\ Target(editor'[f]) = Target(editor[f])
    <2> TAKE f \in Editor \ {e}
    <2>1. editor[f] \in EditorCall /\ editor'[f] = [editor[f] EXCEPT !.alone = editor[f].at = "idle"]
      BY <1>1 DEF EditorsType
    <2> QED
      BY <2>1, AsideType
  <1>8. DOMAIN editor' = Editor /\ editor' = [f \in Editor |-> editor'[f]]
    BY <1>1
  <1>9. d = NoCall \/ d.at \in {"latest", "write"}
    BY <1>5
  <1>10. NoCall.at = "idle" /\ NoCall.existing = None /\ NoCall.latest = None
    BY DEF NoCall
  <1> HIDE DEF d
  <1>11. editor' \in [Editor -> EditorCall]
    <2>1. \A f \in Editor : editor'[f] \in EditorCall
      BY <1>6, <1>7 DEF d
    <2> QED
      BY <1>8, <2>1
  <1>12. EditorsType'
    BY <1>3, <1>4, <1>11 DEF EditorsType
  <1>13. Counted'
    <2>1. Busy' \in {Busy, Busy \cup {e}}
      BY <1>7, <1>9, <1>4 DEF d, Busy
    <2>2. IsFiniteSet(Busy) /\ Cardinality(Busy) \in Nat
      BY FS_CardinalityType DEF Counted
    <2>3. IsFiniteSet(Busy') /\ Cardinality(Busy') \in {Cardinality(Busy), Cardinality(Busy) + 1}
      BY <1>4, <2>1, <2>2, FS_AddElement
    <2> QED
      BY <1>3, <1>4, <2>2, <2>3 DEF Counted
  <1>14. Begun(x)' /\ \A i \in items : i.id <= edited /\ i.id <= edited + 1
    BY <1>2, <1>3, <1>4 DEF Rows, Begun, EditorsType, Item
  <1>15. \A f \in Editor : /\ Begun(editor[f].existing)' /\ Begun(editor[f].latest)'
                           /\ Other(editor[f].existing, edited + 1)
                           /\ Other(editor[f].latest, edited + 1)
    <2> TAKE f \in Editor
    <2>1. Begun(editor[f].existing) /\ Begun(editor[f].latest) /\ editor'[f] \in EditorCall
      BY <1>11 DEF Rows
    <2>2. editor[f].existing \in Item \cup {None} /\ editor[f].latest \in Item \cup {None}
      BY DEF EditorsType, EditorCall
    <2>3. CASE f = e
      BY <1>3, <1>4, <1>5, <1>10, <1>14, <2>1, <2>2, <2>3 DEF d, Begun, Other, Item
    <2>4. CASE f # e
      BY <1>3, <1>4, <1>7, <2>1, <2>2, <2>4 DEF Begun, Other, Item
    <2> QED
      BY <2>3, <2>4
  <1>16. Rows'
    BY <1>3, <1>14, <1>15 DEF Rows, Begun
  <1>17. \A f \in Editor : editor[f].at # "idle" => editor[f].row <= edited /\ Other(x, editor[f].row)
    BY <1>2 DEF OwnRow, Other
  <1>18. ASSUME NEW f \in Editor PROVE OwnRow(f)'
    <2>1. CASE f = e
      <3>1. CASE d = NoCall
        BY <1>10, <2>1, <3>1 DEF d, OwnRow
      <3>2. CASE d # NoCall
        <4>1. /\ d.at \in {"latest", "write"} /\ d.row = edited + 1 /\ d.payload = p /\ d.mode = m
              /\ d.existing = x /\ d.latest = x
          BY <1>5, <3>2 DEF d
        <4>2. \A i \in items' : Other(i, d.row)
          BY <1>3, <1>4, <1>14, <4>1 DEF Other, EditorsType, Item
        <4>3. Other(x, d.row)
          BY <1>2, <1>3, <4>2 DEF Other
        <4>4. \A g \in Editor \ {e} : /\ editor'[g].at # "idle" => editor'[g].row # d.row
                                      /\ Other(editor'[g].existing, d.row)
                                      /\ Other(editor'[g].latest, d.row)
          <5> TAKE g \in Editor \ {e}
          <5>1. editor[g].row \in Nat
            BY DEF EditorsType, EditorCall
          <5> QED
            BY <1>4, <1>7, <1>15, <1>17, <4>1, <5>1
        <4>5. edited + 1 \in 1 .. edited'
          BY <1>3, <1>4
        <4> QED
          BY <2>1, <4>1, <4>2, <4>3, <4>4, <4>5 DEF d, OwnRow
      <3> QED
        BY <3>1, <3>2
    <2>2. CASE f # e /\ editor[f].at = "idle"
      BY <1>7, <2>2 DEF OwnRow
    <2>3. CASE f # e /\ editor[f].at # "idle"
      <3>1. OwnRow(f) /\ editor'[f].row = editor[f].row
        BY <1>7, <2>3
      <3>2. editor[f].row \in 1 .. edited /\ editor[f].row \in 1 .. edited' /\ edited + 1 # editor[f].row
        BY <1>3, <1>4, <2>3, <3>1 DEF OwnRow
      <3>3. /\ d.at # "idle" => d.row # editor[f].row
            /\ Other(d.existing, editor[f].row) /\ Other(d.latest, editor[f].row)
        BY <1>5, <1>10, <1>17, <2>3, <3>2 DEF d, Other
      <3> QED
        BY <1>3, <1>7, <2>3, <3>1, <3>2, <3>3 DEF d, OwnRow
    <2> QED
      BY <2>1, <2>2, <2>3
  <1> QED
    BY <1>12, <1>13, <1>16, <1>18

LEMMA DeleteKeeps == ASSUME EditorsInv, DeleteDefinition PROVE EditorsInv'
  <1> USE DEF EditorsInv
  <1>1. PICK x \in items : items' = items \ {x}
    BY DEF DeleteDefinition
  <1>2. /\ edited < Edits /\ edited' = edited + 1 /\ changes' = changes + 1
        /\ editor' = [f \in Editor |-> [editor[f] EXCEPT !.alone = editor[f].at = "idle"]]
    BY DEF DeleteDefinition
  <1>3. /\ edited \in Nat /\ edited' \in 0 .. Edits /\ changes \in Nat /\ changes' \in 0 .. edited'
        /\ IsFiniteSet(items') /\ items' \subseteq items
    BY <1>1, <1>2, FS_RemoveElement DEF EditorsType
  <1>4. \A f \in Editor :
            /\ editor'[f] \in EditorCall /\ editor'[f].at = editor[f].at /\ editor'[f].row = editor[f].row
            /\ editor'[f].payload = editor[f].payload /\ editor'[f].mode = editor[f].mode
            /\ editor'[f].existing = editor[f].existing /\ editor'[f].latest = editor[f].latest
            /\ Target(editor'[f]) = Target(editor[f])
    <2> TAKE f \in Editor
    <2>1. editor[f] \in EditorCall /\ editor'[f] = [editor[f] EXCEPT !.alone = editor[f].at = "idle"]
      BY <1>2 DEF EditorsType
    <2> QED
      BY <2>1, AsideType
  <1>5. EditorsType'
    <2>1. editor' \in [Editor -> EditorCall]
      BY <1>2, <1>4
    <2> QED
      BY <1>3, <2>1 DEF EditorsType
  <1>6. Counted'
    <2>1. Busy' = Busy
      BY <1>4 DEF Busy
    <2> QED
      BY <1>2, <1>3, <2>1, FS_CardinalityType DEF Counted
  <1>7. \A y : y \in Item \cup {None} /\ Begun(y) => Begun(y)'
    BY <1>2, <1>3 DEF Begun, Item
  <1>8. Rows'
    <2>1. \A f \in Editor : editor[f].existing \in Item \cup {None} /\ editor[f].latest \in Item \cup {None}
      BY DEF EditorsType, EditorCall
    <2>2. \A i \in items' : Begun(i)'
      BY <1>3, <1>7 DEF Rows, EditorsType
    <2>3. \A f \in Editor : Begun(editor[f].existing)' /\ Begun(editor[f].latest)'
      BY <1>4, <1>7, <2>1 DEF Rows, Begun
    <2> QED
      BY <1>3, <2>2, <2>3 DEF Rows, Begun
  <1>9. ASSUME NEW f \in Editor PROVE OwnRow(f)'
    BY <1>2, <1>3, <1>4 DEF OwnRow, Other
  <1> QED
    BY <1>5, <1>6, <1>8, <1>9

LEMMA EditorsStep == ASSUME EditorsInv, Editing \/ UNCHANGED definitionVars PROVE EditorsInv'
  <1>1. CASE UNCHANGED definitionVars
    BY <1>1 DEF definitionVars, EditorsInv, EditorsType, Rows, Begun, OwnRow, Other, Counted, Busy
  <1> QED
    BY <1>1, MaintainKeeps, BeginKeeps, DeleteKeeps DEF Editing

\* The table and the count of its changes move together.
LEMMA ChangesTell ==
    ASSUME EditorsInv, Editing \/ UNCHANGED definitionVars
    PROVE  changes \in Nat /\ (UNCHANGED <<items, changes>> \/ changes' > changes)
  <1>1. changes \in Nat
    BY DEF EditorsInv, EditorsType
  <1> QED
    BY <1>1 DEF definitionVars, Editing, Maintain, ReadLatest, AddDefinition, RefusePersist, FindTarget,
       SaveTarget, BeginPersist, DeleteDefinition
-----------------------------------------------------------------------------
(* The verifier. A call is what its caller may make by what the page was   *)
(* told; what a relying party was built with was read before it, and is    *)
(* still what is served if the table did not change since.                 *)
VerifierCall == [op : {"none", "create", "poll", "delete", "fetch", "answer"},
                 req : Request \cup {None},
                 at : {"idle", "party", "missing", "building", "look",
                       "verdict", "served", "accepted", "refused"},
                 vp : Payload \cup {None}, seen : Payload \cup {None}, def : Party \cup {None}]

Told == {"none", "created", "sent", "received", "verified", "error", "gone"}
Replies == {"idle", "served", "accepted", "refused"}
Sessions == [Request -> Session \cup {None}]

VerifierType ==
    /\ rp \in Party \cup {None}
    /\ session \in Sessions
    /\ call \in [Caller -> VerifierCall]
    /\ marking \subseteq Request
    /\ told \in [Request -> Told]
    /\ answers \in [Request -> Nat]

\* Caller c may have the verifier handle k.
Fits(c, k) ==
    /\ k.op = "create" => c \in Request /\ told[c] = "none"
    /\ k.op \in {"poll", "delete"} => c \in Request /\ told[c] # "none"
    /\ k.op \in {"fetch", "answer"} => c \in Run /\ k.req \in Request /\ told[k.req] # "none"
    /\ k.op = "answer" => k.seen \in Payload

Under(c, k) ==
    /\ Fits(c, k)
    /\ k.at \in Replies <=> k.op = "none"
    /\ k.at = "building" <=> k.def # None
    /\ k.at \in {"party", "verdict"} => k.op = "answer"
    /\ k.at = "look" => k.op = "poll"

CallsFit == \A c \in Caller : Under(c, call[c])

SessionsKnown ==
    /\ \A r \in Request : session[r] # None => rp # None /\ told[r] \notin {"none", "gone"}
    /\ \A r \in marking : told[r] # "none"

IsRead(p) == p.at <= changes /\ (p.at = changes => p.def \in OrNone(ServedOf(p.version)))

PartyIsRead ==
    /\ rp # None => IsRead(rp)
    /\ \A c \in Caller : call[c].at = "building" => IsRead(call[c].def)

VerifierInv == VerifierType /\ CallsFit /\ SessionsKnown /\ PartyIsRead

\* k is a call of c that comes in, and no answer, or it is the one c has made.
Continues(c, k) ==
    \/ call[c].at = "idle" /\ k.op # "answer"
    \/ call[c].at \in {"party", "building"}
       /\ k.op = call[c].op /\ k.req = call[c].req /\ k.vp = call[c].vp /\ k.seen = call[c].seen

\* The verifier handles the call k of c, with the party p and its sessions ss.
Handled(c, k, p, ss) ==
    /\ Handle(c, k, p, ss) /\ Fits(c, k) /\ k.op # "none" /\ k.def = None /\ Continues(c, k)
    /\ \/ p = rp /\ rp # None /\ ss = session
       \/ p = call[c].def /\ call[c].at = "building" /\ ss = NoSessions
    /\ rp' = p

\* The call k of c comes in and finds no relying party.
Missed(c, k) ==
    /\ To(c, k, "missing") /\ Fits(c, k) /\ k.op # "none" /\ k.def = None /\ Continues(c, k)
    /\ UNCHANGED <<rp, session, marking, told, answers>>

\* The relying party is for the version its options name.
ReadsForParty(c) == \E version \in Named \cup {None} : ReadForParty(c, version)

HandlesOrMisses(c) ==
    \E k \in VerifierCall : Missed(c, k) \/ \E p \in Party, ss \in Sessions : Handled(c, k, p, ss)

\* What the verifier does, whoever made it do so.
VerifierStep ==
    \/ \E c \in Caller : HandlesOrMisses(c) \/ ReadsForParty(c) \/ GiveVerdict(c) \/ LookAtResponse(c)
    \/ \E w \in Run, r \in Request, vp \in Payload \cup {None} :
          told[r] # "none" /\ ArriveWithAnswer(w, r, vp)
    \/ \E w \in Run : End(w) /\ UNCHANGED <<rp, session, marking, told, answers>>
    \/ \E r \in Request : MarkSent(r)
    \/ StopVerifier

LEMMA SilentIs ==
    /\ Silent \in VerifierCall /\ Silent.op = "none" /\ Silent.at = "idle" /\ Silent.def = None
    /\ Silent.req = None
  BY DEF Silent, VerifierCall

LEMMA ReplyIs ==
    ASSUME NEW s \in Replies, NEW d \in Payload \cup {None}
    PROVE  LET k == [Silent EXCEPT !.at = s, !.seen = d] IN
           k \in VerifierCall /\ k.op = "none" /\ k.at = s /\ k.seen = d /\ k.def = None
  BY DEF Silent, VerifierCall, Replies

LEMMA ServedIs ==
    ASSUME EditorsInv
    PROVE  /\ Served \subseteq Payload /\ OrNone(Served) \subseteq Payload \cup {None}
           /\ \A version : OrNone(ServedOf(version)) \subseteq Payload \cup {None}
  BY DEF EditorsInv, EditorsType, Served, ServedOf, HighestOf, OrNone, Item

LEMMA NoSessionsType == NoSessions \in Sessions /\ \A r \in Request : NoSessions[r] = None
  BY DEF NoSessions, Sessions

\* A call that comes in, or goes on, is handled or finds no relying party.
LEMMA ReachDoes ==
    ASSUME VerifierInv, NEW c \in Caller, NEW k \in VerifierCall, Reach(c, k), UNCHANGED rp,
           Fits(c, k), Continues(c, k), k.op # "none", k.def = None
    PROVE  Missed(c, k) \/ \E p \in Party, ss \in Sessions : Handled(c, k, p, ss)
  <1>1. CASE rp = None
    BY <1>1 DEF Reach, Missed
  <1>2. CASE rp # None
    <2>1. Handle(c, k, rp, session) /\ rp \in Party /\ session \in Sessions
      BY <1>2 DEF Reach, VerifierInv, VerifierType
    <2>2. Handled(c, k, rp, session)
      BY <1>2, <2>1 DEF Handled
    <2> QED
      BY <2>1, <2>2
  <1> QED
    BY <1>1, <1>2

LEMMA ArriveDoes ==
    ASSUME VerifierInv, NEW c \in Caller, NEW op \in {"create", "poll", "delete", "fetch"},
           NEW r \in Request, Arrive(c, op, r),
           op = "create" => c \in Request /\ told[c] = "none",
           op \in {"poll", "delete"} => c \in Request /\ told[c] # "none",
           op = "fetch" => c \in Run /\ told[r] # "none"
    PROVE  /\ HandlesOrMisses(c)
           /\ \E k \in VerifierCall :
                 /\ k.op = op /\ k.req = r
                 /\ Missed(c, k) \/ \E p \in Party, ss \in Sessions : Handled(c, k, p, ss)
  <1> DEFINE k == [Silent EXCEPT !.op = op, !.req = r]
  <1>1. k \in VerifierCall /\ k.op = op /\ k.req = r /\ k.def = None
    BY DEF Silent, VerifierCall
  <1>2. Reach(c, k) /\ UNCHANGED rp /\ call[c].at = "idle"
    BY DEF Arrive
  <1> HIDE DEF k
  <1>3. Fits(c, k) /\ Continues(c, k) /\ k.op # "none"
    BY <1>1, <1>2 DEF Fits, Continues
  <1> QED
    BY <1>1, <1>2, <1>3, ReachDoes DEF HandlesOrMisses

LEMMA GoOnDoes ==
    ASSUME VerifierInv, NEW c \in Caller, NEW version \in Named \cup {None},
           GoOn(c, version)
    PROVE  HandlesOrMisses(c) \/ ReadsForParty(c) \/ GiveVerdict(c) \/ LookAtResponse(c)
  <1>1. call[c] \in VerifierCall /\ Under(c, call[c])
    BY DEF VerifierInv, VerifierType, CallsFit
  <1>2. CASE Proceed(c)
    <2>1. /\ call[c].op # "none" /\ call[c].def = None /\ Fits(c, call[c]) /\ call[c].at = "party"
          /\ Reach(c, call[c]) /\ UNCHANGED rp
      BY <1>1, <1>2 DEF Proceed, Under
    <2>2. Continues(c, call[c])
      BY <2>1 DEF Continues
    <2> QED
      BY <1>1, <2>1, <2>2, ReachDoes DEF HandlesOrMisses
  <1>3. CASE Build(c)
    <2> DEFINE k == [call[c] EXCEPT !.def = None]
    <2>1. /\ call[c].at = "building" /\ call[c].def \in Party /\ call[c].op # "none"
      BY <1>1, <1>3 DEF Build, Under, VerifierCall, Replies
    <2>2. k \in VerifierCall /\ k.op = call[c].op /\ k.def = None /\ k.req = call[c].req
          /\ k.seen = call[c].seen /\ k.vp = call[c].vp
      BY <1>1 DEF VerifierCall
    <2>3. Handle(c, k, call[c].def, NoSessions) /\ rp' = call[c].def
      BY <1>3 DEF Build
    <2> HIDE DEF k
    <2>4. Fits(c, k) /\ Continues(c, k)
      BY <1>1, <2>1, <2>2 DEF Under, Fits, Continues
    <2>5. Handled(c, k, call[c].def, NoSessions)
      BY <2>1, <2>2, <2>3, <2>4 DEF Handled
    <2> QED
      BY <2>1, <2>2, <2>5, NoSessionsType DEF HandlesOrMisses
  <1> QED
    BY <1>2, <1>3 DEF GoOn, ReadsForParty

\* What a page was told, other than "none", is no reason for a call not to fit.
LEMMA CallsKept ==
    ASSUME VerifierInv, NEW c \in Caller, NEW k \in VerifierCall, call' = [call EXCEPT ![c] = k],
           \A r \in Request : told[r] # "none" => told'[r] # "none",
           \A r \in Request \ {c} : told'[r] = told[r],
           Under(c, k)'
    PROVE  call' \in [Caller -> VerifierCall] /\ CallsFit'
  <1>1. call' \in [Caller -> VerifierCall] /\ call'[c] = k /\ \A d \in Caller \ {c} : call'[d] = call[d]
    BY DEF VerifierInv, VerifierType
  <1>2. ASSUME NEW d \in Caller PROVE Under(d, call[d])'
    <2>1. CASE d = c
      BY <1>1, <2>1 DEF Under, Fits
    <2>2. CASE d # c
      <3>1. call'[d] = call[d] /\ Under(d, call[d])
        BY <1>1, <2>2 DEF VerifierInv, CallsFit
      <3> QED
        BY <2>2, <3>1 DEF Under, Fits
    <2> QED
      BY <2>1, <2>2
  <1> QED
    BY <1>1, <1>2 DEF CallsFit

\* A reply fits its caller, and so does silence.
LEMMA ReplyFits ==
    ASSUME NEW c, NEW k, k.op = "none", k.at \in Replies, k.def = None
    PROVE  Under(c, k) /\ Under(c, k)'
  BY DEF Under, Fits, Replies

\* The call of c is another one that may be made, or none.
Called(c) ==
    \E n \in VerifierCall : call' = [call EXCEPT ![c] = n] /\ Under(c, n)' /\ n.at # "building"

LEMMA EndsCall == ASSUME NEW c \in Caller, End(c) PROVE Called(c)
  <1>1. call' = [call EXCEPT ![c] = Silent]
    BY DEF End
  <1>2. Silent \in VerifierCall /\ Silent.at # "building"
    BY SilentIs
  <1>3. Silent.op = "none" /\ Silent.at \in Replies /\ Silent.def = None
    BY SilentIs DEF Replies
  <1>4. Under(c, Silent)'
    BY <1>3, ReplyFits
  <1> QED
    BY <1>1, <1>2, <1>4 DEF Called

LEMMA RepliesToCall ==
    ASSUME NEW c \in Caller, NEW s \in Replies, NEW d \in Payload \cup {None}, Reply(c, s, d)
    PROVE  Called(c)
  <1> DEFINE n == [Silent EXCEPT !.at = s, !.seen = d]
  <1>1. call' = [call EXCEPT ![c] = n]
    BY DEF Reply
  <1>2. n \in VerifierCall /\ n.op = "none" /\ n.at = s /\ n.def = None
    BY ReplyIs
  <1> HIDE DEF n
  <1>3. Under(c, n)' /\ n.at # "building"
    BY <1>2, ReplyFits DEF Replies
  <1> QED
    BY <1>1, <1>2, <1>3 DEF Called

LEMMA HandledKeeps ==
    ASSUME EditorsInv, VerifierInv, NEW c \in Caller, NEW k \in VerifierCall, NEW p \in Party,
           NEW ss \in Sessions, Handled(c, k, p, ss), UNCHANGED definitionVars
    PROVE  VerifierInv'
  <1>1. p # None /\ IsRead(p) /\ \A r \in Request : ss[r] # None => ss[r] = session[r]
    BY NoSessionsType DEF Handled, VerifierInv, PartyIsRead
  <1>2. /\ told \in [Request -> Told] /\ session \in Sessions /\ call \in [Caller -> VerifierCall]
        /\ marking \subseteq Request /\ answers \in [Request -> Nat]
    BY DEF VerifierInv, VerifierType
  <1>3. rp' = p
    BY DEF Handled
  <1>4. /\ \A r \in Request : told[r] # "none" => told'[r] # "none"
        /\ \A r \in Request \ {c} : told'[r] = told[r]
        /\ told' \in [Request -> Told]
    BY <1>2 DEF Handled, Handle, Create, Poll, Delete, Fetch, Receive, Tell, Told, Fits
  <1>5. PICK n \in VerifierCall : call' = [call EXCEPT ![c] = n] /\ Under(c, n)' /\ n.at # "building"
    <2>1. p.def \in Payload \cup {None} /\ None \in Payload \cup {None}
      BY DEF Party
    <2>2. {"served", "refused"} \subseteq Replies
      BY DEF Replies
    <2>3. ASSUME NEW step \in {"look", "verdict"}, To(c, k, step),
                 step = "look" => k.op = "poll", step = "verdict" => k.op = "answer"
          PROVE  Called(c)
      <3> DEFINE n == [k EXCEPT !.at = step]
      <3>1. call' = [call EXCEPT ![c] = n]
        BY <2>3 DEF To
      <3>2. /\ n \in VerifierCall /\ n.op = k.op /\ n.at = step /\ n.req = k.req /\ n.def = None
            /\ n.seen = k.seen
        BY <2>3 DEF VerifierCall, Handled
      <3> HIDE DEF n
      <3>3. Fits(c, k) /\ k.op # "none"
        BY DEF Handled
      <3>4. Under(c, n)'
        BY <1>4, <2>3, <3>2, <3>3 DEF Under, Fits, Replies
      <3> QED
        BY <2>3, <3>1, <3>2, <3>4 DEF Called
    <2>4. ASSUME Create(c, k, ss) PROVE Called(c)
      BY <2>4, EndsCall DEF Create, Tell
    <2>5. ASSUME Poll(c, k, ss) PROVE Called(c)
      BY <2>3, <2>5, EndsCall DEF Poll, Tell
    <2>6. ASSUME Delete(c, k, ss) PROVE Called(c)
      BY <2>6, EndsCall DEF Delete
    <2>7. ASSUME Fetch(c, k, p, ss) PROVE Called(c)
      BY <2>1, <2>2, <2>7, RepliesToCall DEF Fetch
    <2>8. ASSUME Receive(c, k, ss) PROVE Called(c)
      BY <2>1, <2>2, <2>3, <2>8, RepliesToCall DEF Receive
    <2>9. Called(c)
      BY <2>4, <2>5, <2>6, <2>7, <2>8 DEF Handled, Handle
    <2> QED
      BY <2>9 DEF Called
  <1>6. call' \in [Caller -> VerifierCall] /\ CallsFit'
    BY <1>4, <1>5, CallsKept
  <1>7. session' \in Sessions /\ \A r \in Request : session'[r] # None => told'[r] \notin {"none", "gone"}
    <2>1. \A r \in Request : ss[r] # None => told[r] \notin {"none", "gone"}
      BY <1>1 DEF VerifierInv, SessionsKnown
    <2>2. CASE Create(c, k, ss)
      BY <1>2, <2>1, <2>2 DEF Create, Tell, Sessions, Session, Handled, Fits
    <2>3. CASE Poll(c, k, ss)
      BY <1>2, <2>1, <2>3 DEF Poll, Tell, Sessions, Handled, Fits
    <2>4. CASE Delete(c, k, ss)
      BY <2>1, <2>4 DEF Delete, Sessions, Handled, Fits
    <2>5. CASE Fetch(c, k, p, ss)
      BY <2>1, <2>5 DEF Fetch
    <2>6. CASE Receive(c, k, ss)
      <3>1. UNCHANGED told /\ k.req \in Request
        BY <2>6 DEF Receive, Handled, Fits
      <3>2. CASE ss[k.req] = None
        BY <2>1, <2>6, <3>1, <3>2 DEF Receive
      <3>3. CASE ss[k.req] # None
        <4>1. ss[k.req] \in Session
          BY <3>1, <3>3 DEF Sessions
        <4>2. [ss[k.req] EXCEPT !.resp = "received"] \in Session
          BY <4>1 DEF Session
        <4>3. session' = [ss EXCEPT ![k.req] = [ss[k.req] EXCEPT !.resp = "received"]]
          BY <2>6, <3>3 DEF Receive
        <4> QED
          BY <2>1, <3>1, <3>3, <4>2, <4>3 DEF Sessions
      <3> QED
        BY <3>2, <3>3
    <2> QED
      BY <2>2, <2>3, <2>4, <2>5, <2>6 DEF Handled, Handle
  <1>8. marking' \subseteq Request /\ \A r \in marking' : told'[r] # "none"
    <2>1. marking' \subseteq marking \cup {r \in Request : told[r] # "none"}
      BY DEF Handled, Handle, Create, Poll, Delete, Fetch, Receive, Fits
    <2> QED
      BY <1>2, <1>4, <2>1 DEF VerifierInv, SessionsKnown
  <1>9. answers' \in [Request -> Nat]
    BY <1>2 DEF Handled, Handle, Create, Poll, Delete, Fetch, Receive, Fits
  <1>10. PartyIsRead'
    <2>1. \A q : IsRead(q) => IsRead(q)'
      BY DEF definitionVars, IsRead, OrNone, Served, ServedOf, HighestOf
    <2>2. \A d \in Caller : call'[d].at = "building" => IsRead(call'[d].def)
      BY <1>2, <1>5 DEF VerifierInv, PartyIsRead
    <2>3. UNCHANGED <<items, changes>>
      BY DEF definitionVars
    <2> QED
      BY <1>1, <1>3, <2>2, <2>3 DEF PartyIsRead, IsRead, OrNone, Served, ServedOf, HighestOf
  <1> QED
    BY <1>1, <1>3, <1>4, <1>6, <1>7, <1>8, <1>9, <1>10 DEF VerifierInv, VerifierType, SessionsKnown

\* A call that goes on, while nothing else changes.
LEMMA CallGoesOn ==
    ASSUME VerifierInv, UNCHANGED definitionVars, NEW c \in Caller, NEW n \in VerifierCall,
           call' = [call EXCEPT ![c] = n], Under(c, n), n.at = "building" => IsRead(n.def),
           UNCHANGED <<rp, session, marking, told, answers>>
    PROVE  VerifierInv'
  <1>1. UNCHANGED <<items, changes>>
    BY DEF definitionVars
  <1>2. Under(c, n)'
    BY DEF Under, Fits
  <1>3. call' \in [Caller -> VerifierCall] /\ CallsFit'
    BY <1>2, CallsKept
  <1>4. \A d \in Caller : call'[d].at = "building" => IsRead(call'[d].def)
    BY DEF VerifierInv, VerifierType, PartyIsRead
  <1>5. PartyIsRead'
    <2>1. \A q : IsRead(q) => IsRead(q)'
      BY <1>1 DEF IsRead, OrNone, ServedOf, HighestOf
    <2>2. ASSUME NEW d \in Caller, call'[d].at = "building" PROVE IsRead(call[d].def)'
      <3>1. PICK q : q = call'[d].def
        OBVIOUS
      <3>2. IsRead(q)'
        BY <1>4, <2>1, <2>2, <3>1
      <3> QED
        BY <3>1, <3>2 DEF IsRead
    <2>3. rp' # None => IsRead(rp)'
      <3>1. PICK q : q = rp
        OBVIOUS
      <3>2. rp # None => IsRead(q)'
        BY <2>1, <3>1 DEF VerifierInv, PartyIsRead
      <3> QED
        BY <3>1, <3>2 DEF IsRead
    <2> QED
      BY <2>2, <2>3 DEF PartyIsRead
  <1> QED
    BY <1>3, <1>5 DEF VerifierInv, VerifierType, SessionsKnown

LEMMA MissedKeeps ==
    ASSUME VerifierInv, UNCHANGED definitionVars, NEW c \in Caller, NEW k \in VerifierCall, Missed(c, k)
    PROVE  VerifierInv'
  <1> DEFINE n == [k EXCEPT !.at = "missing"]
  <1>1. call' = [call EXCEPT ![c] = n] /\ UNCHANGED <<rp, session, marking, told, answers>>
    BY DEF Missed, To
  <1>2. /\ n \in VerifierCall /\ n.op = k.op /\ n.at = "missing" /\ n.req = k.req /\ n.def = None
        /\ n.seen = k.seen
    BY DEF VerifierCall, Missed
  <1> HIDE DEF n
  <1>3. Under(c, n)
    BY <1>2 DEF Under, Fits, Missed, Replies
  <1> QED
    BY <1>1, <1>2, <1>3, CallGoesOn

LEMMA ReadKeeps ==
    ASSUME EditorsInv, VerifierInv, UNCHANGED definitionVars, NEW c \in Caller, ReadsForParty(c)
    PROVE  VerifierInv'
  <1>0. PICK version \in Named \cup {None} : ReadForParty(c, version)
    BY DEF ReadsForParty
  <1>1. PICK d \in OrNone(ServedOf(version)) :
          call' = [call EXCEPT ![c].at = "building",
                               ![c].def = [version |-> version, def |-> d, at |-> changes]]
    BY <1>0 DEF ReadForParty
  <1> DEFINE p == [version |-> version, def |-> d, at |-> changes]
             n == [call[c] EXCEPT !.at = "building", !.def = p]
  <1>2. changes \in 0 .. Edits /\ d \in Payload \cup {None}
    BY ServedIs DEF EditorsInv, EditorsType
  <1>3. p \in Party /\ p.version = version /\ p.def = d /\ p.at = changes
    BY <1>2 DEF Party
  <1>4. call[c] \in VerifierCall /\ Under(c, call[c]) /\ call[c].at = "missing"
    BY DEF VerifierInv, VerifierType, CallsFit, ReadsForParty, ReadForParty
  <1>5. p # None /\ IsRead(p)
    BY <1>1, <1>2, <1>3 DEF IsRead
  <1> HIDE DEF p
  <1>6. call' = [call EXCEPT ![c] = n]
    BY <1>1 DEF p, VerifierInv, VerifierType
  <1>7. /\ n \in VerifierCall /\ n.op = call[c].op /\ n.at = "building" /\ n.req = call[c].req
        /\ n.def = p /\ n.seen = call[c].seen
    BY <1>3, <1>4 DEF VerifierCall
  <1> HIDE DEF n
  <1>8. Under(c, n)
    BY <1>4, <1>5, <1>7 DEF Under, Fits, Replies
  <1> QED
    BY <1>5, <1>6, <1>7, <1>8, CallGoesOn DEF ReadsForParty, ReadForParty

LEMMA ArriveWithAnswerKeeps ==
    ASSUME EditorsInv, VerifierInv, UNCHANGED definitionVars, NEW w \in Run, NEW r \in Request,
           NEW vp \in Payload \cup {None}, told[r] # "none", ArriveWithAnswer(w, r, vp)
    PROVE  VerifierInv'
  <1>1. w \in Caller /\ UNCHANGED <<rp, session, marking, told, answers>>
    BY DEF Caller, ArriveWithAnswer
  <1>2. PICK d \in OrNone(Served) :
          \/ d = None /\ Reply(w, "refused", None)
          \/ d # None /\ call' = [call EXCEPT ![w] =
                [Silent EXCEPT !.op = "answer", !.req = r, !.at = "party", !.vp = vp, !.seen = d]]
    BY DEF ArriveWithAnswer
  <1>3. CASE Reply(w, "refused", None)
    <2> DEFINE n == [Silent EXCEPT !.at = "refused", !.seen = None]
    <2>1. call' = [call EXCEPT ![w] = n]
      BY <1>3 DEF Reply
    <2>2. "refused" \in Replies
      BY DEF Replies
    <2>3. n \in VerifierCall /\ n.op = "none" /\ n.at = "refused" /\ n.def = None
      BY <2>2, ReplyIs
    <2> HIDE DEF n
    <2> QED
      BY <1>1, <2>1, <2>2, <2>3, ReplyFits, CallGoesOn
  <1>4. CASE d # None /\ call' = [call EXCEPT ![w] =
                [Silent EXCEPT !.op = "answer", !.req = r, !.at = "party", !.vp = vp, !.seen = d]]
    <2> DEFINE n == [Silent EXCEPT !.op = "answer", !.req = r, !.at = "party", !.vp = vp, !.seen = d]
    <2>1. d \in Payload
      BY <1>4, ServedIs
    <2>2. /\ n \in VerifierCall /\ n.op = "answer" /\ n.at = "party" /\ n.req = r /\ n.seen = d
          /\ n.def = None
      BY <2>1 DEF Silent, VerifierCall
    <2>3. call' = [call EXCEPT ![w] = n]
      BY <1>4
    <2> HIDE DEF n
    <2>4. Under(w, n)
      BY <2>1, <2>2 DEF Under, Fits, Replies
    <2> QED
      BY <1>1, <2>2, <2>3, <2>4, CallGoesOn
  <1> QED
    BY <1>2, <1>3, <1>4

LEMMA EndKeeps ==
    ASSUME VerifierInv, UNCHANGED definitionVars, NEW c \in Caller, End(c),
           UNCHANGED <<rp, session, marking, told, answers>>
    PROVE  VerifierInv'
  <1>1. call' = [call EXCEPT ![c] = Silent]
    BY DEF End
  <1>2. Under(c, Silent)
    BY SilentIs, ReplyFits DEF Replies
  <1> QED
    BY <1>1, <1>2, SilentIs, CallGoesOn

\* The sessions of requests the verifier knows already change, and no relying party is built.
LEMMA SessionsMove ==
    ASSUME VerifierInv, UNCHANGED <<rp, answers>>, UNCHANGED definitionVars,
           call' \in [Caller -> VerifierCall], CallsFit',
           \A c \in Caller : call'[c] # call[c] => call'[c].op = "none",
           session' \in Sessions, \A r \in Request : session'[r] # None => session[r] # None,
           told' \in [Request -> Told],
           \A r \in Request : told'[r] # told[r] /\ session'[r] # None => told'[r] # "gone",
           \A r \in Request : told[r] # "none" => told'[r] # "none",
           marking' \subseteq marking
    PROVE  VerifierInv'
  <1>1. UNCHANGED <<items, changes>>
    BY DEF definitionVars
  <1>2. SessionsKnown'
    BY DEF VerifierInv, VerifierType, SessionsKnown
  <1>3. \A d \in Caller : call'[d].at = "building" => call[d].at = "building" /\ call'[d].def = call[d].def
    BY DEF CallsFit, Under, Replies
  <1>4. PartyIsRead'
    BY <1>1, <1>3 DEF VerifierInv, PartyIsRead, IsRead, OrNone, Served, ServedOf, HighestOf
  <1> QED
    BY <1>2, <1>4 DEF VerifierInv, VerifierType

LEMMA VerdictKeeps ==
    ASSUME VerifierInv, UNCHANGED definitionVars, NEW c \in Caller, GiveVerdict(c)
    PROVE  VerifierInv'
  <1> DEFINE r == call[c].req
             right == call[c].vp = call[c].seen
  <1>1. call[c].at = "verdict" /\ UNCHANGED <<rp, marking, told, answers>>
    BY DEF GiveVerdict
  <1>2. r \in Request /\ call \in [Caller -> VerifierCall] /\ session \in Sessions
    BY <1>1 DEF VerifierInv, VerifierType, CallsFit, Under, Fits
  <1>3. session' \in Sessions /\ \A q \in Request : session'[q] # None => session[q] # None
    <2>1. CASE session[r] = None
      BY <1>2, <2>1 DEF GiveVerdict
    <2>2. CASE session[r] # None
      <3> DEFINE s == [session[r] EXCEPT !.resp = IF right THEN "verified" ELSE "error"]
      <3>1. session[r] \in Session
        BY <1>2, <2>2 DEF Sessions
      <3>2. s \in Session
        BY <3>1 DEF Session
      <3>3. session' = [session EXCEPT ![r] = s]
        BY <2>2 DEF GiveVerdict
      <3> HIDE DEF s, r
      <3> QED
        BY <1>2, <2>2, <3>2, <3>3 DEF Sessions
    <2> QED
      BY <2>1, <2>2
  <1>4. PICK n \in VerifierCall : call' = [call EXCEPT ![c] = n] /\ n.op = "none" /\ Under(c, n)'
    <2>1. PICK s \in {"accepted", "refused"} : Reply(c, s, None)
      BY Zenon DEF GiveVerdict
    <2>2. s \in Replies /\ None \in Payload \cup {None}
      BY DEF Replies
    <2> DEFINE n == [Silent EXCEPT !.at = s, !.seen = None]
    <2>3. call' = [call EXCEPT ![c] = n]
      BY <2>1 DEF Reply
    <2>4. n \in VerifierCall /\ n.op = "none" /\ n.at = s /\ n.def = None
      BY <2>2, ReplyIs
    <2> HIDE DEF n
    <2>5. Under(c, n)'
      BY <2>2, <2>4, ReplyFits
    <2> QED
      BY <2>3, <2>4, <2>5
  <1>5. call' \in [Caller -> VerifierCall] /\ CallsFit'
    BY <1>1, <1>4, CallsKept
  <1>6. \A d \in Caller : call'[d] # call[d] => call'[d].op = "none"
    BY <1>2, <1>4
  <1>7. told' \in [Request -> Told]
    BY <1>1 DEF VerifierInv, VerifierType
  <1> QED
    BY <1>1, <1>3, <1>5, <1>6, <1>7, SessionsMove

LEMMA LookKeeps ==
    ASSUME VerifierInv, UNCHANGED definitionVars, NEW c \in Caller, LookAtResponse(c)
    PROVE  VerifierInv'
  <1>1. call[c].at = "look" /\ UNCHANGED <<rp, session, marking, answers>>
    BY DEF LookAtResponse
  <1>2. c \in Request /\ told[c] # "none" /\ call \in [Caller -> VerifierCall] /\ session \in Sessions
        /\ told \in [Request -> Told]
    BY <1>1 DEF VerifierInv, VerifierType, CallsFit, Under, Fits
  <1> DEFINE s == IF session[c] = None \/ session[c].resp = "none" THEN "sent" ELSE session[c].resp
  <1>3. s \in Told \ {"none", "gone"}
    BY <1>2 DEF Sessions, Session, Told
  <1>4. told' = [told EXCEPT ![c] = s] /\ call' = [call EXCEPT ![c] = Silent]
    BY DEF LookAtResponse, Tell, End
  <1> HIDE DEF s
  <1>5. Under(c, Silent)'
    BY SilentIs, ReplyFits DEF Replies
  <1>6. call' \in [Caller -> VerifierCall] /\ CallsFit'
    BY <1>2, <1>3, <1>4, <1>5, SilentIs, CallsKept
  <1>7. \A d \in Caller : call'[d] # call[d] => call'[d].op = "none"
    BY <1>2, <1>4, SilentIs
  <1> QED
    BY <1>1, <1>2, <1>3, <1>4, <1>6, <1>7, SessionsMove

LEMMA MarkKeeps ==
    ASSUME VerifierInv, UNCHANGED definitionVars, NEW r \in Request, MarkSent(r)
    PROVE  VerifierInv'
  <1>1. UNCHANGED <<rp, call, told, answers>> /\ marking' \subseteq marking
    BY DEF MarkSent
  <1>2. session \in Sessions
    BY DEF VerifierInv, VerifierType
  <1>3. session' \in Sessions /\ \A q \in Request : session'[q] # None => session[q] # None
    <2>1. CASE session[r] = None
      BY <1>2, <2>1 DEF MarkSent
    <2>2. CASE session[r] # None
      <3> DEFINE s == [session[r] EXCEPT !.req = "sent"]
      <3>1. session[r] \in Session
        BY <1>2, <2>2 DEF Sessions
      <3>2. s \in Session
        BY <3>1 DEF Session
      <3>3. session' = [session EXCEPT ![r] = s]
        BY <2>2 DEF MarkSent
      <3> HIDE DEF s
      <3> QED
        BY <1>2, <2>2, <3>2, <3>3 DEF Sessions
    <2> QED
      BY <2>1, <2>2
  <1>4. CallsFit'
    BY <1>1 DEF VerifierInv, CallsFit, Under, Fits
  <1> QED
    BY <1>1, <1>3, <1>4, SessionsMove DEF VerifierInv, VerifierType

LEMMA StopKeeps ==
    ASSUME VerifierInv, UNCHANGED definitionVars, StopVerifier
    PROVE  VerifierInv'
  <1>1. \A c \in Caller : \/ call'[c] = Silent
                          \/ call'[c] = call[c] /\ call[c].at \in {"served", "accepted", "refused"}
    BY DEF StopVerifier
  <1>2. call' \in [Caller -> VerifierCall]
    BY SilentIs DEF StopVerifier, VerifierInv, VerifierType
  <1>3. rp' = None /\ session' = NoSessions /\ marking' = {} /\ UNCHANGED <<told, answers>>
    BY DEF StopVerifier
  <1>4. CallsFit'
    <2> SUFFICES ASSUME NEW c \in Caller PROVE Under(c, call[c])'
      BY DEF CallsFit
    <2>1. Under(c, Silent)'
      BY SilentIs, ReplyFits DEF Replies
    <2>2. Under(c, call[c])
      BY DEF VerifierInv, CallsFit
    <2> QED
      BY <1>1, <1>3, <2>1, <2>2 DEF Under, Fits
  <1>5. PartyIsRead'
    BY <1>1, <1>3, SilentIs DEF PartyIsRead
  <1> QED
    BY <1>2, <1>3, <1>4, <1>5, NoSessionsType DEF VerifierInv, VerifierType, SessionsKnown

LEMMA VerifierKeeps ==
    ASSUME EditorsInv, VerifierInv, VerifierStep, UNCHANGED definitionVars PROVE VerifierInv'
  <1>1. Run \subseteq Caller
    BY DEF Caller
  <1> QED
    BY <1>1, HandledKeeps, MissedKeeps, ReadKeeps, ArriveWithAnswerKeeps, EndKeeps, VerdictKeeps, LookKeeps,
       MarkKeeps, StopKeeps
    DEF VerifierStep, HandlesOrMisses

\* What was read stays, when definitions are edited, as it was then.
LEMMA VerifierStays ==
    ASSUME EditorsInv, VerifierInv, UNCHANGED verifierVars, Editing \/ UNCHANGED definitionVars
    PROVE  VerifierInv'
  <1>1. \A p \in Party : IsRead(p) => IsRead(p)'
    <2> SUFFICES ASSUME NEW p \in Party, IsRead(p) PROVE IsRead(p)'
      OBVIOUS
    <2>1. p.at \in Nat /\ changes \in Nat
      BY ChangesTell DEF Party
    <2>2. CASE UNCHANGED <<items, changes>>
      BY <2>2 DEF IsRead, OrNone, Served, ServedOf, HighestOf
    <2>3. CASE changes' > changes
      <3>1. changes' \in Nat
        BY EditorsStep DEF EditorsInv, EditorsType
      <3> QED
        BY <2>1, <2>3, <3>1 DEF IsRead
    <2> QED
      BY <2>2, <2>3, ChangesTell
  <1>2. \A c \in Caller : call[c].at = "building" => call[c].def \in Party
    BY DEF VerifierInv, VerifierType, CallsFit, Under, VerifierCall
  <1>3. rp # None => rp \in Party
    BY DEF VerifierInv, VerifierType
  <1>4. UNCHANGED <<rp, session, call, marking, told, answers>>
    BY DEF verifierVars
  <1>5. PartyIsRead'
    BY <1>1, <1>2, <1>3, <1>4 DEF VerifierInv, PartyIsRead, IsRead
  <1> QED
    BY <1>4, <1>5 DEF VerifierInv, VerifierType, CallsFit, Under, Fits, SessionsKnown

\* What a page was told is never taken back.
LEMMA ToldGrows ==
    ASSUME VerifierInv, VerifierStep, NEW r \in Request, told[r] # "none" PROVE told'[r] # "none"
  <1>1. told \in [Request -> Told] /\ session \in Sessions
    BY DEF VerifierInv, VerifierType
  <1>2. CASE told' = told
    BY <1>2
  <1>3. ASSUME NEW c \in Caller, HandlesOrMisses(c) PROVE told'[r] # "none"
    <2>1. PICK k \in VerifierCall : Missed(c, k) \/ \E p \in Party, ss \in Sessions : Handled(c, k, p, ss)
      BY <1>3 DEF HandlesOrMisses
    <2>2. CASE Missed(c, k)
      BY <2>2 DEF Missed
    <2>3. ASSUME NEW p \in Party, NEW ss \in Sessions, Handled(c, k, p, ss) PROVE told'[r] # "none"
      <3>1. CASE \E s \in {"created", "gone"} : told' = [told EXCEPT ![c] = s]
        BY <1>1, <3>1
      <3>2. told' = told \/ \E s \in {"created", "gone"} : told' = [told EXCEPT ![c] = s]
        BY <2>3 DEF Handled, Handle, Create, Poll, Delete, Fetch, Receive, Tell
      <3> QED
        BY <3>1, <3>2
    <2> QED
      BY <2>1, <2>2, <2>3
  <1>4. ASSUME NEW c \in Caller, LookAtResponse(c) PROVE told'[r] # "none"
    <2>1. c \in Request
      BY <1>4 DEF LookAtResponse, VerifierInv, CallsFit, Under, Fits
    <2>2. session[c] = None \/ session[c] \in Session
      BY <1>1, <2>1 DEF Sessions
    <2> QED
      BY <1>1, <1>4, <2>1, <2>2 DEF LookAtResponse, Tell, Session
  <1> QED
    BY <1>2, <1>3, <1>4
    DEF VerifierStep, ReadsForParty, ReadForParty, GiveVerdict, ArriveWithAnswer, MarkSent, StopVerifier
-----------------------------------------------------------------------------
(* The wallet. A run that has begun, and a saved one, is for a request     *)
(* whose page shows a link.                                                *)
States == {"idle", "dead"} \cup Waiting \cup Invoking \cup Final
RunContext == [flow : Run \cup {None}, req : Request \cup {None},
               asked : Payload \cup {None}, known : BOOLEAN]
Row == [st : {"idle"} \cup Waiting \cup Invoking, ctx : RunContext]

WalletType ==
    /\ st \in [Run -> States]
    /\ at \in [Run -> {"begin", "waiting", "stuck"}]
    /\ ctx \in [Run -> RunContext]
    /\ rows \in [Run -> Row]
    /\ opSession \subseteq Run
    /\ contact \in {"none", "name", "host"}
    /\ consents \in [Request -> Nat]

Linked(s, c) == s # "idle" => c.flow \in Run /\ c.req \in Request /\ told[c.req] # "none"

WalletInv ==
    /\ WalletType
    /\ \A w \in Run : Linked(st[w], ctx[w]) /\ Linked(rows[w].st, rows[w].ctx)
    /\ \A w \in Run : st[w] = "idle" => at[w] = "begin"
    /\ \A f \in Run : rows[f].st # "idle" => scene.saving /\ rows[f].ctx.flow = f

TypeInv == scene \in Scenes /\ EditorsInv /\ VerifierInv /\ WalletInv

LEMMA NoContextType ==
    /\ NoContext \in RunContext /\ NoRow \in Row /\ NoRow.st = "idle"
    /\ \A w \in Run, r \in Request :
          LET c == [NoContext EXCEPT !.flow = w, !.req = r] IN
          c \in RunContext /\ c.flow = w /\ c.req = r
  BY DEF NoContext, RunContext, NoRow, Row

LEMMA StateNames ==
    /\ Waiting \cup Invoking \subseteq States \ {"idle", "dead"} /\ Final \subseteq States \ {"idle", "dead"}
    /\ "dead" \in States /\ "idle" \in States
    /\ Final \cap (Waiting \cup Invoking) = {}
  BY DEF States, Waiting, Invoking, Final

LEMMA TypeInit == Init => TypeInv
  <1> SUFFICES ASSUME Init PROVE TypeInv
    OBVIOUS
  <1>1. scene \in Scenes /\ scene \in Scene
    BY DEF Init
  <1>2. VerifierInv
    <2>1. /\ rp = None /\ session = NoSessions /\ call = [c \in Caller |-> Silent] /\ marking = {}
          /\ told = [r \in Request |-> "none"] /\ answers = [r \in Request |-> 0]
      BY DEF Init, InitVerifier
    <2>2. VerifierType
      BY <2>1, SilentIs, NoSessionsType DEF VerifierType, Told
    <2>3. CallsFit
      BY <2>1, SilentIs, ReplyFits DEF CallsFit, Replies
    <2>4. SessionsKnown /\ PartyIsRead
      BY <2>1, SilentIs, NoSessionsType DEF SessionsKnown, PartyIsRead
    <2> QED
      BY <2>2, <2>3, <2>4 DEF VerifierInv
  <1>3. WalletInv
    <2>1. /\ st = [w \in Run |-> "idle"] /\ at = [w \in Run |-> "begin"] /\ ctx = [w \in Run |-> NoContext]
          /\ rows = [w \in Run |-> NoRow] /\ opSession = {} /\ contact \in scene.contacts
          /\ consents = [r \in Request |-> 0]
      BY DEF Init
    <2>2. contact \in {"none", "name", "host"}
      BY <1>1, <2>1 DEF Scene
    <2>3. WalletType
      BY <2>1, <2>2, NoContextType, StateNames DEF WalletType
    <2> QED
      BY <2>1, <2>3, NoContextType DEF WalletInv, Linked
  <1> QED
    BY <1>1, <1>2, <1>3, EditorsInit DEF TypeInv

\* The verifier's side of a step, and the editors'.
LEMMA VerifierSide ==
    ASSUME TypeInv, [Next]_vars
    PROVE  \/ VerifierStep /\ UNCHANGED definitionVars
           \/ UNCHANGED verifierVars /\ (Editing \/ UNCHANGED definitionVars)
  <1> DEFINE Quiet == UNCHANGED <<verifierVars, definitionVars>>
             Called2 == VerifierStep /\ UNCHANGED definitionVars
  <1>1. VerifierInv /\ scene \in Scene
    BY DEF TypeInv
  <1>2. ASSUME NEW w \in Run, Service(w) PROVE Called2 \/ Quiet
    <2>1. w \in Caller /\ ctx[w].asked \in Payload \cup {None} /\ Linked(st[w], ctx[w])
      BY DEF Caller, TypeInv, WalletInv, WalletType, RunContext
    <2>2. CASE GetSiopRequest(w)
      <3>1. /\ st[w] = "getSiopRequest" /\ Arrive(w, "fetch", ctx[w].req)
            /\ UNCHANGED definitionVars
        BY <2>2 DEF GetSiopRequest, In, Wait
      <3>2. ctx[w].req \in Request /\ told[ctx[w].req] # "none"
        BY <2>1, <3>1 DEF Linked
      <3> QED
        BY <1>1, <2>1, <3>1, <3>2, ArriveDoes DEF VerifierStep
    <2>3. CASE SendResponse(w)
      <3>1. /\ st[w] = "sendResponse" /\ ArriveWithAnswer(w, ctx[w].req, ctx[w].asked)
            /\ UNCHANGED definitionVars
        BY <2>3 DEF SendResponse, In, Wait
      <3>2. ctx[w].req \in Request /\ told[ctx[w].req] # "none"
        BY <2>1, <3>1 DEF Linked
      <3> QED
        BY <2>1, <3>1, <3>2 DEF VerifierStep
    <2>4. CASE ReceiveRequest(w) \/ ReceiveVerdict(w)
      <3>1. End(w) /\ UNCHANGED <<rp, session, marking, told, answers, definitionVars>>
        BY <2>4 DEF ReceiveRequest, ReceiveVerdict, Hear
      <3> QED
        BY <3>1 DEF VerifierStep
    <2>5. CASE \/ CreateConfig(w) \/ RetrieveContact(w) \/ AddContact(w)
               \/ GetSelectableCredentials(w) \/ SendWithoutSession(w)
      BY <2>5 DEF CreateConfig, RetrieveContact, AddContact, GetSelectableCredentials,
         SendWithoutSession, Alone
    <2> QED
      BY <1>2, <2>2, <2>3, <2>4, <2>5 DEF Service
  <1>3. ASSUME NEW w \in Run, UserActs(w) \/ SaveState(w) PROVE Quiet
    BY <1>3 DEF UserActs, OpenLink, ResumeForLink, SelectCredentials, GoBack, GiveUp, SaveState, Alone
  <1>4. ASSUME NEW c \in Caller, Serve(c) PROVE Called2
    BY <1>1, <1>4, GoOnDoes DEF Serve, VerifierStep, Scene
  <1>5. ASSUME NEW r \in Request, Visit(r) PROVE Called2
    <2>1. r \in Caller /\ UsePage(r) /\ UNCHANGED definitionVars
      BY <1>5 DEF Visit, Caller
    <2>2. HandlesOrMisses(r)
      <3>1. CASE told[r] = "none" /\ Arrive(r, "create", r)
        BY <1>1, <2>1, <3>1, ArriveDoes
      <3>2. ASSUME NEW op \in {"poll", "delete"}, told[r] # "none", Arrive(r, op, r) PROVE HandlesOrMisses(r)
        BY <1>1, <2>1, <3>2, ArriveDoes
      <3> QED
        BY <2>1, <3>1, <3>2 DEF UsePage
    <2> QED
      BY <2>1, <2>2 DEF VerifierStep
  <1>6. ASSUME NEW r \in Request, Mark(r) PROVE Called2
    BY <1>6 DEF Mark, VerifierStep
  <1>7. ASSUME NEW e \in Editor, GoOnEditing(e) PROVE UNCHANGED verifierVars /\ Editing
    BY <1>7 DEF GoOnEditing, Editing
  <1>8. ASSUME Edit PROVE UNCHANGED verifierVars /\ Editing
    BY <1>1, <1>8 DEF Edit, Editing, Scene
  <1>9. ASSUME StopWallet PROVE Quiet
    BY <1>9 DEF StopWallet
  <1>10. ASSUME CrashVerifier PROVE Called2
    BY <1>10 DEF CrashVerifier, VerifierStep
  <1>11. ASSUME UNCHANGED vars PROVE Quiet
    BY <1>11 DEF vars
  <1>12. scene.pages \subseteq Request
    BY <1>1 DEF Scene
  <1> HIDE DEF Called2, Quiet
  <1>13. Called2 \/ Quiet \/ (UNCHANGED verifierVars /\ Editing)
    BY <1>2, <1>3, <1>4, <1>5, <1>6, <1>7, <1>8, <1>9, <1>10, <1>11, <1>12 DEF Next
  <1> QED
    BY <1>13 DEF Called2, Quiet

LEMMA LinksStay ==
    ASSUME TypeInv, [Next]_vars, NEW s, NEW c, Linked(s, c) PROVE Linked(s, c)'
  <1>1. \A r \in Request : told[r] # "none" => told'[r] # "none"
    BY VerifierSide, ToldGrows DEF TypeInv, verifierVars
  <1> QED
    BY <1>1 DEF Linked

\* A run goes on, in another state or the same, for the request it is for.
LEMMA RunGoesOn ==
    ASSUME TypeInv, [Next]_vars, NEW w \in Run, NEW s \in States \ {"idle"},
           NEW b \in {"begin", "waiting", "stuck"}, NEW c \in RunContext,
           st' = [st EXCEPT ![w] = s], at' = [at EXCEPT ![w] = b], ctx' = [ctx EXCEPT ![w] = c],
           Linked(s, c), UNCHANGED <<rows, scene>>,
           opSession' \subseteq Run, contact' \in {"none", "name", "host"}, consents' \in [Request -> Nat]
    PROVE  WalletInv'
  <1>1. WalletType'
    BY DEF TypeInv, WalletInv, WalletType
  <1>2. \A v \in Run : Linked(st'[v], ctx'[v]) /\ Linked(rows[v].st, rows[v].ctx)
    BY DEF TypeInv, WalletInv, WalletType
  <1>3. told \in [Request -> Told] /\ \A r \in Request : told[r] # "none" => told'[r] # "none"
    BY VerifierSide, ToldGrows DEF TypeInv, VerifierInv, VerifierType, verifierVars
  <1>4. \A v \in Run : Linked(st[v], ctx[v])' /\ Linked(rows[v].st, rows[v].ctx)'
    BY <1>2, <1>3 DEF Linked
  <1>5. \A f \in Run : rows'[f].st # "idle" => scene'.saving /\ rows'[f].ctx.flow = f
    BY DEF TypeInv, WalletInv
  <1>6. \A v \in Run : st'[v] = "idle" => at'[v] = "begin"
    BY DEF TypeInv, WalletInv, WalletType
  <1> QED
    BY <1>1, <1>4, <1>5, <1>6 DEF WalletInv

\* The same, by Go and GoWith, when nothing but the run changes.
LEMMA GoKeeps ==
    ASSUME TypeInv, [Next]_vars, NEW w \in Run, NEW s \in States \ {"idle"}, NEW c \in RunContext,
           GoWith(w, s, c), Linked(s, c), UNCHANGED <<rows, scene>>,
           opSession' \subseteq Run, contact' \in {"none", "name", "host"}, consents' \in [Request -> Nat]
    PROVE  WalletInv'
  BY RunGoesOn DEF GoWith

LEMMA WalletStays ==
    ASSUME TypeInv, [Next]_vars, UNCHANGED <<st, ctx, rows, opSession, contact, consents, scene>>,
           at' \in [Run -> {"begin", "waiting", "stuck"}],
           \A w \in Run : st[w] = "idle" => at'[w] = at[w]
    PROVE  WalletInv'
  <1>1. \A r \in Request : told[r] # "none" => told'[r] # "none"
    BY VerifierSide, ToldGrows DEF TypeInv, verifierVars
  <1> QED
    BY <1>1 DEF TypeInv, WalletInv, WalletType, Linked

\* What the wallet's services do to a run.
LEMMA ServiceKeeps ==
    ASSUME TypeInv, [Next]_vars, NEW w \in Run, Service(w) PROVE WalletInv' /\ UNCHANGED scene
  <1> DEFINE c == ctx[w]
  <1>1. /\ c \in RunContext /\ Linked(st[w], c) /\ opSession \subseteq Run
        /\ contact \in {"none", "name", "host"} /\ consents \in [Request -> Nat]
        /\ st \in [Run -> States] /\ at \in [Run -> {"begin", "waiting", "stuck"}]
        /\ ctx \in [Run -> RunContext]
    BY DEF TypeInv, WalletInv, WalletType
  <1>2. \A s \in States \ {"idle"}, d \in RunContext :
           st[w] # "idle" /\ d.flow = c.flow /\ d.req = c.req => Linked(s, d)
    BY <1>1 DEF Linked
  <1>3. Waiting \cup Invoking \cup Final \subseteq States \ {"idle"}
    BY StateNames
  <1>4. UNCHANGED scene
    BY DEF Service, CreateConfig, GetSiopRequest, ReceiveRequest, RetrieveContact, AddContact,
       GetSelectableCredentials, SendResponse, SendWithoutSession, ReceiveVerdict, Alone, Wait, Hear
  <1>5. CASE CreateConfig(w)
    <2>1. GoWith(w, "getSiopRequest", c) /\ UNCHANGED <<rows, opSession, contact, consents>> /\ st[w] # "idle"
      BY <1>5 DEF CreateConfig, Go, In
    <2>2. "getSiopRequest" \in States \ {"idle"}
      BY DEF States, Invoking
    <2> QED
      BY <1>1, <1>2, <1>4, <2>1, <2>2, GoKeeps
  <1>6. CASE GetSiopRequest(w) \/ SendResponse(w)
    <2>1. Wait(w)
      BY <1>6 DEF GetSiopRequest, SendResponse
    <2>2. st[w] # "idle"
      BY <1>6 DEF GetSiopRequest, SendResponse, In
    <2> QED
      BY <1>1, <1>4, <2>1, <2>2, WalletStays DEF Wait
  <1>7. CASE ReceiveRequest(w)
    <2>1. UNCHANGED <<rows, contact, consents>> /\ st[w] = "getSiopRequest"
      BY <1>7 DEF ReceiveRequest, In
    <2>2. CASE call[w].at = "served"
      <3> DEFINE d == [c EXCEPT !.asked = call[w].seen]
      <3>1. call[w] \in VerifierCall
        BY DEF TypeInv, VerifierInv, VerifierType, Caller
      <3>2. d \in RunContext /\ d.flow = c.flow /\ d.req = c.req
        BY <1>1, <3>1 DEF RunContext, VerifierCall
      <3>3. GoWith(w, "retrieveContact", d) /\ opSession' = opSession \cup {c.flow}
        BY <1>7, <2>2 DEF ReceiveRequest
      <3>4. "retrieveContact" \in States \ {"idle"} /\ c.flow \in Run
        BY <1>1, <2>1 DEF States, Invoking, Linked
      <3> HIDE DEF d, c
      <3> QED
        BY <1>1, <1>2, <1>4, <2>1, <3>2, <3>3, <3>4, GoKeeps
    <2>3. CASE call[w].at # "served"
      <3>1. GoWith(w, "handleError", c) /\ UNCHANGED opSession
        BY <1>7, <2>3 DEF ReceiveRequest, Go
      <3>2. "handleError" \in States \ {"idle"}
        BY DEF States, Waiting
      <3> QED
        BY <1>1, <1>2, <1>4, <2>1, <3>1, <3>2, GoKeeps
    <2> QED
      BY <2>2, <2>3
  <1>8. ASSUME NEW d \in RunContext, d.flow = c.flow, d.req = c.req, st[w] # "idle",
               GoWith(w, AfterSetup(d), d), UNCHANGED <<rows, opSession, consents>>,
               contact' \in {"none", "name", "host"}
        PROVE  WalletInv'
    <2>1. AfterSetup(d) \in States \ {"idle"}
      BY DEF AfterSetup, States, Invoking
    <2> QED
      BY <1>1, <1>2, <1>4, <1>8, <2>1, GoKeeps
  <1>9. \A b \in BOOLEAN : LET d == [c EXCEPT !.known = b]
                           IN  d \in RunContext /\ d.flow = c.flow /\ d.req = c.req
    BY <1>1 DEF RunContext
  <1>10. CASE RetrieveContact(w)
    <2> DEFINE b == contact = "host"
               d == [c EXCEPT !.known = b]
    <2>1. /\ st[w] = "retrieveContact" /\ GoWith(w, AfterSetup(d), d)
          /\ UNCHANGED <<rows, opSession, contact, consents>>
      BY <1>10 DEF RetrieveContact, In
    <2>2. b \in BOOLEAN
      OBVIOUS
    <2> HIDE DEF b
    <2>3. d \in RunContext /\ d.flow = c.flow /\ d.req = c.req
      BY <1>9, <2>2
    <2>4. PICK e \in RunContext : e = d
      BY <2>3
    <2>5. e.flow = c.flow /\ e.req = c.req /\ GoWith(w, AfterSetup(e), e)
      BY <2>1, <2>3, <2>4
    <2>6. st[w] # "idle" /\ contact' \in {"none", "name", "host"} /\ UNCHANGED <<rows, opSession, consents>>
      BY <1>1, <2>1
    <2> HIDE DEF d
    <2> QED
      BY <1>4, <1>8, <2>5, <2>6
  <1>11. CASE AddContact(w)
    <2>1. st[w] = "addContact" /\ UNCHANGED <<rows, opSession, consents>>
      BY <1>11 DEF AddContact, In
    <2>2. CASE contact = "none"
      <3> DEFINE d == [c EXCEPT !.known = TRUE]
      <3>1. GoWith(w, AfterSetup(d), d) /\ contact' = "host"
        BY <1>11, <2>2 DEF AddContact
      <3>2. d \in RunContext /\ d.flow = c.flow /\ d.req = c.req
        BY <1>9
      <3>3. PICK e \in RunContext : e = d
        BY <3>2
      <3>4. e.flow = c.flow /\ e.req = c.req /\ GoWith(w, AfterSetup(e), e)
        BY <3>1, <3>2, <3>3
      <3>5. st[w] # "idle" /\ contact' \in {"none", "name", "host"}
        BY <2>1, <3>1
      <3> HIDE DEF d
      <3> QED
        BY <1>4, <1>8, <2>1, <3>4, <3>5
    <2>3. CASE contact # "none"
      BY <1>1, <1>4, <1>11, <2>1, <2>3, WalletStays DEF AddContact
    <2> QED
      BY <2>2, <2>3
  <1>12. CASE GetSelectableCredentials(w)
    <2>1. PICK s \in {"handleError", "selectCredentials"} : GoWith(w, s, c)
      BY <1>12, Zenon DEF GetSelectableCredentials, Go
    <2>2. s \in States \ {"idle"} /\ st[w] # "idle" /\ UNCHANGED <<rows, opSession, contact, consents>>
      BY <1>12 DEF GetSelectableCredentials, States, Waiting, In
    <2> QED
      BY <1>1, <1>2, <1>4, <2>1, <2>2, GoKeeps
  <1>13. CASE SendWithoutSession(w)
    <2>1. /\ GoWith(w, "handleError", c) /\ UNCHANGED <<rows, opSession, contact, consents>>
          /\ st[w] # "idle" /\ "handleError" \in States \ {"idle"}
      BY <1>13 DEF SendWithoutSession, Go, In, States, Waiting
    <2> QED
      BY <1>1, <1>2, <1>4, <2>1, GoKeeps
  <1>14. CASE ReceiveVerdict(w)
    <2>1. PICK s \in {"done", "handleError"} : GoWith(w, s, c)
      BY <1>14, Zenon DEF ReceiveVerdict, Go
    <2>2. s \in States \ {"idle"} /\ st[w] # "idle" /\ UNCHANGED <<rows, opSession, contact, consents>>
      BY <1>14 DEF ReceiveVerdict, States, Waiting, Final, In
    <2> QED
      BY <1>1, <1>2, <1>4, <2>1, <2>2, GoKeeps
  <1> QED
    BY <1>4, <1>5, <1>6, <1>7, <1>10, <1>11, <1>12, <1>13, <1>14 DEF Service

\* What the user does to a run, and the loss of the network.
LEMMA UserKeeps ==
    ASSUME TypeInv, [Next]_vars, NEW w \in Run, UserActs(w) PROVE WalletInv' /\ UNCHANGED scene
  <1> DEFINE c == ctx[w]
  <1>1. /\ c \in RunContext /\ Linked(st[w], c) /\ opSession \subseteq Run
        /\ contact \in {"none", "name", "host"} /\ consents \in [Request -> Nat]
        /\ st \in [Run -> States] /\ at \in [Run -> {"begin", "waiting", "stuck"}]
        /\ ctx \in [Run -> RunContext]
        /\ rows \in [Run -> Row] /\ \A f \in Run : Linked(rows[f].st, rows[f].ctx)
    BY DEF TypeInv, WalletInv, WalletType
  <1>2. UNCHANGED scene
    BY DEF UserActs, OpenLink, ResumeForLink, SelectCredentials, GoBack, GiveUp, Alone
  <1>3. CASE OpenLink(w)
    <2>1. PICK r \in Request : /\ told[r] # "none"
                               /\ GoWith(w, "createConfig", [NoContext EXCEPT !.flow = w, !.req = r])
      BY <1>3 DEF OpenLink
    <2>2. UNCHANGED <<rows, opSession, contact, consents>>
      BY <1>3 DEF OpenLink
    <2>3. PICK d : d = [NoContext EXCEPT !.flow = w, !.req = r]
      OBVIOUS
    <2>4. d \in RunContext /\ d.flow = w /\ d.req = r
      BY <2>3, NoContextType
    <2>5. GoWith(w, "createConfig", d) /\ Linked("createConfig", d)
      BY <2>1, <2>3, <2>4 DEF Linked
    <2>6. "createConfig" \in States \ {"idle"}
      BY DEF States, Invoking
    <2> QED
      BY <1>1, <1>2, <2>2, <2>4, <2>5, <2>6, GoKeeps
  <1>4. CASE ResumeForLink(w)
    <2>1. PICK f \in Saved : /\ st' = [st EXCEPT ![w] = rows[f].st]
                             /\ ctx' = [ctx EXCEPT ![w] = rows[f].ctx]
                             /\ at' = [at EXCEPT ![w] = IF rows[f].st \in Invoking THEN "stuck" ELSE "begin"]
      BY <1>4 DEF ResumeForLink
    <2>2. UNCHANGED <<rows, opSession, contact, consents>>
      BY <1>4 DEF ResumeForLink
    <2>3. f \in Run /\ rows[f] \in Row /\ rows[f].st # "idle" /\ Linked(rows[f].st, rows[f].ctx)
      BY <1>1, <2>1 DEF Saved
    <2>4. PICK s, d : s = rows[f].st /\ d = rows[f].ctx
      OBVIOUS
    <2>5. s \in States \ {"idle"} /\ d \in RunContext /\ Linked(s, d)
      BY <2>3, <2>4, StateNames DEF Row
    <2>6. PICK b \in {"begin", "waiting", "stuck"} : at' = [at EXCEPT ![w] = b]
      BY <2>1
    <2> QED
      BY <1>1, <1>2, <2>1, <2>2, <2>4, <2>5, <2>6, RunGoesOn
  <1>5. CASE SelectCredentials(w)
    <2>1. GoWith(w, "sendResponse", c) /\ UNCHANGED <<rows, opSession, contact>> /\ st[w] # "idle"
      BY <1>5 DEF SelectCredentials, Go, In
    <2>2. consents' = [consents EXCEPT ![c.req] = @ + 1]
      BY <1>5 DEF SelectCredentials
    <2>3. consents' \in [Request -> Nat] /\ "sendResponse" \in States \ {"idle"} /\ Linked("sendResponse", c)
      BY <1>1, <2>1, <2>2 DEF Linked, States, Invoking
    <2> QED
      BY <1>1, <1>2, <2>1, <2>3, GoKeeps
  <1>6. CASE GoBack(w)
    <2>1. PICK s \in {"declined", "aborted", "error"} : GoWith(w, s, c)
      BY <1>6, Zenon DEF GoBack, Go
    <2>2. st[w] # "idle" /\ UNCHANGED <<rows, opSession, contact, consents>> /\ s \in States \ {"idle"}
      BY <1>6 DEF GoBack, States, Final
    <2>3. Linked(s, c)
      BY <1>1, <2>2 DEF Linked
    <2> QED
      BY <1>1, <1>2, <2>1, <2>2, <2>3, GoKeeps
  <1>7. CASE GiveUp(w) /\ st[w] # "idle"
    <2>1. GoWith(w, "handleError", c) /\ UNCHANGED <<rows, opSession, contact, consents>>
      BY <1>7 DEF GiveUp, Go
    <2>2. "handleError" \in States \ {"idle"} /\ Linked("handleError", c)
      BY <1>1, <1>7 DEF Linked, States, Waiting
    <2> QED
      BY <1>1, <1>2, <2>1, <2>2, GoKeeps
  <1>8. GiveUp(w) => st[w] # "idle"
    BY DEF GiveUp, TypeInv, WalletInv
  <1> QED
    BY <1>2, <1>3, <1>4, <1>5, <1>6, <1>7, <1>8 DEF UserActs

\* A state is saved, or the wallet dies.
LEMMA SavingKeeps ==
    ASSUME TypeInv, [Next]_vars, NEW w \in Run, SaveState(w) PROVE WalletInv' /\ UNCHANGED scene
  <1> DEFINE f == ctx[w].flow
             x == IF st[w] \in Final THEN NoRow ELSE [st |-> st[w], ctx |-> ctx[w]]
  <1>1. /\ UNCHANGED <<scene, st, at, ctx, opSession, contact, consents>> /\ scene.saving
        /\ st[w] \in Waiting \cup Invoking \cup Final /\ rows' = [rows EXCEPT ![f] = x]
    BY DEF SaveState, Alone
  <1>2. WalletType /\ st[w] # "idle" /\ f \in Run /\ Linked(st[w], ctx[w])
    BY <1>1, StateNames DEF TypeInv, WalletInv, Linked
  <1>3. x \in Row /\ (x.st # "idle" => x.ctx.flow = f /\ Linked(x.st, x.ctx))
    BY <1>1, <1>2, NoContextType DEF WalletType, Row, Linked
  <1> HIDE DEF x, f
  <1>4. /\ rows' \in [Run -> Row]
        /\ \A g \in Run : (rows'[g] = x /\ g = f) \/ rows'[g] = rows[g]
    BY <1>1, <1>2, <1>3 DEF WalletType
  <1>5. \A r \in Request : told[r] # "none" => told'[r] # "none"
    BY VerifierSide, ToldGrows DEF TypeInv, verifierVars
  <1>6. WalletType'
    BY <1>1, <1>2, <1>4 DEF WalletType
  <1>7. \A g \in Run : Linked(st[g], ctx[g])'
    BY <1>1, <1>5 DEF TypeInv, WalletInv, Linked
  <1>8. ASSUME NEW g \in Run, rows'[g].st # "idle"
        PROVE  /\ rows'[g].ctx.flow = g
               /\ rows'[g].ctx.req \in Request /\ told'[rows'[g].ctx.req] # "none"
    <2>1. CASE rows'[g] = x /\ g = f
      BY <1>2, <1>3, <1>5, <1>8, <2>1 DEF Linked
    <2>2. CASE rows'[g] = rows[g]
      BY <1>5, <1>8, <2>2 DEF TypeInv, WalletInv, Linked
    <2> QED
      BY <1>4, <2>1, <2>2
  <1>9. \A v \in Run : st'[v] = "idle" => at'[v] = "begin"
    BY <1>1 DEF TypeInv, WalletInv
  <1> QED
    BY <1>1, <1>6, <1>7, <1>8, <1>9 DEF WalletInv, Linked

LEMMA StoppingKeeps ==
    ASSUME TypeInv, [Next]_vars, StopWallet PROVE WalletInv' /\ UNCHANGED scene
  <1>1. /\ st' = [w \in Run |-> IF st[w] \in {"idle"} \cup Final THEN st[w] ELSE "dead"]
        /\ at' = [w \in Run |-> "begin"] /\ opSession' = {}
        /\ UNCHANGED <<ctx, rows, contact, consents, scene>>
    BY DEF StopWallet
  <1>2. WalletType' /\ \A w \in Run : st'[w] # "idle" => st[w] # "idle"
    BY <1>1, StateNames DEF TypeInv, WalletInv, WalletType
  <1>3. \A r \in Request : told[r] # "none" => told'[r] # "none"
    BY VerifierSide, ToldGrows DEF TypeInv, verifierVars
  <1> QED
    BY <1>1, <1>2, <1>3 DEF TypeInv, WalletInv, Linked

\* Every step keeps the types, and what is behind them.
LEMMA TypeStep == TypeInv /\ [Next]_vars => TypeInv'
  <1> SUFFICES ASSUME TypeInv, [Next]_vars PROVE TypeInv'
    OBVIOUS
  <1>1. EditorsInv'
    <2>1. Editing \/ UNCHANGED definitionVars
      BY VerifierSide
    <2> QED
      BY <2>1, EditorsStep DEF TypeInv
  <1>2. VerifierInv'
    <2>1. CASE VerifierStep /\ UNCHANGED definitionVars
      BY <2>1, VerifierKeeps DEF TypeInv
    <2>2. CASE UNCHANGED verifierVars /\ (Editing \/ UNCHANGED definitionVars)
      BY <2>2, VerifierStays DEF TypeInv
    <2> QED
      BY <2>1, <2>2, VerifierSide
  <1>3. CASE \/ \E c \in Caller : Serve(c)
             \/ \E r \in Request : Visit(r) \/ Mark(r)
             \/ \E e \in Editor : GoOnEditing(e)
             \/ Edit \/ CrashVerifier \/ UNCHANGED vars
    <2>1. UNCHANGED <<scene, walletVars>>
      BY <1>3 DEF Serve, Visit, Mark, GoOnEditing, Edit, CrashVerifier, vars
    <2>2. at' \in [Run -> {"begin", "waiting", "stuck"}]
      BY <2>1 DEF TypeInv, WalletInv, WalletType, walletVars
    <2> QED
      BY <1>1, <1>2, <2>1, <2>2, WalletStays DEF TypeInv, walletVars
  <1>4. ASSUME NEW w \in Run, UserActs(w) \/ Service(w) \/ SaveState(w) PROVE TypeInv'
    BY <1>1, <1>2, <1>4, UserKeeps, ServiceKeeps, SavingKeeps DEF TypeInv
  <1>5. CASE StopWallet
    BY <1>1, <1>2, <1>5, StoppingKeeps DEF TypeInv
  <1>6. scene.pages \subseteq Request
    BY DEF TypeInv, Scene
  <1> QED
    BY <1>3, <1>4, <1>5, <1>6 DEF Next

LEMMA TypeAlways == Spec => []TypeInv
  BY TypeInit, TypeStep, PTL DEF Spec

LEMMA TypeIsOK == TypeInv => TypeOK
  <1> SUFFICES ASSUME TypeInv PROVE TypeOK
    OBVIOUS
  <1>1. DefinitionsTypeOK
    BY DEF TypeInv, EditorsInv, EditorsType, Rows, OwnRow, DefinitionsTypeOK, EditorCall
  <1>2. VerifierTypeOK
    BY <1>1 DEF TypeInv, VerifierInv, VerifierType, SessionsKnown, Sessions, Told, VerifierCall,
       VerifierTypeOK
  <1>3. ASSUME NEW w \in Run
        PROVE  /\ st[w] \in {"idle", "dead"} \cup Waiting \cup Invoking \cup Final
               /\ at[w] \in {"begin", "waiting", "stuck"} /\ ctx[w].asked \in Payload \cup {None}
               /\ st[w] # "idle" => ctx[w].flow \in Run /\ ctx[w].req \in Request
    BY DEF TypeInv, WalletInv, WalletType, States, RunContext, Linked
  <1> QED
    BY <1>2, <1>3 DEF TypeInv, WalletInv, WalletType, TypeOK

(* In any number of runs, pages and edits, with either side dying at any   *)
(* time: the relying party has sessions only while it is there, a request  *)
(* is marked only after its page made it, a call carries what it was made  *)
(* with, a run that has begun has a request, and a saved state is found    *)
(* under the flow it is of.                                                *)
THEOREM TypeCorrect == Spec => []TypeOK
  BY TypeAlways, TypeIsOK, PTL
-----------------------------------------------------------------------------
(* What the page is told. A request is judged once per answer; while there *)
(* is one answer, or none, what the page was told is behind the session.   *)
Judging(w, r) == call[w].at = "verdict" /\ call[w].req = r

Judged(r) ==
    /\ told[r] = "none" => answers[r] = 0
    /\ answers[r] = 0 => \A w \in Run : ~Judging(w, r)
    /\ answers[r] = 1 => \A v, w \in Run : Judging(v, r) /\ Judging(w, r) => v = w
    /\ session[r] # None =>
          /\ session[r].req = "created" => told[r] = "created" /\ call[r].at # "look"
          /\ session[r].resp = "none" <=> answers[r] = 0
          /\ answers[r] = 0 => told[r] \in {"created", "sent"}
          /\ answers[r] = 1 =>
                /\ told[r] \in {"created", "sent", "received", session[r].resp}
                /\ \A w \in Run : Judging(w, r) => session[r].resp = "received"

\* A request is lost, or its session and what its page was told stay.
LEMMA QuietKeeps ==
    ASSUME NEW r \in Request, Judged(r), answers'[r] = answers[r],
           \A w \in Run : Judging(w, r)' => Judging(w, r),
           \/ session'[r] = None /\ (told'[r] = "none" => told[r] = "none")
           \/ session'[r] = session[r] /\ told'[r] = told[r]
              /\ (call'[r].at = "look" => call[r].at = "look" \/ session[r].req = "sent")
    PROVE  Judged(r)'
  BY DEF Judged

\* The calls that handling k of c leaves.
LEMMA JudgingMoves ==
    ASSUME VerifierInv, NEW c \in Caller, NEW n, call' = [call EXCEPT ![c] = n],
           NEW r \in Request
    PROVE  /\ call'[c] = n /\ \A d \in Caller \ {c} : call'[d] = call[d]
           /\ n.at # "verdict" \/ n.req # r => \A w \in Run : Judging(w, r)' => Judging(w, r)
  BY DEF VerifierInv, VerifierType, Judging, Caller

LEMMA TellMoves ==
    ASSUME VerifierInv, NEW c \in Request, NEW s, told' = [told EXCEPT ![c] = s], NEW r \in Request
    PROVE  told'[r] = IF r = c THEN s ELSE told[r]
  BY DEF VerifierInv, VerifierType

\* The session of another request is kept, or lost with its relying party.
LEMMA JudgedHandled ==
    ASSUME VerifierInv, NEW c \in Caller, NEW k \in VerifierCall, NEW p \in Party, NEW ss \in Sessions,
           Handled(c, k, p, ss), NEW r \in Request, Judged(r)
    PROVE  Judged(r)'
  <1>1. /\ session \in Sessions /\ told \in [Request -> Told] /\ answers \in [Request -> Nat]
        /\ Fits(c, k) /\ (ss[r] = None \/ ss = session)
        /\ \A q \in Request : session[q] # None => told[q] \notin {"none", "gone"}
    BY NoSessionsType DEF VerifierInv, VerifierType, Handled, SessionsKnown
  <1>2. CASE Create(c, k, ss)
    <2>1. /\ session' = [ss EXCEPT ![c] = [req |-> "created", resp |-> "none"]]
          /\ told' = [told EXCEPT ![c] = "created"] /\ call' = [call EXCEPT ![c] = Silent]
          /\ UNCHANGED answers /\ c \in Request /\ told[c] = "none"
      BY <1>1, <1>2 DEF Create, Tell, End, Fits
    <2>2. \A w \in Run : Judging(w, r)' => Judging(w, r)
      BY <2>1, SilentIs, JudgingMoves
    <2>3. told'[r] = IF r = c THEN "created" ELSE told[r]
      BY <2>1, TellMoves
    <2>4. CASE r = c
      <3>1. session'[r] = [req |-> "created", resp |-> "none"] /\ call'[r] = Silent
        BY <2>1, <2>4, JudgingMoves DEF Sessions
      <3> QED
        BY <1>1, <2>1, <2>2, <2>3, <2>4, <3>1, SilentIs DEF Judged
    <2>5. CASE r # c
      <3>1. session'[r] = ss[r] /\ call'[r] = call[r]
        BY <2>1, <2>5, JudgingMoves DEF Sessions, Caller
      <3> QED
        BY <1>1, <2>1, <2>2, <2>3, <2>5, <3>1, QuietKeeps
    <2> QED
      BY <2>4, <2>5
  <1>3. CASE Poll(c, k, ss)
    <2>1. session' = ss /\ UNCHANGED answers /\ c \in Request
      BY <1>1, <1>3 DEF Poll, Fits
    <2>2. CASE call' = [call EXCEPT ![c] = [k EXCEPT !.at = "look"]] /\ ss[c].req = "sent" /\ told' = told
      <3>1. [k EXCEPT !.at = "look"].at = "look"
        BY DEF VerifierCall
      <3>2. \A w \in Run : Judging(w, r)' => Judging(w, r)
        BY <2>2, <3>1, JudgingMoves
      <3>3. r # c => call'[r] = call[r]
        BY <2>2, JudgingMoves DEF Caller
      <3> QED
        BY <1>1, <2>1, <2>2, <3>2, <3>3, QuietKeeps
    <2>3. ASSUME NEW s \in {"gone", "created"}, Tell(c, s),
                 ss[c] = None \/ (s = "created" /\ ss[c].req = "created")
          PROVE  Judged(r)'
      <3>1. call' = [call EXCEPT ![c] = Silent] /\ told' = [told EXCEPT ![c] = s]
        BY <2>3 DEF Tell, End
      <3>2. /\ \A w \in Run : Judging(w, r)' => Judging(w, r)
            /\ call'[r].at = "look" => call[r].at = "look"
        <4>1. Silent.at # "verdict" /\ Silent.at # "look" /\ r \in Caller
          BY SilentIs DEF Caller
        <4> QED
          BY <3>1, <4>1, JudgingMoves
      <3>3. told'[r] = IF r = c THEN s ELSE told[r]
        BY <2>1, <3>1, TellMoves
      <3>4. ss[r] # None /\ r = c => told'[r] = told[r]
        BY <1>1, <2>3, <3>3 DEF Judged
      <3> QED
        BY <1>1, <2>1, <2>3, <3>2, <3>3, <3>4, QuietKeeps
    <2> QED
      BY <1>3, <2>2, <2>3 DEF Poll, To
  <1>4. CASE Delete(c, k, ss) \/ Fetch(c, k, p, ss)
    <2>1. UNCHANGED <<told, answers>> /\ (session'[r] = None \/ session'[r] = ss[r])
      BY <1>4 DEF Delete, Fetch, Sessions
    <2>2. PICK n : call' = [call EXCEPT ![c] = n] /\ n.at \notin {"verdict", "look"}
      <3>1. \A s \in {"served", "refused"} : \A d : [Silent EXCEPT !.at = s, !.seen = d].at = s
        BY DEF Silent
      <3> QED
        BY <1>4, <3>1, SilentIs DEF Delete, Fetch, End, Reply
    <2>3. /\ \A w \in Run : Judging(w, r)' => Judging(w, r)
          /\ call'[r].at = "look" => call[r].at = "look"
      BY <2>2, JudgingMoves DEF Caller
    <2> QED
      BY <1>1, <2>1, <2>3, QuietKeeps
  <1>5. CASE Receive(c, k, ss)
    <2> DEFINE q == k.req
    <2>1. q \in Request /\ told[q] # "none" /\ UNCHANGED told /\ c \in Run
      BY <1>1, <1>5 DEF Receive, Fits
    <2>2. CASE ss[q] = None
      <3>1. session' = ss /\ UNCHANGED answers /\ Reply(c, "refused", None)
        BY <1>5, <2>2 DEF Receive
      <3>2. PICK n : call' = [call EXCEPT ![c] = n] /\ n.at = "refused"
        <4>1. [Silent EXCEPT !.at = "refused", !.seen = None].at = "refused"
          BY DEF Silent
        <4> QED
          BY <3>1, <4>1 DEF Reply
      <3>3. /\ \A w \in Run : Judging(w, r)' => Judging(w, r)
            /\ call'[r].at = "look" => call[r].at = "look"
        BY <3>2, JudgingMoves DEF Caller
      <3> QED
        BY <1>1, <2>1, <3>1, <3>3, QuietKeeps
    <2>3. CASE ss[q] # None
      <3>1. /\ ss = session /\ session' = [session EXCEPT ![q].resp = "received"]
            /\ answers' = [answers EXCEPT ![q] = @ + 1]
            /\ call' = [call EXCEPT ![c] = [k EXCEPT !.at = "verdict"]]
        BY <1>5, <2>1, <2>3, NoSessionsType DEF Receive, To, Handled
      <3>2. PICK n : n = [k EXCEPT !.at = "verdict"] /\ n.at = "verdict" /\ n.req = q
        <4>1. [k EXCEPT !.at = "verdict"].at = "verdict" /\ [k EXCEPT !.at = "verdict"].req = q
          BY DEF VerifierCall
        <4> QED
          BY <4>1
      <3>3. /\ call'[c] = n /\ \A d \in Caller \ {c} : call'[d] = call[d]
            /\ n.req # r => \A w \in Run : Judging(w, r)' => Judging(w, r)
        BY <3>1, <3>2, JudgingMoves
      <3>4. call'[r] = call[r]
        BY <2>1, <3>3 DEF Caller
      <3>5. CASE r # q
        <4>1. session'[r] = session[r] /\ answers'[r] = answers[r]
          BY <1>1, <2>1, <3>1, <3>5 DEF Sessions
        <4> QED
          BY <2>1, <3>2, <3>3, <3>4, <3>5, <4>1, QuietKeeps
      <3>6. CASE r = q
        <4>1. session[r] \in Session /\ session'[r] = [session[r] EXCEPT !.resp = "received"]
              /\ answers'[r] = answers[r] + 1 /\ answers[r] \in Nat
          BY <1>1, <2>3, <3>1, <3>6 DEF Sessions
        <4>2. session'[r].resp = "received" /\ session'[r].req = session[r].req /\ session[r] # None
          BY <4>1, <2>3, <3>1, <3>6 DEF Session
        <4>3. answers'[r] = 1 => answers[r] = 0 /\ \A w \in Run : Judging(w, r)' => w = c
          <5>1. \A w \in Run \ {c} : Judging(w, r)' => Judging(w, r)
            BY <3>3 DEF Judging, Caller
          <5> QED
            BY <4>1, <5>1 DEF Judged
        <4> QED
          BY <2>1, <3>4, <4>1, <4>2, <4>3 DEF Judged
      <3> QED
        BY <3>5, <3>6
    <2> QED
      BY <2>2, <2>3
  <1> QED
    BY <1>2, <1>3, <1>4, <1>5 DEF Handled, Handle

LEMMA JudgedVerdict ==
    ASSUME VerifierInv, NEW c \in Caller, GiveVerdict(c), NEW r \in Request, \A q \in Request : Judged(q)
    PROVE  Judged(r)'
  <1> DEFINE q == call[c].req
  <1>1. /\ session \in Sessions /\ answers \in [Request -> Nat] /\ told \in [Request -> Told]
        /\ call[c].at = "verdict" /\ q \in Request /\ c \in Run /\ UNCHANGED <<told, answers>>
    BY DEF VerifierInv, VerifierType, CallsFit, Under, Fits, GiveVerdict
  <1>2. PICK n : call' = [call EXCEPT ![c] = n] /\ n.at \in {"accepted", "refused"}
    <2>1. \A s \in {"accepted", "refused"} : \A d : [Silent EXCEPT !.at = s, !.seen = d].at = s
      BY DEF Silent
    <2> QED
      BY <2>1, Zenon DEF GiveVerdict, Reply
  <1>3. /\ call'[c] = n /\ call'[r] = call[r]
        /\ \A w \in Run : Judging(w, r)' => Judging(w, r) /\ w # c
    <2>1. /\ call'[c] = n /\ \A d \in Caller \ {c} : call'[d] = call[d]
          /\ \A w \in Run : Judging(w, r)' => Judging(w, r)
      BY <1>2, JudgingMoves
    <2>2. ~Judging(c, r)'
      BY <1>2, <2>1 DEF Judging
    <2>3. r \in Caller \ {c}
      BY <1>1 DEF Caller
    <2> QED
      BY <2>1, <2>2, <2>3
  <1>4. CASE session[q] = None \/ r # q
    <2>1. session'[r] = session[r]
      BY <1>1, <1>4 DEF GiveVerdict, Sessions
    <2> QED
      BY <1>1, <1>3, <2>1, QuietKeeps
  <1>5. CASE session[q] # None /\ r = q
    <2>1. PICK s \in {"verified", "error"} : session' = [session EXCEPT ![r].resp = s]
      BY <1>5, Zenon DEF GiveVerdict
    <2>2. session[r] \in Session /\ session'[r] = [session[r] EXCEPT !.resp = s]
      BY <1>1, <1>5, <2>1 DEF Sessions
    <2>3. session'[r].resp = s /\ session'[r].req = session[r].req /\ session[r] # None
      BY <1>5, <2>2 DEF Session
    <2>4. Judging(c, r) /\ Judged(r) /\ answers[r] \in Nat
      BY <1>1, <1>5 DEF Judging
    <2>5. answers[r] # 0 /\ (answers[r] = 1 => \A w \in Run : ~Judging(w, r)')
      BY <1>1, <1>3, <2>4 DEF Judged
    <2>6. answers[r] = 1 => session[r].resp = "received"
      BY <1>1, <2>3, <2>4 DEF Judged
    <2> QED
      BY <1>1, <1>3, <2>3, <2>4, <2>5, <2>6 DEF Judged
  <1> QED
    BY <1>4, <1>5

\* What a page is told when the response is looked up.
LookedUp(c) == IF session[c] = None \/ session[c].resp = "none" THEN "sent" ELSE session[c].resp

LEMMA JudgedLook ==
    ASSUME VerifierInv, NEW c \in Caller, LookAtResponse(c), NEW r \in Request, \A q \in Request : Judged(q)
    PROVE  Judged(r)' /\ c \in Request
  <1>1. /\ session \in Sessions /\ answers \in [Request -> Nat] /\ told \in [Request -> Told]
        /\ call[c].at = "look" /\ c \in Request /\ UNCHANGED <<session, answers>>
        /\ told' = [told EXCEPT ![c] = LookedUp(c)] /\ call' = [call EXCEPT ![c] = Silent]
    BY DEF VerifierInv, VerifierType, CallsFit, Under, Fits, LookAtResponse, LookedUp, Tell, End
  <1>2. Silent.at # "verdict" /\ Silent.at # "look" /\ r \in Caller
    BY SilentIs DEF Caller
  <1>3. /\ \A w \in Run : Judging(w, r)' => Judging(w, r)
        /\ call'[r].at = "look" => call[r].at = "look"
    BY <1>1, <1>2, JudgingMoves
  <1>4. told'[r] = IF r = c THEN LookedUp(c) ELSE told[r]
    BY <1>1, TellMoves
  <1>5. LookedUp(c) # "none" /\ (session[c] # None => session[c] \in Session)
    BY <1>1 DEF LookedUp, Sessions, Session
  <1>6. CASE r # c \/ session[r] = None
    BY <1>1, <1>3, <1>4, <1>5, <1>6, QuietKeeps
  <1>7. CASE r = c /\ session[r] # None
    BY <1>1, <1>3, <1>4, <1>5, <1>7 DEF Judged, LookedUp
  <1> QED
    BY <1>1, <1>6, <1>7

LEMMA JudgedKeeps ==
    ASSUME VerifierInv, VerifierStep, \A q \in Request : Judged(q), NEW r \in Request
    PROVE  Judged(r)'
  <1>1. session \in Sessions /\ r \in Caller
    BY DEF VerifierInv, VerifierType, Caller
  <1>2. ASSUME NEW c \in Caller, NEW n, call' = [call EXCEPT ![c] = n], n.at \notin {"verdict", "look"},
               UNCHANGED <<session, told, answers>>
        PROVE  Judged(r)'
    <2>1. /\ \A w \in Run : Judging(w, r)' => Judging(w, r)
          /\ call'[r].at = "look" => call[r].at = "look"
      BY <1>1, <1>2, JudgingMoves
    <2> QED
      BY <1>2, <2>1, QuietKeeps
  <1>3. ASSUME NEW c \in Caller, HandlesOrMisses(c) PROVE Judged(r)'
    <2>1. PICK k \in VerifierCall : Missed(c, k) \/ \E p \in Party, ss \in Sessions : Handled(c, k, p, ss)
      BY <1>3 DEF HandlesOrMisses
    <2>2. CASE Missed(c, k)
      <3>1. [k EXCEPT !.at = "missing"].at = "missing"
        BY DEF VerifierCall
      <3> QED
        BY <1>2, <2>2, <3>1 DEF Missed, To
    <2> QED
      BY <2>1, <2>2, JudgedHandled
  <1>4. ASSUME NEW c \in Caller, ReadsForParty(c) PROVE Judged(r)'
    <2>1. PICK d : call' = [call EXCEPT ![c].at = "building", ![c].def = d]
      BY <1>4 DEF ReadsForParty, ReadForParty
    <2>2. call \in [Caller -> VerifierCall]
      BY DEF VerifierInv, VerifierType
    <2>3. PICK n : n = [call[c] EXCEPT !.at = "building", !.def = d]
      OBVIOUS
    <2>4. n.at = "building" /\ call' = [call EXCEPT ![c] = n]
      BY <2>1, <2>2, <2>3 DEF VerifierCall
    <2> QED
      BY <1>2, <1>4, <2>4 DEF ReadsForParty, ReadForParty
  <1>5. ASSUME NEW w \in Run, NEW q \in Request, NEW vp, ArriveWithAnswer(w, q, vp) PROVE Judged(r)'
    <2>1. PICK d : IF d = None THEN Reply(w, "refused", None)
                   ELSE call' = [call EXCEPT ![w] = [Silent EXCEPT !.op = "answer", !.req = q, !.at = "party",
                                                                   !.vp = vp, !.seen = d]]
      BY <1>5 DEF ArriveWithAnswer
    <2>2. PICK n : call' = [call EXCEPT ![w] = n] /\ n.at \in {"refused", "party"}
      <3>1. [Silent EXCEPT !.at = "refused", !.seen = None].at = "refused"
        BY DEF Silent
      <3>2. [Silent EXCEPT !.op = "answer", !.req = q, !.at = "party", !.vp = vp, !.seen = d].at = "party"
        BY DEF Silent
      <3> QED
        BY <2>1, <3>1, <3>2 DEF Reply
    <2> QED
      BY <1>2, <1>5, <2>2 DEF ArriveWithAnswer, Caller
  <1>6. ASSUME NEW w \in Run, End(w), UNCHANGED <<session, told, answers>> PROVE Judged(r)'
    <2>1. w \in Caller /\ Silent.at \notin {"verdict", "look"} /\ call' = [call EXCEPT ![w] = Silent]
      BY <1>6, SilentIs DEF End, Caller
    <2> QED
      BY <1>2, <1>6, <2>1
  <1>7. ASSUME NEW q \in Request, MarkSent(q) PROVE Judged(r)'
    <2>1. UNCHANGED <<call, told, answers>>
      BY <1>7 DEF MarkSent
    <2>2. \/ session'[r] = session[r]
          \/ /\ session[r] # None /\ session[r] \in Session /\ session'[r].req = "sent"
             /\ session'[r].resp = session[r].resp
      <3>1. session' = IF session[q] = None THEN session ELSE [session EXCEPT ![q].req = "sent"]
        BY <1>7 DEF MarkSent
      <3>2. CASE q # r \/ session[q] = None
        BY <1>1, <3>1, <3>2 DEF Sessions
      <3>3. CASE q = r /\ session[q] # None
        BY <1>1, <3>1, <3>3 DEF Sessions, Session
      <3> QED
        BY <3>2, <3>3
    <2> QED
      BY <2>1, <2>2 DEF Judged, Judging
  <1>8. CASE StopVerifier
    <2>1. session'[r] = None /\ UNCHANGED <<told, answers>>
          /\ call' = [c \in Caller |-> IF call[c].at \in {"served", "accepted", "refused"}
                                       THEN call[c] ELSE Silent]
      BY <1>8, NoSessionsType DEF StopVerifier
    <2>2. \A w \in Run : Judging(w, r)' => Judging(w, r)
      BY <2>1, SilentIs DEF Judging, Caller
    <2> QED
      BY <2>1, <2>2, QuietKeeps
  <1> QED
    BY <1>3, <1>4, <1>5, <1>6, <1>7, <1>8, JudgedVerdict, JudgedLook DEF VerifierStep

JudgedInv == \A r \in Request : Judged(r)

LEMMA JudgedInit == Init => JudgedInv
  BY SilentIs DEF Init, InitVerifier, NoSessions, JudgedInv, Judged, Judging, Caller

LEMMA JudgedStep == TypeInv /\ JudgedInv /\ [Next]_vars => JudgedInv'
  <1> SUFFICES ASSUME TypeInv, JudgedInv, [Next]_vars PROVE JudgedInv'
    OBVIOUS
  <1>1. CASE VerifierStep
    BY <1>1, JudgedKeeps DEF TypeInv, JudgedInv
  <1>2. CASE UNCHANGED verifierVars
    BY <1>2 DEF JudgedInv, Judged, Judging, verifierVars
  <1> QED
    BY <1>1, <1>2, VerifierSide

LEMMA JudgedAlways == Spec => []JudgedInv
  BY TypeAlways, JudgedInit, JudgedStep, PTL DEF Spec

LEMMA RankIs ==
    /\ Rank("none") = 1 /\ Rank("created") = 2 /\ Rank("sent") = 3 /\ Rank("received") = 4
    /\ Rank("verified") = 5 /\ Rank("error") = 5
  <1>1. /\ \A i \in 1..5 : Progress[i] = "none" <=> i = 1
        /\ \A i \in 1..5 : Progress[i] = "created" <=> i = 2
        /\ \A i \in 1..5 : Progress[i] = "sent" <=> i = 3
        /\ \A i \in 1..5 : Progress[i] = "received" <=> i = 4
        /\ \A i \in 1..5 : Progress[i] = "verified" <=> i = 5
    BY DEF Progress
  <1>2. ASSUME NEW s, s # "error", NEW n \in 1..5, \A i \in 1..5 : Progress[i] = s <=> i = n
        PROVE  Rank(s) = n
    BY <1>2 DEF Rank
  <1> HIDE DEF Progress
  <1>3. Rank("error") = 5
    BY DEF Rank
  <1> QED
    BY <1>1, <1>2, <1>3

\* What a page is told next.
LEMMA ToldMoves ==
    ASSUME VerifierInv, JudgedInv, VerifierStep, NEW r \in Request
    PROVE  \/ told'[r] = told[r] \/ told'[r] = "gone"
           \/ told[r] = "none" /\ told'[r] = "created"
           \/ told'[r] = LookedUp(r)
  <1>1. ASSUME NEW c \in Caller, NEW k \in VerifierCall, NEW p \in Party, NEW ss \in Sessions,
               Handled(c, k, p, ss)
        PROVE  \/ told'[r] = told[r] \/ told'[r] = "gone"
               \/ told[r] = "none" /\ told'[r] = "created"
    <2>1. CASE Create(c, k, ss)
      <3>1. told' = [told EXCEPT ![c] = "created"] /\ c \in Request /\ told[c] = "none"
        BY <1>1, <2>1 DEF Create, Tell, Handled, Fits
      <3> QED
        BY <3>1, TellMoves
    <2>2. CASE Poll(c, k, ss)
      <3>1. c \in Request /\ (ss = session \/ ss[c] = None)
        BY <1>1, <2>2, NoSessionsType DEF Poll, Handled, Fits
      <3>2. CASE told' = told
        BY <3>2
      <3>3. CASE told' = [told EXCEPT ![c] = "gone"]
        BY <3>1, <3>3, TellMoves
      <3>4. CASE ss[c] # None /\ ss[c].req = "created" /\ told' = [told EXCEPT ![c] = "created"]
        <4>1. told'[r] = IF r = c THEN "created" ELSE told[r]
          BY <3>1, <3>4, TellMoves
        <4>2. told[c] = "created"
          BY <3>1, <3>4 DEF JudgedInv, Judged
        <4> QED
          BY <4>1, <4>2
      <3> QED
        BY <2>2, <3>2, <3>3, <3>4 DEF Poll, Tell
    <2>3. CASE Delete(c, k, ss) \/ Fetch(c, k, p, ss) \/ Receive(c, k, ss)
      BY <2>3 DEF Delete, Fetch, Receive
    <2> QED
      BY <1>1, <2>1, <2>2, <2>3 DEF Handled, Handle
  <1>2. ASSUME NEW c \in Caller, HandlesOrMisses(c)
        PROVE  \/ told'[r] = told[r] \/ told'[r] = "gone"
               \/ told[r] = "none" /\ told'[r] = "created"
    BY <1>1, <1>2 DEF HandlesOrMisses, Missed
  <1>3. ASSUME NEW c \in Caller, LookAtResponse(c)
        PROVE  told'[r] = told[r] \/ told'[r] = LookedUp(r)
    <2>1. c \in Request /\ told' = [told EXCEPT ![c] = LookedUp(c)]
      BY <1>3 DEF LookAtResponse, Tell, LookedUp, VerifierInv, CallsFit, Under, Fits
    <2> QED
      BY <2>1, TellMoves
  <1> QED
    BY <1>2, <1>3
    DEF VerifierStep, ReadsForParty, ReadForParty, GiveVerdict, ArriveWithAnswer, MarkSent, StopVerifier

\* Whatever the page of a request is told is further on than what it was.
PagesMoveOn ==
    \A r \in Request :
        told'[r] = told[r] \/ told'[r] = "gone" \/ answers[r] > 1 \/ session[r] = None
        \/ (told[r] # "gone" /\ Rank(told'[r]) > Rank(told[r]))

LEMMA PollsMoveOn == TypeInv /\ JudgedInv /\ [Next]_vars => PagesMoveOn
  <1> SUFFICES ASSUME TypeInv, JudgedInv, [Next]_vars, NEW r \in Request,
                      told'[r] # told[r], told'[r] # "gone", session[r] # None, answers[r] <= 1
               PROVE  told[r] # "gone" /\ Rank(told'[r]) > Rank(told[r])
    BY DEF TypeInv, VerifierInv, VerifierType, PagesMoveOn
  <1>1. VerifierStep
    BY VerifierSide DEF verifierVars
  <1>2. told[r] \notin {"none", "gone"} /\ session[r] \in Session /\ answers[r] \in {0, 1} /\ Judged(r)
    BY DEF TypeInv, VerifierInv, VerifierType, SessionsKnown, Sessions, JudgedInv
  <1>3. told'[r] = LookedUp(r)
    BY <1>1, <1>2, ToldMoves DEF TypeInv
  <1>4. \/ told'[r] = "sent" /\ told[r] \in {"created", "sent"}
        \/ told'[r] = session[r].resp /\ session[r].resp \in {"received", "verified", "error"}
           /\ told[r] \in {"created", "sent", "received", session[r].resp}
    BY <1>2, <1>3 DEF LookedUp, Judged, Session
  <1> QED
    BY <1>2, <1>4, RankIs

(* The status a page polls goes forward only: although the lookup of the   *)
(* request and the one of the response are two, and the mark that it was   *)
(* sent comes late, a poll never reports less than one before it did,      *)
(* unless a second answer was taken up or the request is gone.             *)
THEOREM PollsGoForward == Spec => PolledForward
  <1>1. TypeInv /\ JudgedInv /\ [Next]_vars =>
          [\A r \in Request :
              told'[r] = told[r] \/ told'[r] = "gone" \/ answers[r] > 1 \/ session[r] = None
              \/ (told[r] # "gone" /\ Rank(told'[r]) > Rank(told[r]))]_vars
    BY PollsMoveOn DEF PagesMoveOn
  <1> QED
    BY <1>1, TypeAlways, JudgedAlways, PTL DEF Spec, PolledForward
-----------------------------------------------------------------------------
(* The calls of a run. A run that is at the start of something has no call *)
(* left with the verifier.                                                 *)
Over == {"handleError", "dead"} \cup Final
Ready(w) == st[w] \notin Over /\ at[w] = "begin" => call[w].at = "idle"
ReadyInv == \A w \in Run : Ready(w)

\* A step of one caller's call leaves those of the others.
LEMMA CallsApart ==
    ASSUME VerifierInv, NEW c \in Caller,
           \/ HandlesOrMisses(c) \/ ReadsForParty(c) \/ GiveVerdict(c) \/ LookAtResponse(c) \/ End(c)
           \/ \E r \in Request : \E vp : ArriveWithAnswer(c, r, vp),
           NEW d \in Caller \ {c}
    PROVE  call'[d] = call[d]
  <1>1. \A n : call' = [call EXCEPT ![c] = n] => call'[d] = call[d]
    BY DEF VerifierInv, VerifierType
  <1>2. ASSUME HandlesOrMisses(c) PROVE \E n : call' = [call EXCEPT ![c] = n]
    <2> DEFINE Moved == \E n : call' = [call EXCEPT ![c] = n]
    <2>1. /\ \A k, step : To(c, k, step) => Moved
          /\ \A outcome, seen : Reply(c, outcome, seen) => Moved
          /\ End(c) => Moved
          /\ \A s : Tell(c, s) => Moved
      BY DEF To, Reply, End, Tell
    <2> HIDE DEF Moved
    <2>2. \A k, p, ss : Handle(c, k, p, ss) => Moved
      BY <2>1 DEF Handle, Create, Poll, Delete, Fetch, Receive
    <2>3. Moved
      BY <1>2, <2>1, <2>2 DEF HandlesOrMisses, Missed, Handled
    <2> QED
      BY <2>3 DEF Moved
  <1>3. ASSUME ReadsForParty(c) PROVE call'[d] = call[d]
    BY <1>3 DEF ReadsForParty, ReadForParty, VerifierInv, VerifierType
  <1>4. ASSUME GiveVerdict(c) \/ LookAtResponse(c) \/ End(c) PROVE \E n : call' = [call EXCEPT ![c] = n]
    BY <1>4 DEF GiveVerdict, LookAtResponse, Reply, Tell, End
  <1>5. ASSUME NEW r \in Request, NEW vp, ArriveWithAnswer(c, r, vp)
        PROVE  \E n : call' = [call EXCEPT ![c] = n]
    BY <1>5 DEF ArriveWithAnswer, Reply
  <1> QED
    BY <1>1, <1>2, <1>3, <1>4, <1>5

\* What a step of a run, or of its user, leaves to the other runs.
Apart(w) ==
    \A v \in Run \ {w} : st'[v] = st[v] /\ at'[v] = at[v] /\ ctx'[v] = ctx[v] /\ call'[v] = call[v]

LEMMA WalletApart ==
    ASSUME TypeInv, NEW w \in Run, UserActs(w) \/ Service(w) \/ SaveState(w)
    PROVE  Apart(w)
  <1>1. /\ st \in [Run -> States] /\ at \in [Run -> {"begin", "waiting", "stuck"}]
        /\ ctx \in [Run -> RunContext] /\ Run \subseteq Caller /\ VerifierInv
    BY DEF TypeInv, WalletInv, WalletType, Caller
  <1> DEFINE Own == \A v \in Run \ {w} : st'[v] = st[v] /\ at'[v] = at[v] /\ ctx'[v] = ctx[v]
  <1>2. \A s, c : GoWith(w, s, c) => Own
    BY <1>1 DEF GoWith
  <1>3. Wait(w) => Own
    BY <1>1 DEF Wait
  <1> HIDE DEF Own
  <1>4. ASSUME UserActs(w) \/ SaveState(w) PROVE Apart(w)
    <2>1. UNCHANGED call
      BY <1>4 DEF UserActs, OpenLink, ResumeForLink, SelectCredentials, GoBack, GiveUp, SaveState,
         Alone, verifierVars
    <2>2. ResumeForLink(w) => Own
      BY <1>1 DEF ResumeForLink, Own
    <2>3. SaveState(w) => Own
      BY DEF SaveState, Own
    <2>4. Own
      BY <1>2, <1>4, <2>2, <2>3 DEF UserActs, OpenLink, SelectCredentials, GoBack, GiveUp, Go
    <2> QED
      BY <2>1, <2>4 DEF Own, Apart
  <1>5. ASSUME GetSiopRequest(w) PROVE Apart(w)
    <2>1. HandlesOrMisses(w)
      <3>1. /\ st[w] = "getSiopRequest" /\ Arrive(w, "fetch", ctx[w].req)
        BY <1>5 DEF GetSiopRequest, In
      <3>2. ctx[w].req \in Request /\ told[ctx[w].req] # "none"
        BY <3>1 DEF Linked, TypeInv, WalletInv
      <3> QED
        BY <1>1, <3>1, <3>2, ArriveDoes
    <2> QED
      BY <1>1, <1>3, <1>5, <2>1, CallsApart DEF GetSiopRequest, Own, Apart
  <1>6. ASSUME SendResponse(w) PROVE Apart(w)
    <2>1. /\ st[w] = "sendResponse" /\ ArriveWithAnswer(w, ctx[w].req, ctx[w].asked)
      BY <1>6 DEF SendResponse, In
    <2>2. ctx[w].req \in Request
      BY <2>1 DEF Linked, TypeInv, WalletInv
    <2> QED
      BY <1>1, <1>3, <1>6, <2>1, <2>2, CallsApart DEF SendResponse, Own, Apart
  <1>7. ASSUME ReceiveRequest(w) \/ ReceiveVerdict(w) PROVE Apart(w)
    BY <1>1, <1>2, <1>7, CallsApart DEF ReceiveRequest, ReceiveVerdict, Hear, Go, Own, Apart
  <1>8. ASSUME \/ CreateConfig(w) \/ RetrieveContact(w) \/ AddContact(w)
               \/ GetSelectableCredentials(w) \/ SendWithoutSession(w)
        PROVE  Apart(w)
    <2>1. UNCHANGED call
      BY <1>8 DEF CreateConfig, RetrieveContact, AddContact, GetSelectableCredentials, SendWithoutSession,
         Alone, verifierVars
    <2>2. AddContact(w) => Own
      BY <1>1, <1>2 DEF AddContact, Own
    <2>3. Own
      BY <1>2, <1>8, <2>2 DEF CreateConfig, RetrieveContact, GetSelectableCredentials, SendWithoutSession, Go
    <2> QED
      BY <2>1, <2>3 DEF Own, Apart
  <1> QED
    BY <1>4, <1>5, <1>6, <1>7, <1>8 DEF Service

\* What the verifier does for a caller, apart from taking its call.
Serving(c) ==
    /\ HandlesOrMisses(c) \/ ReadsForParty(c) \/ GiveVerdict(c) \/ LookAtResponse(c)
    /\ c \in Run => call[c].at # "idle"
    /\ UNCHANGED <<scene, walletVars, definitionVars>>

\* The kinds of steps, with what they leave alone.
LEMMA StepsAre ==
    ASSUME TypeInv, [Next]_vars
    PROVE  \/ \E w \in Run : UserActs(w) \/ Service(w) \/ SaveState(w)
           \/ \E c \in Caller : Serving(c)
           \/ (\E r \in Request : MarkSent(r)) /\ UNCHANGED <<scene, walletVars, definitionVars>>
           \/ StopVerifier /\ UNCHANGED <<scene, walletVars, definitionVars>>
           \/ StopWallet
           \/ (Editing \/ UNCHANGED definitionVars) /\ UNCHANGED <<scene, walletVars, verifierVars>>
  <1>1. VerifierInv /\ scene \in Scene
    BY DEF TypeInv
  <1>2. ASSUME NEW c \in Caller, Serve(c) PROVE Serving(c)
    <2>1. GoOn(c, scene.version) /\ UNCHANGED <<scene, walletVars, definitionVars>>
      BY <1>2 DEF Serve
    <2>2. call[c].at # "idle"
      BY <2>1 DEF GoOn, Proceed, ReadsForParty, ReadForParty, Build, GiveVerdict, LookAtResponse
    <2> QED
      BY <1>1, <2>1, <2>2, GoOnDoes DEF Serving, Scene
  <1>3. ASSUME NEW r \in Request, Visit(r) PROVE r \in Caller /\ Serving(r)
    <2>1. r \in Caller /\ r \notin Run /\ UsePage(r) /\ UNCHANGED <<scene, walletVars, definitionVars>>
      BY <1>3 DEF Visit, Caller
    <2>2. CASE told[r] = "none" /\ Arrive(r, "create", r)
      BY <1>1, <2>1, <2>2, ArriveDoes DEF Serving
    <2>3. ASSUME NEW op \in {"poll", "delete"}, told[r] # "none", Arrive(r, op, r) PROVE Serving(r)
      BY <1>1, <2>1, <2>3, ArriveDoes DEF Serving
    <2> QED
      BY <2>1, <2>2, <2>3 DEF UsePage
  <1>4. ASSUME NEW e \in Editor, GoOnEditing(e) PROVE Editing /\ UNCHANGED <<scene, walletVars, verifierVars>>
    BY <1>4 DEF GoOnEditing, Editing
  <1>5. Edit => Editing /\ UNCHANGED <<scene, walletVars, verifierVars>>
    BY <1>1 DEF Edit, Editing, Scene
  <1>6. UNCHANGED vars => UNCHANGED <<scene, walletVars, verifierVars, definitionVars>>
    BY DEF vars
  <1>7. scene.pages \subseteq Request
    BY <1>1 DEF Scene
  <1> QED
    BY <1>2, <1>3, <1>4, <1>5, <1>6, <1>7 DEF Next, Mark, CrashVerifier

LEMMA ReadyInit == Init => ReadyInv
  BY SilentIs DEF Init, InitVerifier, ReadyInv, Ready, Caller

LEMMA ReadyStep == TypeInv /\ ReadyInv /\ [Next]_vars => ReadyInv'
  <1> SUFFICES ASSUME TypeInv, ReadyInv, [Next]_vars, NEW v \in Run PROVE Ready(v)'
    BY DEF ReadyInv
  <1>1. /\ st \in [Run -> States] /\ at \in [Run -> {"begin", "waiting", "stuck"}]
        /\ ctx \in [Run -> RunContext] /\ v \in Caller /\ VerifierInv
        /\ call \in [Caller -> VerifierCall] /\ Ready(v)
    BY DEF TypeInv, WalletInv, WalletType, Caller, VerifierInv, VerifierType, ReadyInv
  <1>2. ASSUME NEW w \in Run, UserActs(w) \/ Service(w) \/ SaveState(w) PROVE Ready(v)'
    <2>1. CASE v # w
      BY <1>1, <1>2, <2>1, WalletApart DEF Apart, Ready
    <2>2. CASE v = w /\ (GetSiopRequest(w) \/ SendResponse(w))
      BY <1>1, <2>2 DEF GetSiopRequest, SendResponse, Wait, Ready
    <2>3. CASE v = w /\ (ReceiveRequest(w) \/ ReceiveVerdict(w))
      <3>1. End(w)
        BY <2>3 DEF ReceiveRequest, ReceiveVerdict, Hear
      <3> QED
        BY <1>1, <2>3, <3>1, SilentIs DEF End, Ready
    <2>4. CASE v = w /\ (GoBack(w) \/ GiveUp(w))
      <3>1. PICK s \in Over : Go(w, s)
        BY <2>4 DEF GoBack, GiveUp, Over, Final
      <3> QED
        BY <1>1, <2>4, <3>1 DEF Go, GoWith, Ready
    <2>5. CASE v = w /\ (OpenLink(w) \/ ResumeForLink(w))
      <3>1. st[w] = "idle" /\ UNCHANGED call
        BY <2>5 DEF OpenLink, ResumeForLink, Alone, verifierVars
      <3>2. call[w].at = "idle"
        BY <1>1, <2>5, <3>1 DEF TypeInv, WalletInv, Ready, Over, Final
      <3> QED
        BY <2>5, <3>1, <3>2 DEF Ready
    <2>6. CASE v = w /\ (\/ CreateConfig(w) \/ RetrieveContact(w) \/ AddContact(w) \/ SelectCredentials(w)
                         \/ GetSelectableCredentials(w) \/ SendWithoutSession(w) \/ SaveState(w))
      <3>1. UNCHANGED call
        BY <2>6 DEF CreateConfig, RetrieveContact, AddContact, GetSelectableCredentials, SelectCredentials,
           SendWithoutSession, SaveState, Alone, verifierVars
      <3>2. SaveState(w) => Ready(w)'
        BY <1>1, <2>6, <3>1 DEF SaveState, Ready
      <3>3. ~SaveState(w) => st[w] \notin Over /\ at[w] = "begin"
        BY <2>6 DEF CreateConfig, RetrieveContact, AddContact, GetSelectableCredentials, SelectCredentials,
           SendWithoutSession, In, Over, Final
      <3> QED
        BY <1>1, <2>6, <3>1, <3>2, <3>3 DEF Ready
    <2> QED
      BY <1>2, <2>1, <2>2, <2>3, <2>4, <2>5, <2>6 DEF UserActs, Service
  <1>3. ASSUME NEW c \in Caller, Serving(c) PROVE Ready(v)'
    <2>1. UNCHANGED <<st, at>>
      BY <1>3 DEF Serving, walletVars
    <2>2. CASE c = v
      BY <1>1, <1>3, <2>1, <2>2 DEF Serving, Ready
    <2>3. CASE c # v
      <3>1. call'[v] = call[v]
        BY <1>1, <1>3, <2>3, CallsApart DEF Serving
      <3> QED
        BY <1>1, <2>1, <3>1 DEF Ready
    <2> QED
      BY <2>2, <2>3
  <1>4. ASSUME NEW r \in Request, MarkSent(r), UNCHANGED walletVars PROVE Ready(v)'
    BY <1>1, <1>4 DEF MarkSent, walletVars, Ready
  <1>5. CASE StopVerifier /\ UNCHANGED walletVars
    BY <1>1, <1>5, SilentIs DEF StopVerifier, walletVars, Ready
  <1>6. CASE StopWallet
    BY <1>1, <1>6 DEF StopWallet, TypeInv, WalletInv, Ready, Over, verifierVars
  <1>7. CASE UNCHANGED <<walletVars, verifierVars>>
    BY <1>1, <1>7 DEF walletVars, verifierVars, Ready
  <1> QED
    BY <1>2, <1>3, <1>4, <1>5, <1>6, <1>7, StepsAre
-----------------------------------------------------------------------------
(* Consent. The answers still to come to a request: those a run is about   *)
(* to send, and those sent and not taken up yet. There was a consent for   *)
(* each of them and for each answer that was taken up.                     *)
DueToSend(w, r) == st[w] = "sendResponse" /\ at[w] = "begin" /\ ctx[w].req = r
DueCall(w, r) == call[w].op = "answer" /\ call[w].at # "verdict" /\ call[w].req = r

Due(r) == {w \in Run : DueToSend(w, r) \/ DueCall(w, r)}

Owed(r) == IsFiniteSet(Due(r)) /\ answers[r] + Cardinality(Due(r)) <= consents[r]
ConsentInv == \A r \in Request : Owed(r)

LEMMA ConsentInit == Init => ConsentInv
  <1> SUFFICES ASSUME Init, NEW r \in Request PROVE Owed(r)
    BY DEF ConsentInv
  <1>1. answers[r] = 0 /\ consents[r] = 0
    BY DEF Init, InitVerifier
  <1>2. Due(r) = {}
    BY SilentIs DEF Init, InitVerifier, Due, DueToSend, DueCall, Caller
  <1> QED
    BY <1>1, <1>2, FS_EmptySet DEF Owed

\* Fewer answers are due.
LEMMA DueShrinks ==
    ASSUME TypeInv, NEW r \in Request, Owed(r), answers'[r] = answers[r], consents'[r] = consents[r],
           \A w \in Run : DueToSend(w, r)' \/ DueCall(w, r)' => DueToSend(w, r) \/ DueCall(w, r)
    PROVE  Owed(r)'
  <1>1. Due(r)' \subseteq Due(r) /\ IsFiniteSet(Due(r))
    BY DEF Due, Owed
  <1>2. IsFiniteSet(Due(r)') /\ Cardinality(Due(r)') <= Cardinality(Due(r))
    BY <1>1, FS_Subset
  <1>3. Cardinality(Due(r)) \in Nat /\ Cardinality(Due(r)') \in Nat
    BY <1>1, <1>2, FS_CardinalityType
  <1>4. answers[r] \in Nat /\ consents[r] \in Nat
    BY DEF TypeInv, VerifierInv, VerifierType, WalletInv, WalletType
  <1> QED
    BY <1>2, <1>3, <1>4 DEF Owed

\* An answer is taken up, and due no more.
LEMMA DueIsMet ==
    ASSUME TypeInv, NEW r \in Request, Owed(r), answers'[r] = answers[r] + 1, consents'[r] = consents[r],
           NEW c \in Run, c \in Due(r), Due(r)' \subseteq Due(r) \ {c}
    PROVE  Owed(r)'
  <1>1. IsFiniteSet(Due(r)) /\ answers[r] + Cardinality(Due(r)) <= consents[r]
    BY DEF Owed
  <1>2. IsFiniteSet(Due(r) \ {c}) /\ Cardinality(Due(r) \ {c}) = Cardinality(Due(r)) - 1
    BY <1>1, FS_RemoveElement
  <1>3. IsFiniteSet(Due(r)') /\ Cardinality(Due(r)') <= Cardinality(Due(r) \ {c})
    BY <1>2, FS_Subset
  <1>4. Cardinality(Due(r)) \in Nat /\ Cardinality(Due(r)') \in Nat
    BY <1>1, <1>3, FS_CardinalityType
  <1>5. answers[r] \in Nat /\ consents[r] \in Nat
    BY DEF TypeInv, VerifierInv, VerifierType, WalletInv, WalletType
  <1> QED
    BY <1>1, <1>2, <1>3, <1>4, <1>5 DEF Owed

\* What handling a call does to the answers that are due.
LEMMA HandledDue ==
    ASSUME VerifierInv, NEW c \in Caller, NEW k \in VerifierCall, NEW p \in Party, NEW ss \in Sessions,
           Handled(c, k, p, ss), NEW r \in Request
    PROVE  \/ answers'[r] = answers[r] /\ (DueCall(c, r)' => DueCall(c, r))
           \/ c \in Run /\ answers'[r] = answers[r] + 1 /\ DueCall(c, r) /\ ~DueCall(c, r)'
  <1>1. /\ call \in [Caller -> VerifierCall] /\ answers \in [Request -> Nat] /\ Fits(c, k)
        /\ Continues(c, k) /\ (UNCHANGED answers \/ k.op = "answer")
    BY DEF VerifierInv, VerifierType, Handled, Handle, Create, Poll, Delete, Fetch, Receive
  <1>2. \A n : call' = [call EXCEPT ![c] = n] => call'[c] = n
    BY <1>1
  <1>3. CASE Create(c, k, ss) \/ Poll(c, k, ss) \/ Delete(c, k, ss) \/ Fetch(c, k, p, ss)
    <2>1. k.op # "answer" /\ UNCHANGED answers
      BY <1>3 DEF Create, Poll, Delete, Fetch
    <2>2. call'[c].op # "answer"
      <3>1. /\ Silent.op # "answer" /\ [k EXCEPT !.at = "look"].op # "answer"
            /\ \A s, d : [Silent EXCEPT !.at = s, !.seen = d].op # "answer"
        BY <2>1 DEF Silent, VerifierCall
      <3>2. \E n : call' = [call EXCEPT ![c] = n] /\ n.op # "answer"
        BY <1>3, <3>1, Zenon DEF Create, Poll, Delete, Fetch, Tell, End, Reply, To
      <3> QED
        BY <1>2, <3>2
    <2> QED
      BY <2>1, <2>2 DEF DueCall
  <1>4. CASE Receive(c, k, ss)
    <2>1. k.op = "answer" /\ c \in Run /\ k.req \in Request
      BY <1>1, <1>4 DEF Receive, Fits
    <2>2. DueCall(c, k.req)
      BY <1>1, <2>1 DEF Handled, Continues, DueCall
    <2>3. CASE ss[k.req] = None
      <3>1. UNCHANGED answers /\ Reply(c, "refused", None)
        BY <1>4, <2>3 DEF Receive
      <3>2. [Silent EXCEPT !.at = "refused", !.seen = None].op # "answer"
        BY DEF Silent
      <3> QED
        BY <1>2, <3>1, <3>2 DEF Reply, DueCall
    <2>4. CASE ss[k.req] # None
      <3>1. /\ answers' = [answers EXCEPT ![k.req] = @ + 1]
            /\ call' = [call EXCEPT ![c] = [k EXCEPT !.at = "verdict"]]
        BY <1>4, <2>4 DEF Receive, To
      <3>2. [k EXCEPT !.at = "verdict"].at = "verdict"
        BY DEF VerifierCall
      <3>3. ~DueCall(c, r)'
        BY <1>2, <3>1, <3>2 DEF DueCall
      <3> QED
        BY <1>1, <2>1, <2>2, <3>1, <3>3
    <2> QED
      BY <2>3, <2>4
  <1> QED
    BY <1>3, <1>4 DEF Handled, Handle

LEMMA ServingDue ==
    ASSUME VerifierInv, NEW c \in Caller, Serving(c), NEW r \in Request
    PROVE  \/ answers'[r] = answers[r] /\ (DueCall(c, r)' => DueCall(c, r))
           \/ c \in Run /\ answers'[r] = answers[r] + 1 /\ DueCall(c, r) /\ ~DueCall(c, r)'
  <1>1. call \in [Caller -> VerifierCall]
    BY DEF VerifierInv, VerifierType
  <1>2. ASSUME NEW k \in VerifierCall, Missed(c, k)
        PROVE  answers' = answers /\ (DueCall(c, r)' => DueCall(c, r))
    <2>1. call'[c] = [k EXCEPT !.at = "missing"] /\ UNCHANGED answers /\ Continues(c, k)
      BY <1>1, <1>2 DEF Missed, To
    <2>2. [k EXCEPT !.at = "missing"].op = k.op /\ [k EXCEPT !.at = "missing"].req = k.req
      BY DEF VerifierCall
    <2> QED
      BY <2>1, <2>2 DEF DueCall, Continues
  <1>3. ASSUME ReadsForParty(c) PROVE answers' = answers /\ (DueCall(c, r)' => DueCall(c, r))
    BY <1>1, <1>3 DEF ReadsForParty, ReadForParty, DueCall, VerifierCall
  <1>4. ASSUME GiveVerdict(c) \/ LookAtResponse(c) PROVE answers' = answers /\ ~DueCall(c, r)'
    <2>1. Silent.op # "answer" /\ \A s, d : [Silent EXCEPT !.at = s, !.seen = d].op # "answer"
      BY DEF Silent
    <2>2. PICK n : call' = [call EXCEPT ![c] = n] /\ n.op # "answer"
      <3>1. CASE GiveVerdict(c)
        BY <2>1, <3>1 DEF GiveVerdict, Reply
      <3>2. CASE LookAtResponse(c)
        BY <2>1, <3>2 DEF LookAtResponse, Tell, End
      <3> QED
        BY <1>4, <3>1, <3>2
    <2> QED
      BY <1>1, <1>4, <2>2 DEF GiveVerdict, LookAtResponse, DueCall
  <1> QED
    BY <1>2, <1>3, <1>4, HandledDue DEF Serving, HandlesOrMisses

\* What is due of a run, by what it does or its user.
LEMMA WalletDue ==
    ASSUME TypeInv, ReadyInv, NEW w \in Run, UserActs(w) \/ Service(w) \/ SaveState(w), NEW r \in Request
    PROVE  /\ answers' = answers
           /\ SelectCredentials(w) \/ consents' = consents
           /\ \/ DueToSend(w, r)' \/ DueCall(w, r)' => DueToSend(w, r) \/ DueCall(w, r)
              \/ SelectCredentials(w) /\ ctx[w].req = r
  <1>1. /\ st \in [Run -> States] /\ at \in [Run -> {"begin", "waiting", "stuck"}]
        /\ ctx \in [Run -> RunContext] /\ w \in Caller /\ VerifierInv
        /\ call \in [Caller -> VerifierCall] /\ Ready(w)
    BY DEF TypeInv, WalletInv, WalletType, Caller, VerifierInv, VerifierType, ReadyInv
  <1>2. \A s, c : GoWith(w, s, c) => st'[w] = s /\ ctx'[w] = c
    BY <1>1 DEF GoWith
  <1> DEFINE Away == \E s, c : GoWith(w, s, c) /\ s # "sendResponse"
  <1>3. Away => ~DueToSend(w, r)'
    BY <1>2 DEF DueToSend
  <1>4. Away /\ UNCHANGED call => (DueToSend(w, r)' \/ DueCall(w, r)' => DueToSend(w, r) \/ DueCall(w, r))
    BY <1>3 DEF DueCall
  <1>a. \A s, c : GoWith(w, s, c) /\ s # "sendResponse" => Away
    OBVIOUS
  <1> HIDE DEF Away
  <1>5. ASSUME \/ OpenLink(w) \/ GoBack(w) \/ GiveUp(w) \/ CreateConfig(w)
               \/ RetrieveContact(w) \/ GetSelectableCredentials(w) \/ SendWithoutSession(w)
        PROVE  /\ answers' = answers /\ consents' = consents
               /\ DueToSend(w, r)' \/ DueCall(w, r)' => DueToSend(w, r) \/ DueCall(w, r)
    <2>1. UNCHANGED <<call, answers, consents>>
      BY <1>5 DEF OpenLink, GoBack, GiveUp, CreateConfig, RetrieveContact, GetSelectableCredentials,
         SendWithoutSession, Alone, verifierVars
    <2>2. Away
      <3>1. \A c : AfterSetup(c) # "sendResponse"
        BY DEF AfterSetup
      <3> QED
        BY <1>5, <1>a, <3>1 DEF OpenLink, GoBack, GiveUp, CreateConfig, RetrieveContact,
           GetSelectableCredentials, SendWithoutSession, Go
    <2> QED
      BY <1>4, <2>1, <2>2
  <1>6. ASSUME ReceiveRequest(w) \/ ReceiveVerdict(w)
        PROVE  answers' = answers /\ consents' = consents /\ ~DueToSend(w, r)' /\ ~DueCall(w, r)'
    <2>1. UNCHANGED <<answers, consents>> /\ End(w)
      BY <1>6 DEF ReceiveRequest, ReceiveVerdict, Hear
    <2>2. Away
      BY <1>6, <1>a DEF ReceiveRequest, ReceiveVerdict, Go
    <2>3. call'[w] = Silent
      BY <1>1, <2>1 DEF End
    <2> QED
      BY <1>3, <2>1, <2>2, <2>3, SilentIs DEF DueCall
  <1>7. ASSUME ResumeForLink(w)
        PROVE  /\ answers' = answers /\ consents' = consents
               /\ ~DueToSend(w, r)' /\ (DueCall(w, r)' => DueCall(w, r))
    <2>1. UNCHANGED <<call, answers, consents>>
      BY <1>7 DEF ResumeForLink, Alone, verifierVars
    <2>2. ~DueToSend(w, r)'
      BY <1>1, <1>7 DEF ResumeForLink, DueToSend, Invoking
    <2> QED
      BY <2>1, <2>2 DEF DueCall
  <1>8. ASSUME AddContact(w) \/ SaveState(w)
        PROVE  /\ answers' = answers /\ consents' = consents
               /\ DueToSend(w, r)' \/ DueCall(w, r)' => DueToSend(w, r) \/ DueCall(w, r)
    <2>1. UNCHANGED <<call, answers, consents>>
      BY <1>8 DEF AddContact, SaveState, Alone, verifierVars
    <2>2. CASE SaveState(w)
      BY <2>1, <2>2 DEF SaveState, DueToSend, DueCall
    <2>3. CASE AddContact(w) /\ contact = "none"
      <3>1. Away
        BY <2>3, <1>a DEF AddContact, AfterSetup
      <3> QED
        BY <1>4, <2>1, <3>1
    <2>4. CASE AddContact(w) /\ contact # "none"
      BY <1>1, <2>1, <2>4 DEF AddContact, In, DueToSend, DueCall
    <2> QED
      BY <1>8, <2>2, <2>3, <2>4
  <1>9. ASSUME GetSiopRequest(w)
        PROVE  /\ answers' = answers /\ consents' = consents
               /\ ~DueToSend(w, r)' /\ (DueCall(w, r)' => DueCall(w, r))
    <2>1. /\ st[w] = "getSiopRequest" /\ Arrive(w, "fetch", ctx[w].req) /\ UNCHANGED consents
          /\ at'[w] = "waiting" /\ call[w].at = "idle"
      BY <1>1, <1>9 DEF GetSiopRequest, In, Wait, Arrive
    <2>2. ctx[w].req \in Request /\ told[ctx[w].req] # "none"
      BY <2>1 DEF Linked, TypeInv, WalletInv
    <2>3. PICK k \in VerifierCall : /\ k.op = "fetch"
                                    /\ Missed(w, k) \/ \E p \in Party, ss \in Sessions : Handled(w, k, p, ss)
      BY <1>1, <2>1, <2>2, ArriveDoes
    <2>4. CASE Missed(w, k)
      <3>1. call'[w] = [k EXCEPT !.at = "missing"] /\ UNCHANGED answers
        BY <1>1, <2>4 DEF Missed, To
      <3>2. [k EXCEPT !.at = "missing"].op = "fetch"
        BY <2>3 DEF VerifierCall
      <3> QED
        BY <2>1, <3>1, <3>2 DEF DueToSend, DueCall
    <2>5. ASSUME NEW p \in Party, NEW ss \in Sessions, Handled(w, k, p, ss)
          PROVE  answers' = answers /\ (DueCall(w, r)' => DueCall(w, r))
      <3>1. Fetch(w, k, p, ss)
        BY <2>3, <2>5 DEF Handled, Handle, Create, Poll, Delete, Receive
      <3>2. \A s, d : [Silent EXCEPT !.at = s, !.seen = d].op # "answer"
        BY DEF Silent
      <3>3. \E n : call' = [call EXCEPT ![w] = n] /\ n.op # "answer"
        BY <3>1, <3>2, Zenon DEF Fetch, Reply
      <3> QED
        BY <1>1, <3>1, <3>3 DEF Fetch, DueCall
    <2> QED
      BY <2>1, <2>3, <2>4, <2>5 DEF DueToSend
  <1>10. ASSUME SendResponse(w)
         PROVE  /\ answers' = answers /\ consents' = consents
                /\ DueToSend(w, r)' \/ DueCall(w, r)' => DueToSend(w, r) \/ DueCall(w, r)
    <2>1. /\ st[w] = "sendResponse" /\ at[w] = "begin" /\ UNCHANGED <<consents, answers>>
          /\ at'[w] = "waiting" /\ ArriveWithAnswer(w, ctx[w].req, ctx[w].asked)
      BY <1>1, <1>10 DEF SendResponse, In, Wait, ArriveWithAnswer
    <2>2. PICK d : IF d = None THEN Reply(w, "refused", None)
                   ELSE call' = [call EXCEPT ![w] = [Silent EXCEPT !.op = "answer", !.req = ctx[w].req,
                                   !.at = "party", !.vp = ctx[w].asked, !.seen = d]]
      BY <2>1 DEF ArriveWithAnswer
    <2>3. /\ [Silent EXCEPT !.op = "answer", !.req = ctx[w].req,
                            !.at = "party", !.vp = ctx[w].asked, !.seen = d].req = ctx[w].req
          /\ [Silent EXCEPT !.at = "refused", !.seen = None].op # "answer"
      BY DEF Silent
    <2>4. DueCall(w, r)' => ctx[w].req = r
      BY <1>1, <2>2, <2>3 DEF Reply, DueCall
    <2> QED
      BY <2>1, <2>4 DEF DueToSend
  <1>11. ASSUME SelectCredentials(w)
         PROVE  /\ answers' = answers
                /\ DueToSend(w, r)' \/ DueCall(w, r)' => DueCall(w, r) \/ ctx[w].req = r
    BY <1>2, <1>11 DEF SelectCredentials, Go, Alone, verifierVars, DueToSend, DueCall
  <1> QED
    BY <1>5, <1>6, <1>7, <1>8, <1>9, <1>10, <1>11 DEF UserActs, Service

\* The user chooses credentials: one more consent, and one more answer is due.
LEMMA ConsentDue ==
    ASSUME TypeInv, NEW w \in Run, SelectCredentials(w), NEW r \in Request, ctx[w].req = r, Owed(r),
           answers' = answers, Due(r)' \subseteq Due(r) \cup {w}
    PROVE  Owed(r)'
  <1>1. answers[r] \in Nat /\ consents[r] \in Nat /\ consents'[r] = consents[r] + 1
    BY DEF TypeInv, VerifierInv, VerifierType, WalletInv, WalletType, SelectCredentials
  <1>2. IsFiniteSet(Due(r)) /\ answers[r] + Cardinality(Due(r)) <= consents[r]
    BY DEF Owed
  <1>3. /\ IsFiniteSet(Due(r) \cup {w})
        /\ Cardinality(Due(r) \cup {w}) \in {Cardinality(Due(r)), Cardinality(Due(r)) + 1}
    BY <1>2, FS_AddElement
  <1>4. IsFiniteSet(Due(r)') /\ Cardinality(Due(r)') <= Cardinality(Due(r) \cup {w})
    BY <1>3, FS_Subset
  <1>5. Cardinality(Due(r)) \in Nat /\ Cardinality(Due(r)') \in Nat
    BY <1>2, <1>4, FS_CardinalityType
  <1> QED
    BY <1>1, <1>2, <1>3, <1>4, <1>5 DEF Owed

LEMMA ConsentStep == TypeInv /\ ReadyInv /\ ConsentInv /\ [Next]_vars => ConsentInv'
  <1> SUFFICES ASSUME TypeInv, ReadyInv, ConsentInv, [Next]_vars, NEW r \in Request PROVE Owed(r)'
    BY DEF ConsentInv
  <1>1. VerifierInv /\ Owed(r) /\ Run \subseteq Caller /\ call \in [Caller -> VerifierCall]
    BY DEF TypeInv, ConsentInv, Caller, VerifierInv, VerifierType
  <1>2. ASSUME NEW w \in Run, UserActs(w) \/ Service(w) \/ SaveState(w) PROVE Owed(r)'
    <2>1. \A v \in Run \ {w} : DueToSend(v, r)' \/ DueCall(v, r)' => DueToSend(v, r) \/ DueCall(v, r)
      BY <1>2, WalletApart DEF Apart, DueToSend, DueCall
    <2>2. /\ answers' = answers
          /\ SelectCredentials(w) \/ consents' = consents
          /\ \/ DueToSend(w, r)' \/ DueCall(w, r)' => DueToSend(w, r) \/ DueCall(w, r)
             \/ SelectCredentials(w) /\ ctx[w].req = r
      BY <1>2, WalletDue
    <2>3. CASE SelectCredentials(w) /\ ctx[w].req = r
      <3>1. Due(r)' \subseteq Due(r) \cup {w}
        BY <2>1 DEF Due
      <3> QED
        BY <1>1, <2>2, <2>3, <3>1, ConsentDue
    <2>4. CASE ~(SelectCredentials(w) /\ ctx[w].req = r)
      <3>1. consents'[r] = consents[r]
        BY <2>2, <2>4 DEF SelectCredentials, TypeInv, WalletInv, WalletType
      <3> QED
        BY <1>1, <2>1, <2>2, <2>4, <3>1, DueShrinks
    <2> QED
      BY <2>3, <2>4
  <1>3. ASSUME NEW c \in Caller, Serving(c) PROVE Owed(r)'
    <2>1. UNCHANGED <<st, at, ctx, consents>>
      BY <1>3 DEF Serving, walletVars
    <2>2. \A v \in Run \ {c} : DueToSend(v, r)' = DueToSend(v, r) /\ DueCall(v, r)' = DueCall(v, r)
      BY <1>1, <1>3, <2>1, CallsApart DEF Serving, DueToSend, DueCall
    <2>3. CASE answers'[r] = answers[r] /\ (DueCall(c, r)' => DueCall(c, r))
      <3>1. \A v \in Run : DueToSend(v, r)' \/ DueCall(v, r)' => DueToSend(v, r) \/ DueCall(v, r)
        BY <2>1, <2>2, <2>3 DEF DueToSend
      <3> QED
        BY <1>1, <2>1, <2>3, <3>1, DueShrinks
    <2>4. CASE c \in Run /\ answers'[r] = answers[r] + 1 /\ DueCall(c, r) /\ ~DueCall(c, r)'
      <3>1. ~DueToSend(c, r)'
        BY <1>3, <2>1, <2>4 DEF Serving, ReadyInv, Ready, DueToSend, Over, Final
      <3>2. c \in Due(r) /\ Due(r)' \subseteq Due(r) \ {c}
        BY <2>2, <2>4, <3>1 DEF Due
      <3> QED
        BY <1>1, <2>1, <2>4, <3>2, DueIsMet
    <2> QED
      BY <1>1, <1>3, <2>3, <2>4, ServingDue
  <1>4. ASSUME UNCHANGED <<answers, consents, ctx>>,
               \A v \in Run : st'[v] = "sendResponse" => st[v] = "sendResponse" /\ at'[v] = at[v],
               \A v \in Run : DueCall(v, r)' => DueCall(v, r)
        PROVE  Owed(r)'
    <2>1. \A v \in Run : DueToSend(v, r)' \/ DueCall(v, r)' => DueToSend(v, r) \/ DueCall(v, r)
      BY <1>4 DEF DueToSend
    <2> QED
      BY <1>1, <1>4, <2>1, DueShrinks
  <1>5. ASSUME NEW q \in Request, MarkSent(q), UNCHANGED walletVars PROVE Owed(r)'
    BY <1>4, <1>5 DEF MarkSent, walletVars, DueCall
  <1>6. CASE StopVerifier /\ UNCHANGED walletVars
    <2>1. \A v \in Run : DueCall(v, r)' => DueCall(v, r)
      BY <1>1, <1>6, SilentIs DEF StopVerifier, DueCall
    <2> QED
      BY <1>4, <1>6, <2>1 DEF StopVerifier, walletVars
  <1>7. CASE StopWallet
    <2>1. \A v \in Run : st'[v] # "sendResponse"
      BY <1>7 DEF StopWallet, Final
    <2> QED
      BY <1>4, <1>7, <2>1 DEF StopWallet, verifierVars, DueCall
  <1>8. CASE UNCHANGED <<walletVars, verifierVars>>
    BY <1>4, <1>8 DEF walletVars, verifierVars, DueCall
  <1> QED
    BY <1>2, <1>3, <1>5, <1>6, <1>7, <1>8, StepsAre

LEMMA ConsentAlways == Spec => [](ReadyInv /\ ConsentInv)
  BY TypeAlways, ReadyInit, ReadyStep, ConsentInit, ConsentStep, PTL DEF Spec

LEMMA OwedIsConsent == TypeInv /\ ConsentInv => AnswersAreConsented
  <1> SUFFICES ASSUME TypeInv, ConsentInv, NEW r \in Request PROVE answers[r] <= consents[r]
    BY DEF AnswersAreConsented
  <1>1. IsFiniteSet(Due(r)) /\ answers[r] + Cardinality(Due(r)) <= consents[r]
    BY DEF ConsentInv, Owed
  <1>2. Cardinality(Due(r)) \in Nat
    BY <1>1, FS_CardinalityType
  <1> QED
    BY <1>1, <1>2 DEF TypeInv, VerifierInv, VerifierType, WalletInv, WalletType

(* The verifier never takes up more answers to a request than its user     *)
(* consented to, although a run can be resumed from a saved state, more    *)
(* than once, give a call up that goes on at the verifier, or die in it.   *)
THEOREM AnswersNeedConsent == Spec => []AnswersAreConsented
  BY TypeAlways, ConsentAlways, OwedIsConsent, PTL
-----------------------------------------------------------------------------
(* The exchange implements CredentialPresentation. *)
Lost == {r \in Request : told[r] # "none"}

LEMMA SameStatus ==
    ASSUME NEW r \in Request, told'[r] = "none" <=> told[r] = "none",
           session'[r] = None <=> session[r] = None,
           session[r] # None => session'[r].resp = session[r].resp
    PROVE  Status(r)' = Status(r)
  BY DEF Status

LEMMA LostStatus ==
    ASSUME NEW r \in Request, told'[r] = "none" <=> told[r] = "none", session'[r] = None
    PROVE  Status(r)' = IF r \in Lost THEN "gone" ELSE Status(r)
  BY DEF Status, Lost

\* A step that keeps the status of all requests, or loses them.
LEMMA Stutters ==
    ASSUME \A r \in Request : Status(r)' = Status(r), consents' = consents
    PROVE  UNCHANGED Presentation!vars
  BY DEF Presentation!vars

LEMMA Forgets ==
    ASSUME consents' = consents, NEW lost \in SUBSET Request, lost # {}, \A r \in lost : told[r] # "none",
           \A r \in Request : Status(r)' = IF r \in lost THEN "gone" ELSE Status(r)
    PROVE  Presentation!Next
  <1>1. \A r \in lost : Status(r) # "none"
    BY DEF Status
  <1> QED
    BY <1>1 DEF Presentation!Next, Presentation!Forget

\* All is lost when a relying party starts over, or dies.
LEMMA LosesAll ==
    ASSUME consents' = consents, session' = NoSessions,
           \A r \in Request : told'[r] = "none" <=> told[r] = "none"
    PROVE  Presentation!Next \/ UNCHANGED Presentation!vars
  <1>1. \A r \in Request : Status(r)' = IF r \in Lost THEN "gone" ELSE Status(r)
    BY LostStatus, NoSessionsType
  <1>2. CASE Lost = {}
    BY <1>1, <1>2, Stutters
  <1>3. CASE Lost # {}
    <2>1. Lost \in SUBSET Request /\ \A r \in Lost : told[r] # "none"
      BY DEF Lost
    <2> QED
      BY <1>1, <1>3, <2>1, Forgets
  <1> QED
    BY <1>2, <1>3

\* A request is made; the relying party may start over for it.
LEMMA MakesRequest ==
    ASSUME TypeInv, NEW c \in Caller, NEW k, NEW ss \in Sessions, Create(c, k, ss), Fits(c, k),
           ss = session \/ ss = NoSessions, consents' = consents
    PROVE  Presentation!Next
  <1> DEFINE lost == IF ss = session THEN {} ELSE Lost
  <1>1. /\ c \in Request /\ told[c] = "none" /\ told' = [told EXCEPT ![c] = "created"]
        /\ session' = [ss EXCEPT ![c] = [req |-> "created", resp |-> "none"]]
        /\ told \in [Request -> Told]
    BY DEF Create, Tell, Fits, TypeInv, VerifierInv, VerifierType
  <1>2. Status(c) = "none"
    BY <1>1 DEF Status
  <1>3. Status(c)' = "made"
    <2>1. session'[c] = [req |-> "created", resp |-> "none"] /\ told'[c] = "created"
      BY <1>1 DEF Sessions
    <2>2. [req |-> "created", resp |-> "none"] # None
      BY DEF Session
    <2> QED
      BY <2>1, <2>2 DEF Status
  <1>4. ASSUME NEW r \in Request \ {c} PROVE Status(r)' = IF r \in lost THEN "gone" ELSE Status(r)
    <2>1. session'[r] = ss[r] /\ told'[r] = told[r]
      BY <1>1 DEF Sessions
    <2>2. CASE ss = session
      BY <2>1, <2>2, SameStatus
    <2>3. CASE ss # session
      BY <2>1, <2>3, LostStatus, NoSessionsType
    <2> QED
      BY <2>2, <2>3
  <1>5. lost \in SUBSET Request /\ c \notin lost /\ \A q \in lost : Status(q) # "none"
    BY <1>1 DEF Lost, Status
  <1> HIDE DEF lost
  <1>6. Presentation!Make(c, lost)
    BY <1>1, <1>2, <1>3, <1>4, <1>5 DEF Presentation!Make
  <1> QED
    BY <1>1, <1>5, <1>6 DEF Presentation!Next

\* The session of one request takes another state.
LEMMA Becomes ==
    ASSUME TypeInv, NEW r \in Request, NEW s \in {"received", "verified", "error"}, session[r] # None,
           session' = [session EXCEPT ![r].resp = s], UNCHANGED <<told, consents>>,
           NEW from, Status(r) \in from
    PROVE  Presentation!Become(r, from, s)
  <1>1. session \in Sessions /\ session[r] \in Session /\ told[r] # "none"
    BY DEF TypeInv, VerifierInv, VerifierType, SessionsKnown, Sessions
  <1>2. session'[r] = [session[r] EXCEPT !.resp = s] /\ \A q \in Request \ {r} : session'[q] = session[q]
    BY <1>1 DEF Sessions
  <1>3. session'[r].resp = s /\ session'[r] # None
    BY <1>1, <1>2 DEF Session
  <1>4. Status(r)' = s
    BY <1>1, <1>3 DEF Status
  <1>5. \A q \in Request \ {r} : Status(q)' = Status(q)
    BY <1>2, SameStatus
  <1> QED
    BY <1>4, <1>5 DEF Presentation!Become

LEMMA JudgesOrStutters ==
    ASSUME TypeInv, JudgedInv, NEW c \in Caller, GiveVerdict(c), consents' = consents
    PROVE  Presentation!Next \/ UNCHANGED Presentation!vars
  <1> DEFINE r == call[c].req
  <1>1. call[c].at = "verdict" /\ r \in Request /\ c \in Run /\ told[r] # "none" /\ UNCHANGED told
    BY DEF TypeInv, VerifierInv, CallsFit, Under, Fits, GiveVerdict
  <1>2. CASE session[r] = None
    <2>1. session' = session
      BY <1>2 DEF GiveVerdict
    <2> QED
      BY <1>1, <2>1, SameStatus, Stutters
  <1>3. CASE session[r] # None
    <2>1. Judging(c, r) /\ Judged(r) /\ session[r] \in Session
      BY <1>1, <1>3 DEF Judging, JudgedInv, TypeInv, VerifierInv, VerifierType, Sessions
    <2>2. session[r].resp \in {"received", "verified", "error"}
      BY <1>1, <1>3, <2>1 DEF Judged, Session
    <2>3. Status(r) \in {"received", "verified", "error"}
      BY <1>1, <1>3, <2>2 DEF Status
    <2>4. PICK s \in {"verified", "error"} : session' = [session EXCEPT ![r].resp = s]
      BY <1>3, Zenon DEF GiveVerdict
    <2> HIDE DEF r
    <2>5. Presentation!Become(r, {"received", "verified", "error"}, s)
      BY <1>1, <1>3, <2>3, <2>4, Becomes
    <2> QED
      BY <1>1, <2>5 DEF Presentation!Next, Presentation!Judge
  <1> QED
    BY <1>2, <1>3

LEMMA AnswersOrStutters ==
    ASSUME TypeInv, JudgedInv, AnswersAreConsented', NEW c \in Caller, NEW k \in VerifierCall,
           Receive(c, k, session), Fits(c, k), consents' = consents
    PROVE  Presentation!Next \/ UNCHANGED Presentation!vars
  <1> DEFINE r == k.req
  <1>1. r \in Request /\ told[r] # "none" /\ UNCHANGED told
    BY DEF Fits, Receive
  <1>2. CASE session[r] = None
    <2>1. session' = session
      BY <1>2 DEF Receive
    <2> QED
      BY <1>1, <2>1, SameStatus, Stutters
  <1>3. CASE session[r] # None
    <2>1. /\ session' = [session EXCEPT ![r].resp = "received"] /\ answers' = [answers EXCEPT ![r] = @ + 1]
          /\ session[r] \in Session /\ session \in Sessions
          /\ answers[r] \in Nat /\ answers'[r] = answers[r] + 1 /\ consents[r] \in Nat
      BY <1>1, <1>3 DEF Receive, TypeInv, VerifierInv, VerifierType, Sessions, WalletInv, WalletType
    <2>2. consents[r] > 0
      BY <1>1, <2>1 DEF AnswersAreConsented
    <2>3. Status(r) \in {"made", "received", "verified", "error"}
      BY <1>1, <1>3, <2>1 DEF Status, Session
    <2>4. CASE Status(r) = "received"
      <3>1. session[r].resp = "received"
        BY <1>1, <1>3, <2>1, <2>4 DEF Status, Session
      <3>2. \A q \in Request : session'[q] = None <=> session[q] = None
        BY <1>3, <2>1 DEF Sessions, Session
      <3>3. \A q \in Request : session[q] # None => session'[q].resp = session[q].resp
        BY <2>1, <3>1 DEF Sessions, Session
      <3> QED
        BY <1>1, <3>2, <3>3, SameStatus, Stutters
    <2>5. CASE Status(r) # "received"
      <3> HIDE DEF r
      <3>1. Presentation!Become(r, {"made", "verified", "error"}, "received")
        BY <1>1, <1>3, <2>1, <2>3, <2>5, Becomes
      <3> QED
        BY <1>1, <2>2, <3>1 DEF Presentation!Next, Presentation!Answer
    <2> QED
      BY <2>4, <2>5
  <1> QED
    BY <1>2, <1>3

LEMMA HandledPresents ==
    ASSUME TypeInv, JudgedInv, AnswersAreConsented', NEW c \in Caller, NEW k \in VerifierCall,
           NEW p \in Party, NEW ss \in Sessions, Handled(c, k, p, ss), consents' = consents
    PROVE  Presentation!Next \/ UNCHANGED Presentation!vars
  <1>1. Fits(c, k) /\ (ss = session \/ ss = NoSessions) /\ told \in [Request -> Told]
    BY DEF Handled, TypeInv, VerifierInv, VerifierType
  <1>2. CASE Create(c, k, ss)
    BY <1>1, <1>2, MakesRequest
  <1>3. ASSUME session' = ss, \A r \in Request : told'[r] = "none" <=> told[r] = "none"
        PROVE  Presentation!Next \/ UNCHANGED Presentation!vars
    <2>1. CASE ss = session
      BY <1>3, <2>1, SameStatus, Stutters
    <2>2. CASE ss = NoSessions
      BY <1>3, <2>2, LosesAll
    <2> QED
      BY <1>1, <2>1, <2>2
  <1>4. CASE Poll(c, k, ss)
    <2>1. c \in Request /\ told[c] # "none" /\ session' = ss
      BY <1>1, <1>4 DEF Poll, Fits
    <2>2. told' = told \/ \E s \in {"gone", "created"} : told' = [told EXCEPT ![c] = s]
      BY <1>4 DEF Poll, Tell
    <2>3. \A r \in Request : told'[r] = "none" <=> told[r] = "none"
      BY <1>1, <2>1, <2>2
    <2> QED
      BY <1>3, <2>1, <2>3
  <1>5. CASE Delete(c, k, ss)
    <2>1. c \in Request /\ told[c] # "none" /\ session' = [ss EXCEPT ![c] = None] /\ told' = told
      BY <1>1, <1>5 DEF Delete, Fits
    <2>2. CASE ss = session
      <3>1. session'[c] = None /\ \A r \in Request \ {c} : session'[r] = session[r]
        BY <2>1, <2>2 DEF Sessions
      <3>2. c \in Lost
        BY <2>1 DEF Lost
      <3>3. \A r \in Request : Status(r)' = IF r \in {c} THEN "gone" ELSE Status(r)
        BY <2>1, <3>1, <3>2, SameStatus, LostStatus
      <3> QED
        <4>1. PICK lost \in SUBSET Request : lost = {c}
          BY <2>1
        <4> QED
          BY <2>1, <3>3, <4>1, Forgets
    <2>3. CASE ss = NoSessions
      <3>1. session' = NoSessions
        BY <2>1, <2>3 DEF NoSessions
      <3> QED
        BY <2>1, <3>1, LosesAll
    <2> QED
      BY <1>1, <2>2, <2>3
  <1>6. CASE Fetch(c, k, p, ss)
    BY <1>3, <1>6 DEF Fetch
  <1>7. CASE Receive(c, k, ss)
    <2>1. CASE ss = session
      BY <1>1, <1>7, <2>1, AnswersOrStutters
    <2>2. CASE ss = NoSessions
      <3>1. session' = ss /\ told' = told
        BY <1>1, <1>7, <2>2, NoSessionsType DEF Receive, Fits
      <3> QED
        BY <1>3, <3>1
    <2> QED
      BY <1>1, <2>1, <2>2
  <1> QED
    BY <1>2, <1>4, <1>5, <1>6, <1>7 DEF Handled, Handle

LEMMA ServingPresents ==
    ASSUME TypeInv, JudgedInv, AnswersAreConsented', NEW c \in Caller, Serving(c)
    PROVE  Presentation!Next \/ UNCHANGED Presentation!vars
  <1>1. consents' = consents /\ told \in [Request -> Told]
    BY DEF Serving, walletVars, TypeInv, VerifierInv, VerifierType
  <1>2. ASSUME session' = session, \A r \in Request : told'[r] = "none" <=> told[r] = "none"
        PROVE  UNCHANGED Presentation!vars
    BY <1>1, <1>2, SameStatus, Stutters
  <1>3. CASE HandlesOrMisses(c)
    <2>1. PICK k \in VerifierCall : Missed(c, k) \/ \E p \in Party, ss \in Sessions : Handled(c, k, p, ss)
      BY <1>3 DEF HandlesOrMisses
    <2>2. CASE Missed(c, k)
      BY <1>2, <2>2 DEF Missed
    <2> QED
      BY <1>1, <2>1, <2>2, HandledPresents
  <1>4. CASE ReadsForParty(c)
    BY <1>2, <1>4 DEF ReadsForParty, ReadForParty
  <1>5. CASE GiveVerdict(c)
    BY <1>1, <1>5, JudgesOrStutters
  <1>6. CASE LookAtResponse(c)
    <2>1. c \in Request /\ told[c] # "none" /\ session' = session /\ told' = [told EXCEPT ![c] = LookedUp(c)]
      BY <1>6 DEF LookAtResponse, Tell, LookedUp, TypeInv, VerifierInv, CallsFit, Under, Fits
    <2>2. LookedUp(c) # "none"
      BY <2>1 DEF LookedUp, TypeInv, VerifierInv, VerifierType, Sessions, Session
    <2>3. \A r \in Request : told'[r] = "none" <=> told[r] = "none"
      BY <1>1, <2>1, <2>2
    <2> QED
      BY <1>2, <2>1, <2>3
  <1> QED
    BY <1>3, <1>4, <1>5, <1>6 DEF Serving

\* A run does not touch the sessions, nor what pages are told.
LEMMA WalletLeaves ==
    ASSUME TypeInv, ReadyInv, NEW w \in Run, UserActs(w) \/ Service(w) \/ SaveState(w)
    PROVE  UNCHANGED <<rp, session, told, definitionVars>>
  <1>1. w \in Caller /\ w \notin Request /\ VerifierInv
    BY DEF Caller, TypeInv
  <1>2. ASSUME GetSiopRequest(w) PROVE UNCHANGED <<rp, session, told, definitionVars>>
    <2>1. /\ st[w] = "getSiopRequest" /\ Arrive(w, "fetch", ctx[w].req) /\ call[w].at = "idle"
          /\ UNCHANGED definitionVars
      BY <1>2 DEF GetSiopRequest, In, Arrive, Wait
    <2>2. ctx[w].req \in Request /\ told[ctx[w].req] # "none"
      BY <2>1 DEF Linked, TypeInv, WalletInv
    <2>3. PICK k \in VerifierCall : /\ k.op = "fetch"
                                    /\ Missed(w, k) \/ \E p \in Party, ss \in Sessions : Handled(w, k, p, ss)
      BY <1>1, <2>1, <2>2, ArriveDoes
    <2>4. ASSUME NEW p \in Party, NEW ss \in Sessions, Handled(w, k, p, ss)
          PROVE  UNCHANGED <<rp, session, told>>
      BY <2>1, <2>3, <2>4 DEF Handled, Handle, Create, Poll, Delete, Fetch, Receive
    <2> QED
      BY <2>1, <2>3, <2>4 DEF Missed
  <1>3. SendResponse(w) => UNCHANGED <<rp, session, told, definitionVars>>
    BY DEF SendResponse, ArriveWithAnswer, Wait
  <1>4. ReceiveRequest(w) \/ ReceiveVerdict(w) => UNCHANGED <<rp, session, told, definitionVars>>
    BY DEF ReceiveRequest, ReceiveVerdict, Hear
  <1>5. \/ UserActs(w) \/ SaveState(w) \/ CreateConfig(w) \/ RetrieveContact(w) \/ AddContact(w)
        \/ GetSelectableCredentials(w) \/ SendWithoutSession(w)
        => UNCHANGED <<rp, session, told, definitionVars>>
    BY DEF UserActs, OpenLink, ResumeForLink, SelectCredentials, GoBack, GiveUp, SaveState, CreateConfig,
       RetrieveContact, AddContact, GetSelectableCredentials, SendWithoutSession, Alone, verifierVars
  <1> QED
    BY <1>2, <1>3, <1>4, <1>5 DEF Service

LEMMA WalletPresents ==
    ASSUME TypeInv, ReadyInv, NEW w \in Run, UserActs(w) \/ Service(w) \/ SaveState(w)
    PROVE  Presentation!Next \/ UNCHANGED Presentation!vars
  <1>1. session' = session /\ told' = told
    BY WalletLeaves
  <1>2. \A r \in Request : Status(r)' = Status(r)
    BY <1>1, SameStatus
  <1>3. CASE SelectCredentials(w)
    <2>1. PICK q \in Request : /\ told[q] # "none" /\ consents' = [consents EXCEPT ![q] = @ + 1]
                               /\ consents \in [Request -> Nat]
      BY <1>3 DEF SelectCredentials, In, Linked, TypeInv, WalletInv, WalletType
    <2>2. Status(q) # "none"
      BY <2>1 DEF Status
    <2>3. \A r \in Request : consents'[r] > 0 <=> r = q \/ consents[r] > 0
      BY <2>1
    <2>4. Presentation!Consent(q)
      BY <1>2, <2>1, <2>2, <2>3 DEF Presentation!Consent
    <2> QED
      BY <2>1, <2>4 DEF Presentation!Next
  <1>4. CASE ~SelectCredentials(w)
    <2>1. CASE Request = {}
      BY <2>1 DEF Presentation!vars
    <2>2. CASE Request # {}
      <3>1. consents' = consents
        BY <1>4, <2>2, WalletDue
      <3> QED
        BY <1>2, <3>1, Stutters
    <2> QED
      BY <2>1, <2>2
  <1> QED
    BY <1>3, <1>4

LEMMA PresentationStep ==
    TypeInv /\ ReadyInv /\ JudgedInv /\ AnswersAreConsented' /\ [Next]_vars
        => [Presentation!Next]_(Presentation!vars)
  <1> SUFFICES ASSUME TypeInv, ReadyInv, JudgedInv, AnswersAreConsented', [Next]_vars
               PROVE  Presentation!Next \/ UNCHANGED Presentation!vars
    OBVIOUS
  <1>1. ASSUME NEW q \in Request, MarkSent(q), UNCHANGED walletVars PROVE UNCHANGED Presentation!vars
    <2>1. session \in Sessions
      BY DEF TypeInv, VerifierInv, VerifierType
    <2>2. \A r \in Request : /\ session'[r] = None <=> session[r] = None
                             /\ session[r] # None => session'[r].resp = session[r].resp
      BY <1>1, <2>1 DEF MarkSent, Sessions, Session
    <2>3. UNCHANGED <<told, consents>>
      BY <1>1 DEF MarkSent, walletVars
    <2> QED
      BY <2>2, <2>3, SameStatus, Stutters
  <1>2. CASE StopVerifier /\ UNCHANGED walletVars
    BY <1>2, LosesAll DEF StopVerifier, walletVars
  <1>3. CASE StopWallet \/ UNCHANGED <<walletVars, verifierVars>>
    <2>1. UNCHANGED <<session, told, consents>>
      BY <1>3 DEF StopWallet, walletVars, verifierVars
    <2> QED
      BY <2>1, SameStatus, Stutters
  <1> QED
    BY <1>1, <1>2, <1>3, StepsAre, ServingPresents, WalletPresents

LEMMA PresentationInit == Init => Presentation!Init
  BY DEF Init, InitVerifier, Presentation!Init, Status

(* The exchange keeps what CredentialPresentation promises: the verifier   *)
(* has an answer to a request only after the user consented to one, judges *)
(* only what it has, and never knows a request again that it has forgotten,*)
(* whatever calls overlap and whichever side dies.                         *)
THEOREM ExchangeImplementsPresentation == Spec => ImplementsPresentation
  BY TypeAlways, ConsentAlways, JudgedAlways, AnswersNeedConsent, PresentationInit, PresentationStep, PTL
     DEF Spec, ImplementsPresentation, Presentation!Spec
-----------------------------------------------------------------------------
(* Refusals. What a run was asked for is what the relying party has, while *)
(* it knows the request; the answer is held against what is served, if the *)
(* table did not change since the relying party was built.                 *)
Asked == {"retrieveContact", "addContact", "getSelectableCredentials", "selectCredentials", "sendResponse"}
Asks(s, c) ==
    /\ s \in Asked /\ session[c.req] # None => c.asked = rp.def
    /\ s \in {"selectCredentials", "sendResponse"} => c.asked # None

\* Until a run hears of it, its call is the fetch it made, or the reply.
Hearing(w) ==
    st[w] = "getSiopRequest" /\ at[w] = "waiting" =>
        /\ call[w].op # "none" => call[w].op = "fetch" /\ call[w].req = ctx[w].req
        /\ call[w].at = "served" /\ session[ctx[w].req] # None => call[w].seen = rp.def

Answering(w) ==
    call[w].op = "answer" =>
        /\ call[w].vp # None
        /\ session[call[w].req] # None =>
              call[w].vp = rp.def /\ (rp.at = changes => call[w].seen \in Served)

AsksInv == \A w \in Run : Asks(st[w], ctx[w]) /\ Asks(rows[w].st, rows[w].ctx) /\ Hearing(w)
AnsweringInv == \A w \in Run : Answering(w)

\* While a request is known, the relying party is the same.
LEMMA PartyStays ==
    ASSUME TypeInv, [Next]_vars, NEW r \in Request, told[r] # "none", session'[r] # None
    PROVE  session[r] # None /\ rp' = rp
  <1>1. VerifierInv /\ session \in Sessions /\ \A q \in Request : NoSessions[q] = None
    BY NoSessionsType DEF TypeInv, VerifierInv, VerifierType
  <1>2. ASSUME NEW c \in Caller, NEW k \in VerifierCall, NEW p \in Party, NEW ss \in Sessions,
     Handled(c, k, p, ss)
        PROVE  session[r] # None /\ rp' = rp
    <2>1. CASE Create(c, k, ss)
      <3>1. session' = [ss EXCEPT ![c] = [req |-> "created", resp |-> "none"]] /\ told[c] = "none"
        BY <1>2, <2>1 DEF Create, Handled, Fits
      <3>2. session'[r] = ss[r]
        BY <3>1 DEF Sessions
      <3> QED
        BY <1>1, <1>2, <3>2 DEF Handled
    <2>2. CASE Poll(c, k, ss) \/ Fetch(c, k, p, ss)
      BY <1>1, <1>2, <2>2 DEF Poll, Fetch, Handled
    <2>3. CASE Delete(c, k, ss)
      <3>1. session'[r] \in {ss[r], None}
        BY <2>3 DEF Delete, Sessions
      <3> QED
        BY <1>1, <1>2, <3>1 DEF Handled
    <2>4. CASE Receive(c, k, ss)
      <3>1. CASE ss[k.req] = None
        BY <1>1, <1>2, <2>4, <3>1 DEF Receive, Handled
      <3>2. CASE ss[k.req] # None
        <4>1. session' = [ss EXCEPT ![k.req].resp = "received"]
          BY <2>4, <3>2 DEF Receive
        <4>2. ss[r] # None
          BY <3>2, <4>1 DEF Sessions
        <4> QED
          BY <1>1, <1>2, <4>2 DEF Handled
      <3> QED
        BY <3>1, <3>2
    <2> QED
      BY <1>2, <2>1, <2>2, <2>3, <2>4 DEF Handled, Handle
  <1>3. ASSUME NEW c \in Caller, HandlesOrMisses(c) PROVE session[r] # None /\ rp' = rp
    BY <1>2, <1>3 DEF HandlesOrMisses, Missed
  <1>4. ASSUME NEW c \in Caller, GiveVerdict(c) PROVE session[r] # None /\ rp' = rp
    BY <1>1, <1>4 DEF GiveVerdict, Sessions
  <1>5. ASSUME NEW q \in Request, MarkSent(q) PROVE session[r] # None /\ rp' = rp
    BY <1>1, <1>5 DEF MarkSent, Sessions
  <1>6. StopVerifier => session'[r] = None
    BY <1>1 DEF StopVerifier
  <1>7. CASE VerifierStep
    BY <1>3, <1>4, <1>5, <1>6, <1>7
    DEF VerifierStep, ReadsForParty, ReadForParty, LookAtResponse, ArriveWithAnswer
  <1>8. CASE UNCHANGED verifierVars
    BY <1>8 DEF verifierVars
  <1> QED
    BY <1>7, <1>8, VerifierSide

\* What is served stays while the table is not written.
LEMMA ServedStays ==
    ASSUME TypeInv, [Next]_vars
    PROVE  changes' >= changes /\ (changes' = changes => items' = items /\ Served' = Served)
  <1>1. Editing \/ UNCHANGED definitionVars
    BY VerifierSide
  <1>2. changes \in Nat /\ (UNCHANGED <<items, changes>> \/ changes' > changes)
    BY <1>1, ChangesTell DEF TypeInv
  <1>3. items' = items => Served' = Served
    BY DEF Served, HighestOf
  <1>4. changes' > changes => changes' # changes /\ changes' >= changes
    <2>1. changes' \in Int
      BY TypeStep DEF TypeInv, EditorsInv, EditorsType
    <2> QED
      BY <1>2, <2>1
  <1> QED
    BY <1>2, <1>3, <1>4

LEMMA AsksStay ==
    ASSUME TypeInv, [Next]_vars, NEW s, NEW c, Linked(s, c), Asks(s, c) PROVE Asks(s, c)'
  BY PartyStays DEF Asks, Linked, Asked

LEMMA AnswersStay ==
    ASSUME TypeInv, [Next]_vars, NEW w \in Run, Answering(w),
           call'[w].op = "answer" =>
               /\ call[w].op = "answer" /\ call'[w].req = call[w].req
               /\ call'[w].vp = call[w].vp /\ call'[w].seen = call[w].seen
    PROVE  Answering(w)'
  <1> SUFFICES ASSUME call'[w].op = "answer", session'[call'[w].req] # None
               PROVE  call'[w].vp = rp'.def /\ (rp'.at = changes' => call'[w].seen \in Served')
    BY DEF Answering
  <1>1. /\ call[w].op = "answer" /\ call'[w].req = call[w].req
        /\ call'[w].vp = call[w].vp /\ call'[w].seen = call[w].seen
    OBVIOUS
  <1>2. call[w].req \in Request /\ told[call[w].req] # "none"
    BY <1>1 DEF TypeInv, VerifierInv, CallsFit, Under, Fits, Caller
  <1>3. session[call[w].req] # None /\ rp' = rp
    BY <1>1, <1>2, PartyStays
  <1>4. rp # None /\ rp.at <= changes /\ rp.at \in Int /\ changes \in Int /\ changes' \in Int
    <2>1. rp # None /\ rp \in Party /\ IsRead(rp)
      BY <1>2, <1>3 DEF TypeInv, VerifierInv, VerifierType, SessionsKnown, PartyIsRead
    <2> QED
      BY <2>1, TypeStep DEF TypeInv, EditorsInv, EditorsType, IsRead, Party
  <1>5. rp'.at = changes' => changes' = changes
    BY <1>3, <1>4, ServedStays
  <1> QED
    BY <1>1, <1>3, <1>5, ServedStays DEF Answering

LEMMA ReplySays ==
    ASSUME VerifierInv, NEW c \in Caller, NEW s, NEW d, Reply(c, s, d)
    PROVE  call'[c].op = "none" /\ call'[c].at = s /\ call'[c].seen = d
  <1> DEFINE n == [Silent EXCEPT !.at = s, !.seen = d]
  <1>1. n.op = "none" /\ n.at = s /\ n.seen = d
    BY DEF Silent
  <1>2. call' = [call EXCEPT ![c] = n] /\ call \in [Caller -> VerifierCall]
    BY DEF Reply, VerifierInv, VerifierType
  <1> HIDE DEF n
  <1>3. call'[c] = n
    BY <1>2
  <1> QED
    BY <1>1, <1>3

\* The reply to a fetch: what the relying party has that knows the request.
LEMMA FetchReplies ==
    ASSUME VerifierInv, NEW w \in Run, NEW k \in VerifierCall, NEW p \in Party, NEW ss \in Sessions,
           Handled(w, k, p, ss), k.op = "fetch"
    PROVE  /\ call'[w].op = "none"
           /\ call'[w].at = "served" /\ session'[k.req] # None => call'[w].seen = rp'.def
  <1>1. Fetch(w, k, p, ss) /\ rp' = p /\ w \in Caller /\ call \in [Caller -> VerifierCall]
    BY DEF Handled, Handle, Create, Poll, Delete, Receive, Caller, VerifierInv, VerifierType
  <1> QED
    BY <1>1, ReplySays DEF Fetch

\* What becomes of the call of a run: it goes on as it is, or there is a reply.
Answered(w) ==
    /\ call'[w].op = "none"
    /\ call'[w].at = "served" =>
          call[w].op = "fetch" /\ (session'[call[w].req] # None => call'[w].seen = rp'.def)

GoesOn(w) ==
    /\ call[w].op # "none" /\ call'[w].at # "served"
    /\ call'[w].op = call[w].op /\ call'[w].req = call[w].req
    /\ call'[w].vp = call[w].vp /\ call'[w].seen = call[w].seen

LEMMA ServingReplies ==
    ASSUME VerifierInv, NEW w \in Run, Serving(w) PROVE GoesOn(w) \/ Answered(w)
  <1>1. w \in Caller /\ w \notin Request /\ call \in [Caller -> VerifierCall] /\ Under(w, call[w])
        /\ call[w].at # "idle"
    BY DEF Caller, VerifierInv, VerifierType, CallsFit, Serving
  <1>2. \A n : call' = [call EXCEPT ![w] = n] => call'[w] = n
    BY <1>1
  <1>3. \A s, d : Reply(w, s, d) => call'[w].op = "none" /\ call'[w].at = s
    BY <1>1, ReplySays
  <1>4. ASSUME NEW k \in VerifierCall, Missed(w, k) PROVE GoesOn(w)
    <2>1. LET n == [k EXCEPT !.at = "missing"] IN
          n.op = k.op /\ n.req = k.req /\ n.vp = k.vp /\ n.seen = k.seen /\ n.at = "missing"
      BY DEF VerifierCall
    <2> QED
      BY <1>1, <1>2, <1>4, <2>1 DEF Missed, To, Continues, GoesOn
  <1>5. ASSUME NEW k \in VerifierCall, NEW p \in Party, NEW ss \in Sessions, Handled(w, k, p, ss)
        PROVE  GoesOn(w) \/ Answered(w)
    <2>1. /\ k.op = call[w].op /\ k.req = call[w].req /\ k.vp = call[w].vp /\ k.seen = call[w].seen
          /\ k.op # "none" /\ Handle(w, k, p, ss) /\ Fits(w, k)
      BY <1>1, <1>5 DEF Handled, Continues
    <2>2. CASE k.op = "fetch"
      BY <1>5, <2>1, <2>2, FetchReplies DEF Answered
    <2>3. CASE Receive(w, k, ss)
      <3>1. CASE ss[k.req] = None
        BY <1>3, <2>3, <3>1 DEF Receive, Answered
      <3>2. CASE ss[k.req] # None
        <4>1. LET n == [k EXCEPT !.at = "verdict"] IN
              n.op = k.op /\ n.req = k.req /\ n.vp = k.vp /\ n.seen = k.seen /\ n.at = "verdict"
          BY DEF VerifierCall
        <4> QED
          BY <1>2, <2>1, <2>3, <3>2, <4>1 DEF Receive, To, GoesOn
      <3> QED
        BY <3>1, <3>2
    <2> QED
      BY <1>1, <2>1, <2>2, <2>3 DEF Handle, Create, Poll, Delete, Fetch, Fits
  <1>6. ASSUME ReadsForParty(w) PROVE GoesOn(w)
    BY <1>1, <1>6 DEF ReadsForParty, ReadForParty, GoesOn, VerifierCall, Under, Replies
  <1>7. ASSUME GiveVerdict(w) PROVE Answered(w)
    <2>1. PICK s \in {"accepted", "refused"} : Reply(w, s, None)
      BY <1>7 DEF GiveVerdict
    <2>2. call'[w].op = "none" /\ call'[w].at = s
      BY <1>3, <2>1
    <2> QED
      BY <2>2 DEF Answered
  <1>8. ~LookAtResponse(w)
    BY <1>1 DEF LookAtResponse, Under, Fits
  <1> QED
    BY <1>4, <1>5, <1>6, <1>7, <1>8 DEF Serving, HandlesOrMisses

LEMMA HearingStays ==
    ASSUME TypeInv, [Next]_vars, NEW w \in Run, Hearing(w), call'[w] = call[w], st'[w] = st[w],
           at'[w] = at[w], ctx'[w] = ctx[w]
    PROVE  Hearing(w)'
  <1> SUFFICES ASSUME st[w] = "getSiopRequest", at[w] = "waiting" PROVE Hearing(w)'
    BY DEF Hearing
  <1>1. told[ctx[w].req] # "none" /\ ctx[w].req \in Request
    BY DEF TypeInv, WalletInv, Linked
  <1> QED
    BY <1>1, PartyStays DEF Hearing

\* A fetch that comes in.
LEMMA FetchHears ==
    ASSUME TypeInv, NEW w \in Run, GetSiopRequest(w) PROVE Hearing(w)'
  <1>1. /\ w \in Caller /\ VerifierInv /\ call \in [Caller -> VerifierCall]
        /\ st[w] = "getSiopRequest" /\ Arrive(w, "fetch", ctx[w].req)
        /\ UNCHANGED <<st, ctx>>
    BY DEF Caller, TypeInv, VerifierInv, VerifierType, GetSiopRequest, In, Wait
  <1>2. ctx[w].req \in Request /\ told[ctx[w].req] # "none"
    BY <1>1 DEF Linked, TypeInv, WalletInv
  <1>3. PICK k \in VerifierCall : /\ k.op = "fetch" /\ k.req = ctx[w].req
                                  /\ Missed(w, k) \/ \E p \in Party, ss \in Sessions : Handled(w, k, p, ss)
    BY <1>1, <1>2, ArriveDoes
  <1>4. CASE Missed(w, k)
    <2>1. PICK n : n = [k EXCEPT !.at = "missing"]
      OBVIOUS
    <2>2. n.op = k.op /\ n.req = k.req /\ n.at = "missing"
      BY <2>1 DEF VerifierCall
    <2>3. call'[w] = n
      BY <1>1, <1>4, <2>1 DEF Missed, To
    <2> QED
      BY <1>1, <1>3, <2>2, <2>3 DEF Hearing
  <1>5. ASSUME NEW p \in Party, NEW ss \in Sessions, Handled(w, k, p, ss) PROVE Hearing(w)'
    BY <1>1, <1>3, <1>5, FetchReplies DEF Hearing
  <1> QED
    BY <1>3, <1>4, <1>5

\* What a run was asked for, by what it does or its user.
LEMMA WalletAsks ==
    ASSUME TypeInv, AsksInv, [Next]_vars, NEW w \in Run, UserActs(w) \/ Service(w) \/ SaveState(w)
    PROVE  Asks(st[w], ctx[w])' /\ Hearing(w)'
  <1>1. /\ st \in [Run -> States] /\ at \in [Run -> {"begin", "waiting", "stuck"}]
        /\ ctx \in [Run -> RunContext] /\ w \in Caller /\ VerifierInv
        /\ call \in [Caller -> VerifierCall]
        /\ Asks(st[w], ctx[w]) /\ Linked(st[w], ctx[w]) /\ Hearing(w)
    BY DEF TypeInv, WalletInv, WalletType, Caller, VerifierInv, VerifierType, AsksInv
  <1>2. \A s, c : GoWith(w, s, c) => st'[w] = s /\ ctx'[w] = c /\ at'[w] = "begin"
    BY <1>1 DEF GoWith
  <1> DEFINE Away == \E s, c : GoWith(w, s, c) /\ s \notin Asked
  <1>3. Away => Asks(st[w], ctx[w])' /\ Hearing(w)'
    BY <1>2 DEF Asks, Asked, Hearing
  <1>4. \A s, c : GoWith(w, s, c) /\ s \notin Asked => Away
    OBVIOUS
  <1> HIDE DEF Away
  <1>5. ASSUME NEW s \in Asked, NEW c \in RunContext, GoWith(w, s, c), st[w] \in Asked,
               c.flow = ctx[w].flow, c.req = ctx[w].req, c.asked = ctx[w].asked,
               s \in {"selectCredentials", "sendResponse"} => ctx[w].asked # None
        PROVE  Asks(st[w], ctx[w])' /\ Hearing(w)'
    <2>1. Linked(s, c) /\ Asks(s, c)
      <3>1. st[w] # "idle"
        BY <1>5 DEF Asked
      <3> QED
        BY <1>1, <1>5, <3>1 DEF Linked, Asks
    <2>2. Asks(s, c)'
      BY <2>1, AsksStay
    <2> QED
      BY <1>2, <1>5, <2>2 DEF Asks, Hearing
  <1>6. CASE \/ OpenLink(w) \/ GoBack(w) \/ GiveUp(w) \/ CreateConfig(w) \/ SendWithoutSession(w)
             \/ ReceiveVerdict(w)
    <2>1. ReceiveVerdict(w) => Away
      BY <1>4 DEF ReceiveVerdict, Go, Asked
    <2>2. OpenLink(w) => Away
      BY <1>4 DEF OpenLink, Asked
    <2>3. GoBack(w) \/ GiveUp(w) \/ CreateConfig(w) \/ SendWithoutSession(w) => Away
      BY <1>4 DEF GoBack, GiveUp, CreateConfig, SendWithoutSession, Go, Asked
    <2> QED
      BY <1>3, <1>6, <2>1, <2>2, <2>3
  <1>7. CASE ResumeForLink(w)
    <2>1. PICK f \in Run : /\ st' = [st EXCEPT ![w] = rows[f].st] /\ ctx' = [ctx EXCEPT ![w] = rows[f].ctx]
                           /\ at' = [at EXCEPT ![w] = IF rows[f].st \in Invoking THEN "stuck" ELSE "begin"]
                           /\ UNCHANGED rows
      BY <1>7 DEF ResumeForLink, Saved
    <2>2. Linked(rows[f].st, rows[f].ctx) /\ Asks(rows[f].st, rows[f].ctx)
      BY DEF TypeInv, WalletInv, AsksInv
    <2>3. Asks(rows[f].st, rows[f].ctx)'
      BY <2>2, AsksStay, <2>1 DEF Asks, Linked, Asked
    <2> QED
      BY <1>1, <2>1, <2>3 DEF Asks, Hearing
  <1>8. CASE SelectCredentials(w)
    <2>1. GoWith(w, "sendResponse", ctx[w]) /\ st[w] \in Asked /\ "sendResponse" \in Asked
      BY <1>8 DEF SelectCredentials, Go, In, Asked
    <2>2. ctx[w].asked # None
      BY <1>1, <1>8 DEF SelectCredentials, In, Asks
    <2> QED
      BY <1>1, <1>5, <2>1, <2>2
  <1>9. \A b \in BOOLEAN : LET d == [ctx[w] EXCEPT !.known = b]
                           IN  /\ d \in RunContext /\ d.flow = ctx[w].flow
                               /\ d.req = ctx[w].req /\ d.asked = ctx[w].asked
    BY <1>1 DEF RunContext
  <1>10. \A c : AfterSetup(c) \in Asked \ {"selectCredentials", "sendResponse"}
    BY DEF AfterSetup, Asked
  <1>11. CASE RetrieveContact(w)
    <2> DEFINE d == [ctx[w] EXCEPT !.known = contact = "host"]
    <2>1. GoWith(w, AfterSetup(d), d) /\ st[w] \in Asked
      BY <1>11 DEF RetrieveContact, In, Asked
    <2>2. /\ d \in RunContext /\ d.flow = ctx[w].flow
          /\ d.req = ctx[w].req /\ d.asked = ctx[w].asked
      BY <1>9
    <2>3. PICK e \in RunContext : e = d
      BY <2>2
    <2> QED
      BY <1>5, <1>10, <2>1, <2>2, <2>3
  <1>12. CASE AddContact(w)
    <2>1. CASE contact = "none"
      <3> DEFINE d == [ctx[w] EXCEPT !.known = TRUE]
      <3>1. GoWith(w, AfterSetup(d), d) /\ st[w] \in Asked
        BY <1>12, <2>1 DEF AddContact, In, Asked
      <3>2. /\ d \in RunContext /\ d.flow = ctx[w].flow
            /\ d.req = ctx[w].req /\ d.asked = ctx[w].asked
        BY <1>9
      <3>3. PICK e \in RunContext : e = d
        BY <3>2
      <3> QED
        BY <1>5, <1>10, <3>1, <3>2, <3>3
    <2>2. CASE contact # "none"
      <3>1. UNCHANGED <<st, ctx>> /\ at'[w] = "stuck"
        BY <1>1, <1>12, <2>2 DEF AddContact
      <3> QED
        BY <1>1, <3>1, AsksStay DEF Hearing, Asks
    <2> QED
      BY <2>1, <2>2
  <1>13. CASE GetSelectableCredentials(w)
    <2>1. CASE ctx[w].asked = None
      BY <1>3, <1>4, <1>13, <2>1 DEF GetSelectableCredentials, Go, Asked
    <2>2. CASE ctx[w].asked # None
      <3>1. GoWith(w, "selectCredentials", ctx[w]) /\ st[w] \in Asked /\ "selectCredentials" \in Asked
        BY <1>13, <2>2 DEF GetSelectableCredentials, Go, In, Asked
      <3> QED
        BY <1>1, <1>5, <2>2, <3>1
    <2> QED
      BY <2>1, <2>2
  <1>14. CASE ReceiveRequest(w)
    <2>1. CASE call[w].at = "served"
      <3> DEFINE d == [ctx[w] EXCEPT !.asked = call[w].seen]
      <3>1. GoWith(w, "retrieveContact", d) /\ UNCHANGED <<rp, session>>
        BY <1>14, <2>1 DEF ReceiveRequest, Hear
      <3>2. d.req = ctx[w].req /\ d.asked = call[w].seen
        BY <1>1 DEF RunContext
      <3>3. session[ctx[w].req] # None => call[w].seen = rp.def
        BY <1>1, <1>14, <2>1 DEF ReceiveRequest, In, Hearing
      <3>4. PICK e : e = d
        OBVIOUS
      <3>5. st'[w] = "retrieveContact" /\ ctx'[w] = e /\ at'[w] = "begin"
        BY <1>2, <3>1, <3>4
      <3>6. session'[e.req] # None => e.asked = rp'.def
        BY <3>1, <3>2, <3>3, <3>4
      <3> QED
        BY <3>5, <3>6 DEF Asks, Hearing
    <2>2. CASE call[w].at # "served"
      BY <1>3, <1>4, <1>14, <2>2 DEF ReceiveRequest, Go, Asked
    <2> QED
      BY <2>1, <2>2
  <1>15. CASE GetSiopRequest(w)
    <2>1. UNCHANGED <<st, ctx>>
      BY <1>15 DEF GetSiopRequest, Wait
    <2> QED
      BY <1>1, <1>15, <2>1, AsksStay, FetchHears DEF Asks
  <1>16. CASE SendResponse(w)
    <2>1. UNCHANGED <<st, ctx>> /\ st[w] = "sendResponse"
      BY <1>16 DEF SendResponse, Wait, In
    <2> QED
      BY <1>1, <2>1, AsksStay DEF Asks, Hearing
  <1>17. CASE SaveState(w)
    <2>1. UNCHANGED <<st, at, ctx, call>>
      BY <1>17 DEF SaveState, Alone, verifierVars
    <2> QED
      BY <1>1, <2>1, AsksStay, HearingStays DEF Asks
  <1> QED
    BY <1>6, <1>7, <1>8, <1>11, <1>12, <1>13, <1>14, <1>15, <1>16, <1>17 DEF UserActs, Service

\* What was asked for in a saved state is what the run was asked for.
LEMMA RowsAsk ==
    ASSUME TypeInv, AsksInv, [Next]_vars, NEW v \in Run PROVE Asks(rows[v].st, rows[v].ctx)'
  <1>1. Asks(rows[v].st, rows[v].ctx)' \/ rows'[v] # rows[v]
    <2>1. Linked(rows[v].st, rows[v].ctx) /\ Asks(rows[v].st, rows[v].ctx)
      BY DEF TypeInv, WalletInv, AsksInv
    <2>2. PICK s, c : s = rows[v].st /\ c = rows[v].ctx
      OBVIOUS
    <2>3. Asks(s, c)'
      BY <2>1, <2>2, AsksStay
    <2> QED
      BY <2>2, <2>3 DEF Asks
  <1>2. ASSUME NEW w \in Run, SaveState(w), rows'[v] # rows[v] PROVE Asks(rows[v].st, rows[v].ctx)'
    <2>1. Linked(st[w], ctx[w]) /\ Asks(st[w], ctx[w])
      BY DEF TypeInv, WalletInv, AsksInv
    <2>2. PICK s, c : s = st[w] /\ c = ctx[w]
      OBVIOUS
    <2>3. Asks(s, c)'
      BY <2>1, <2>2, AsksStay
    <2>4. rows'[v] = NoRow \/ rows'[v] = [st |-> s, ctx |-> c]
      BY <1>2, <2>2 DEF SaveState, TypeInv, WalletInv, WalletType
    <2>5. NoRow.st \notin Asked
      BY NoContextType DEF Asked
    <2> QED
      BY <2>3, <2>4, <2>5 DEF Asks, Asked
  <1>3. (\A w \in Run : ~SaveState(w)) => rows' = rows
    BY StepsAre DEF UserActs, OpenLink, ResumeForLink, SelectCredentials, GoBack, GiveUp, Service,
       CreateConfig,
       GetSiopRequest, ReceiveRequest, RetrieveContact, AddContact, GetSelectableCredentials, SendResponse,
       SendWithoutSession, ReceiveVerdict, Wait, Serving, StopWallet, walletVars
  <1> QED
    BY <1>1, <1>2, <1>3

LEMMA AsksInit == Init => AsksInv
  <1> SUFFICES ASSUME Init, NEW w \in Run
      PROVE  Asks(st[w], ctx[w]) /\ Asks(rows[w].st, rows[w].ctx) /\ Hearing(w)
    BY DEF AsksInv
  <1>1. st[w] = "idle" /\ rows[w].st = "idle"
    BY NoContextType DEF Init
  <1> QED
    BY <1>1 DEF Asks, Asked, Hearing

LEMMA AsksStep == TypeInv /\ AsksInv /\ [Next]_vars => AsksInv'
  <1> SUFFICES ASSUME TypeInv, AsksInv, [Next]_vars, NEW v \in Run
               PROVE  Asks(st[v], ctx[v])' /\ Hearing(v)'
    BY RowsAsk DEF AsksInv
  <1>1. /\ VerifierInv /\ v \in Caller /\ call \in [Caller -> VerifierCall]
        /\ Asks(st[v], ctx[v]) /\ Linked(st[v], ctx[v]) /\ Hearing(v)
    BY DEF TypeInv, WalletInv, Caller, VerifierInv, VerifierType, AsksInv
  <1>2. ASSUME st'[v] = st[v], ctx'[v] = ctx[v] PROVE Asks(st[v], ctx[v])'
    BY <1>1, <1>2, AsksStay DEF Asks
  <1>3. ASSUME NEW w \in Run, UserActs(w) \/ Service(w) \/ SaveState(w)
        PROVE  Asks(st[v], ctx[v])' /\ Hearing(v)'
    <2>1. CASE v = w
      BY <1>3, <2>1, WalletAsks
    <2>2. CASE v # w
      <3>1. st'[v] = st[v] /\ at'[v] = at[v] /\ ctx'[v] = ctx[v] /\ call'[v] = call[v]
        BY <1>3, <2>2, WalletApart DEF Apart
      <3> QED
        BY <1>1, <1>2, <3>1, HearingStays
    <2> QED
      BY <2>1, <2>2
  <1>4. ASSUME NEW c \in Caller, Serving(c) PROVE Asks(st[v], ctx[v])' /\ Hearing(v)'
    <2>1. UNCHANGED <<st, at, ctx>>
      BY <1>4 DEF Serving, walletVars
    <2>2. CASE c # v
      <3>1. call'[v] = call[v]
        BY <1>1, <1>4, <2>2, CallsApart DEF Serving
      <3> QED
        BY <1>1, <1>2, <2>1, <3>1, HearingStays
    <2>3. CASE c = v
      <3>1. CASE GoesOn(v)
        BY <1>1, <1>2, <2>1, <3>1 DEF GoesOn, Hearing
      <3>2. CASE Answered(v)
        BY <1>1, <1>2, <2>1, <3>2 DEF Answered, Hearing
      <3> QED
        BY <1>1, <1>2, <1>4, <2>1, <2>3, <3>1, <3>2, ServingReplies
    <2> QED
      BY <2>2, <2>3
  <1>5. ASSUME NEW r \in Request, MarkSent(r), UNCHANGED walletVars
        PROVE  Asks(st[v], ctx[v])' /\ Hearing(v)'
    BY <1>1, <1>2, <1>5, HearingStays DEF MarkSent, walletVars
  <1>6. CASE StopVerifier /\ UNCHANGED walletVars
    <2>1. call'[v] = call[v] \/ call'[v] = Silent
      BY <1>1, <1>6 DEF StopVerifier
    <2>2. UNCHANGED <<st, at, ctx>>
      BY <1>6 DEF walletVars
    <2> QED
      BY <1>1, <1>2, <2>1, <2>2, SilentIs, HearingStays DEF Hearing
  <1>7. CASE StopWallet
    BY <1>7 DEF StopWallet, Asks, Asked, Hearing, Final, TypeInv, WalletInv, WalletType
  <1>8. CASE UNCHANGED <<walletVars, verifierVars>>
    BY <1>1, <1>2, <1>8, HearingStays DEF walletVars, verifierVars
  <1> QED
    BY <1>3, <1>4, <1>5, <1>6, <1>7, <1>8, StepsAre

LEMMA AnsweringInit == Init => AnsweringInv
  BY SilentIs DEF Init, InitVerifier, AnsweringInv, Answering, Caller

\* An answer that comes in is what the run was asked for, against what is served.
LEMMA AnswerComesIn ==
    ASSUME TypeInv, AsksInv, NEW w \in Run, SendResponse(w) PROVE Answering(w)'
  <1>1. /\ w \in Caller /\ call \in [Caller -> VerifierCall] /\ Asks("sendResponse", ctx[w])
        /\ ArriveWithAnswer(w, ctx[w].req, ctx[w].asked) /\ UNCHANGED <<rp, session, definitionVars>>
    BY DEF Caller, TypeInv, VerifierInv, VerifierType, AsksInv, SendResponse, In, Wait, ArriveWithAnswer
  <1>2. PICK d \in OrNone(Served) :
          IF d = None THEN Reply(w, "refused", None)
          ELSE call' = [call EXCEPT ![w] = [Silent EXCEPT !.op = "answer", !.req = ctx[w].req,
                          !.at = "party", !.vp = ctx[w].asked, !.seen = d]]
    BY <1>1 DEF ArriveWithAnswer
  <1>3. CASE d = None
    BY <1>1, <1>2, <1>3, ReplySays DEF Answering, TypeInv
  <1>4. CASE d # None
    <2> DEFINE n == [Silent EXCEPT !.op = "answer", !.req = ctx[w].req, !.at = "party",
                                   !.vp = ctx[w].asked, !.seen = d]
    <2>1. n.req = ctx[w].req /\ n.vp = ctx[w].asked /\ n.seen = d
      BY DEF Silent
    <2>2. call' = [call EXCEPT ![w] = n]
      BY <1>2, <1>4
    <2> HIDE DEF n
    <2>3. call'[w] = n
      BY <1>1, <2>2
    <2>4. d \in Served /\ Served' = Served
      BY <1>1, <1>4 DEF OrNone, Served, definitionVars
    <2> QED
      BY <1>1, <2>1, <2>3, <2>4 DEF Answering, Asks, Asked
  <1> QED
    BY <1>3, <1>4

LEMMA AnsweringStep == TypeInv /\ AsksInv /\ AnsweringInv /\ [Next]_vars => AnsweringInv'
  <1> SUFFICES ASSUME TypeInv, AsksInv, AnsweringInv, [Next]_vars, NEW v \in Run PROVE Answering(v)'
    BY DEF AnsweringInv
  <1>1. /\ VerifierInv /\ v \in Caller /\ call \in [Caller -> VerifierCall] /\ Answering(v)
    BY DEF TypeInv, Caller, VerifierInv, VerifierType, AnsweringInv
  <1>2. ASSUME call'[v] = call[v] \/ call'[v].op # "answer" PROVE Answering(v)'
    BY <1>1, <1>2, AnswersStay
  <1>3. ASSUME NEW w \in Run, UserActs(w) \/ Service(w) \/ SaveState(w) PROVE Answering(v)'
    <2>1. CASE v # w
      BY <1>2, <1>3, <2>1, WalletApart DEF Apart
    <2>2. CASE SendResponse(v)
      BY <2>2, AnswerComesIn
    <2>3. CASE GetSiopRequest(v)
      <3>1. st'[v] = "getSiopRequest" /\ at'[v] = "waiting" /\ Hearing(v)'
        BY <2>3, FetchHears DEF GetSiopRequest, In, Wait, TypeInv, WalletInv, WalletType
      <3> QED
        BY <1>2, <3>1 DEF Hearing
    <2>4. CASE ReceiveRequest(v) \/ ReceiveVerdict(v)
      <3>1. call'[v] = Silent
        BY <1>1, <2>4 DEF ReceiveRequest, ReceiveVerdict, Hear, End
      <3> QED
        BY <1>2, <3>1, SilentIs
    <2>5. CASE \/ UserActs(v) \/ SaveState(v) \/ CreateConfig(v) \/ RetrieveContact(v) \/ AddContact(v)
               \/ GetSelectableCredentials(v) \/ SendWithoutSession(v)
      <3>1. UNCHANGED call
        BY <2>5 DEF UserActs, OpenLink, ResumeForLink, SelectCredentials, GoBack, GiveUp, SaveState,
           CreateConfig, RetrieveContact, AddContact, GetSelectableCredentials, SendWithoutSession,
           Alone, verifierVars
      <3> QED
        BY <1>2, <3>1
    <2> QED
      BY <1>3, <2>1, <2>2, <2>3, <2>4, <2>5 DEF Service
  <1>4. ASSUME NEW c \in Caller, Serving(c) PROVE Answering(v)'
    <2>1. CASE c # v
      BY <1>1, <1>2, <1>4, <2>1, CallsApart DEF Serving
    <2>2. CASE c = v
      <3>1. CASE GoesOn(v)
        BY <1>1, <3>1, AnswersStay DEF GoesOn
      <3>2. CASE Answered(v)
        BY <1>2, <3>2 DEF Answered
      <3> QED
        BY <1>1, <1>4, <2>2, <3>1, <3>2, ServingReplies
    <2> QED
      BY <2>1, <2>2
  <1>5. CASE StopVerifier
    <2>1. call'[v] = call[v] \/ call'[v] = Silent
      BY <1>1, <1>5 DEF StopVerifier
    <2> QED
      BY <1>2, <2>1, SilentIs
  <1>6. CASE (\E r \in Request : MarkSent(r)) \/ StopWallet \/ UNCHANGED verifierVars
    BY <1>2, <1>6 DEF MarkSent, StopWallet, verifierVars
  <1> QED
    BY <1>3, <1>4, <1>5, <1>6, StepsAre

\* A verdict that turns an answer away.
LEMMA RefusalTells ==
    ASSUME TypeInv, AnsweringInv, NEW c \in Caller, GiveVerdict(c), call[c].vp # call[c].seen,
           session[call[c].req] # None
    PROVE  rp.at < changes \/ Cardinality(Served) > 1 \/ Outdated(rp.version)
  <1>1. c \in Run /\ call[c].op = "answer" /\ call[c].req \in Request
    BY DEF GiveVerdict, TypeInv, VerifierInv, CallsFit, Under, Fits
  <1>2. rp # None /\ rp \in Party /\ IsRead(rp) /\ changes \in Int
    BY <1>1 DEF TypeInv, VerifierInv, VerifierType, SessionsKnown, PartyIsRead, EditorsInv, EditorsType
  <1>3. CASE rp.at = changes /\ ~Outdated(rp.version)
    <2>1. /\ call[c].vp = rp.def /\ call[c].seen \in Served /\ rp.def # None
          /\ rp.def \in OrNone(ServedOf(rp.version))
      BY <1>1, <1>2, <1>3 DEF AnsweringInv, Answering, IsRead
    <2>2. rp.def \in Served
      <3>1. rp.version = None => ServedOf(rp.version) = Served
        BY DEF ServedOf, Served
      <3>2. PICK i \in items : /\ rp.version \in {None, i.version} /\ i.payload = rp.def
        BY <2>1 DEF OrNone, ServedOf, HighestOf
      <3>3. items \subseteq Item
        BY DEF TypeInv, EditorsInv, EditorsType
      <3>4. rp.version # None => \A j \in items : j.version <= i.version
        BY <1>3, <3>2, <3>3 DEF Outdated, Item
      <3> QED
        BY <2>1, <3>1, <3>2, <3>4 DEF OrNone, Served, HighestOf
    <2>3. IsFiniteSet(items)
      BY DEF TypeInv, EditorsInv, EditorsType
    <2>4. IsFiniteSet(Served)
      <3> DEFINE top == {h \in items : \A j \in items : j.version <= h.version}
                 content == [i \in top |-> i.payload]
      <3>1. IsFiniteSet(top)
        BY <2>3, FS_Subset
      <3>2. content \in Surjection(top, Served)
        BY DEF Surjection, Served, HighestOf
      <3> QED
        BY <3>1, <3>2, FS_Surjection
    <2>5. Cardinality({call[c].vp, call[c].seen}) = 2 /\ {call[c].vp, call[c].seen} \subseteq Served
      BY <2>1, <2>2, TwoElements DEF GiveVerdict
    <2>6. Cardinality({call[c].vp, call[c].seen}) <= Cardinality(Served) /\ Cardinality(Served) \in Nat
      BY <2>4, <2>5, FS_Subset, FS_CardinalityType
    <2> QED
      BY <2>5, <2>6
  <1>4. CASE rp.at # changes
    BY <1>2, <1>4 DEF IsRead, Party
  <1> QED
    BY <1>3, <1>4

\* A session is in error only by a verdict, or because it was.
LEMMA ErrorComes ==
    ASSUME TypeInv, ReadyInv, [Next]_vars, NEW r \in Request, session'[r] # None, session'[r].resp = "error"
    PROVE  \/ session[r] # None /\ session[r].resp = "error"
           \/ \E c \in Caller : /\ GiveVerdict(c) /\ call[c].req = r /\ call[c].vp # call[c].seen
                                /\ session[r] # None /\ UNCHANGED definitionVars
  <1> DEFINE Was == session[r] # None /\ session[r].resp = "error"
             Verdict == \E c \in Caller : /\ GiveVerdict(c) /\ call[c].req = r /\ call[c].vp # call[c].seen
                                          /\ session[r] # None /\ UNCHANGED definitionVars
  <1>1. session \in Sessions /\ \A q \in Request : NoSessions[q] = None
    BY NoSessionsType DEF TypeInv, VerifierInv, VerifierType
  <1>2. UNCHANGED session => Was
    OBVIOUS
  <1>3. ASSUME NEW c \in Caller, NEW k \in VerifierCall, NEW p \in Party, NEW ss \in Sessions,
     Handled(c, k, p, ss)
        PROVE  Was
    <2>1. ss = session \/ ss = NoSessions
      BY <1>3 DEF Handled
    <2>2. CASE Create(c, k, ss)
      <3>1. session' = [ss EXCEPT ![c] = [req |-> "created", resp |-> "none"]]
        BY <2>2 DEF Create
      <3>2. session'[r] = ss[r] \/ session'[r] = [req |-> "created", resp |-> "none"]
        BY <3>1 DEF Sessions
      <3> QED
        BY <1>1, <2>1, <3>2
    <2>3. CASE Poll(c, k, ss) \/ Fetch(c, k, p, ss)
      BY <1>1, <2>1, <2>3 DEF Poll, Fetch
    <2>4. CASE Delete(c, k, ss)
      <3>1. session'[r] \in {ss[r], None}
        BY <2>4 DEF Delete, Sessions
      <3> QED
        BY <1>1, <2>1, <3>1
    <2>5. CASE Receive(c, k, ss)
      <3>1. CASE ss[k.req] = None
        BY <1>1, <2>1, <2>5, <3>1 DEF Receive
      <3>2. CASE ss[k.req] # None
        <4>1. session' = [ss EXCEPT ![k.req].resp = "received"]
          BY <2>5, <3>2 DEF Receive
        <4>2. CASE k.req = r
          <5>1. ss[r] \in Session /\ session'[r] = [ss[r] EXCEPT !.resp = "received"]
            BY <3>2, <4>1, <4>2 DEF Sessions
          <5> QED
            BY <5>1 DEF Session
        <4>3. CASE k.req # r
          <5>1. session'[r] = ss[r]
            BY <4>1, <4>3 DEF Sessions
          <5> QED
            BY <1>1, <2>1, <5>1
        <4> QED
          BY <4>2, <4>3
      <3> QED
        BY <3>1, <3>2
    <2> QED
      BY <1>3, <2>2, <2>3, <2>4, <2>5 DEF Handled, Handle
  <1>4. ASSUME NEW c \in Caller, GiveVerdict(c), UNCHANGED definitionVars PROVE Was \/ Verdict
    <2>1. CASE session[call[c].req] = None \/ call[c].req # r
      <3>1. session'[r] = session[r]
        BY <1>1, <1>4, <2>1 DEF GiveVerdict, Sessions
      <3> QED
        BY <3>1
    <2>2. CASE session[call[c].req] # None /\ call[c].req = r
      <3>1. CASE call[c].vp = call[c].seen
        <4>1. session' = [session EXCEPT ![r].resp = "verified"]
          BY <1>4, <2>2, <3>1 DEF GiveVerdict
        <4>2. session[r] \in Session /\ session'[r] = [session[r] EXCEPT !.resp = "verified"]
          BY <1>1, <2>2, <4>1 DEF Sessions
        <4> QED
          BY <4>2 DEF Session
      <3>2. CASE call[c].vp # call[c].seen
        BY <1>4, <2>2, <3>2
      <3> QED
        BY <3>1, <3>2
    <2> QED
      BY <2>1, <2>2
  <1>5. ASSUME NEW q \in Request, MarkSent(q) PROVE Was
    <2>1. CASE session[q] = None \/ q # r
      <3>1. session'[r] = session[r]
        BY <1>1, <1>5, <2>1 DEF MarkSent, Sessions
      <3> QED
        BY <3>1
    <2>2. CASE session[q] # None /\ q = r
      <3>1. session[r] \in Session /\ session'[r] = [session[r] EXCEPT !.req = "sent"]
        BY <1>1, <1>5, <2>2 DEF MarkSent, Sessions
      <3> QED
        BY <2>2, <3>1 DEF Session
    <2> QED
      BY <2>1, <2>2
  <1>6. ASSUME NEW c \in Caller, Serving(c) PROVE Was \/ Verdict
    <2>1. HandlesOrMisses(c) => Was
      BY <1>2, <1>3 DEF HandlesOrMisses, Missed
    <2>2. ReadsForParty(c) \/ LookAtResponse(c) => Was
      BY <1>2 DEF ReadsForParty, ReadForParty, LookAtResponse
    <2>3. GiveVerdict(c) => Was \/ Verdict
      BY <1>4, <1>6 DEF Serving
    <2> HIDE DEF Was, Verdict
    <2> QED
      BY <1>6, <2>1, <2>2, <2>3 DEF Serving
  <1>7. ~StopVerifier
    BY <1>1 DEF StopVerifier
  <1>8. ASSUME NEW w \in Run, UserActs(w) \/ Service(w) \/ SaveState(w) PROVE Was
    BY <1>2, <1>8, WalletLeaves
  <1>9. StopWallet \/ UNCHANGED verifierVars => Was
    BY <1>2 DEF StopWallet, verifierVars
  <1> HIDE DEF Was, Verdict
  <1>10. Was \/ Verdict
    BY <1>5, <1>6, <1>7, <1>8, <1>9, StepsAre
  <1> QED
    BY <1>10 DEF Was, Verdict

LEMMA RefusedInit == Init => RefusedOnlyIfChanged
  BY DEF Init, InitVerifier, NoSessions, RefusedOnlyIfChanged

LEMMA RefusedStep ==
    TypeInv /\ ReadyInv /\ AnsweringInv /\ RefusedOnlyIfChanged /\ [Next]_vars => RefusedOnlyIfChanged'
  <1> SUFFICES ASSUME TypeInv, ReadyInv, AnsweringInv, RefusedOnlyIfChanged, [Next]_vars,
                      NEW r \in Request, session'[r] # None, session'[r].resp = "error"
               PROVE  rp'.at < changes' \/ Cardinality(Served)' > 1 \/ Outdated(rp.version)'
    BY DEF RefusedOnlyIfChanged
  <1>1. session[r] # None
    BY ErrorComes
  <1>2. told[r] # "none" /\ rp # None /\ rp \in Party /\ IsRead(rp) /\ changes \in Int /\ changes' \in Int
    BY <1>1, TypeStep DEF TypeInv, VerifierInv, VerifierType, SessionsKnown, PartyIsRead, EditorsInv,
       EditorsType
  <1>3. rp' = rp /\ rp.at <= changes /\ rp.at \in Int
    BY <1>2, PartyStays DEF IsRead, Party
  <1>4. rp.at < changes \/ Cardinality(Served) > 1 \/ Outdated(rp.version)
    <2>1. CASE session[r].resp = "error"
      BY <1>1, <2>1 DEF RefusedOnlyIfChanged
    <2>2. CASE session[r].resp # "error"
      BY <2>2, ErrorComes, RefusalTells
    <2> QED
      BY <2>1, <2>2
  <1>5. changes' >= changes /\ (changes' = changes => items' = items /\ Served' = Served)
    BY ServedStays
  <1>6. changes' = changes /\ Outdated(rp.version) => Outdated(rp.version)'
    BY <1>3, <1>5 DEF Outdated
  <1> QED
    BY <1>2, <1>3, <1>4, <1>5, <1>6

(* An honest answer is turned away only when the definition was written    *)
(* since the relying party read it for its requests, or when two rows of   *)
(* the same version are served in turn: the definition is read once for    *)
(* all requests, and again for every answer. Or the relying party is meant *)
(* to ask for a version that is not the highest, which is what the answer  *)
(* is checked against.                                                     *)
THEOREM RefusalsMeanChange == Spec => []RefusedOnlyIfChanged
  <1>1. Spec => [](AsksInv /\ AnsweringInv)
    BY TypeAlways, AsksInit, AsksStep, AnsweringInit, AnsweringStep, PTL DEF Spec
  <1> QED
    BY <1>1, TypeAlways, ConsentAlways, RefusedInit, RefusedStep, PTL DEF Spec
-----------------------------------------------------------------------------
(* The editors in turn. A call that no other edit overlapped has the table *)
(* to itself: what it read of the rows is what they are.                   *)
Lone(e) ==
    LET c == editor[e] IN
    c.at # "idle" /\ c.alone =>
        /\ \A f \in Editor \ {e} : editor[f].at = "idle"
        /\ c.at = "latest" => c.existing \in items
        /\ c.at = "write" /\ (c.version = None \/ c.existing # None) =>
              c.latest \in LatestOf(items)

LoneInv == \A e \in Editor : Lone(e)

LEMMA LoneInit == Init => LoneInv
  BY DEF Init, InitDefinitions, NoCall, LoneInv, Lone

LEMMA LoneMaintain ==
    ASSUME EditorsInv, LoneInv, NEW e \in Editor, Maintain(e) PROVE LoneInv'
  <1>1. editor[e] \in EditorCall /\ editor \in [Editor -> EditorCall] /\ items \subseteq Item
    BY DEF EditorsInv, EditorsType
  <1>2. editor[e].at # "idle" /\ \A f \in Editor \ {e} : editor'[f] = editor[f]
    BY <1>1 DEF Maintain, ReadLatest, AddDefinition, RefusePersist, FindTarget, SaveTarget, Return
  <1>3. ASSUME NEW f \in Editor \ {e} PROVE Lone(f)'
    <2>1. Lone(f) /\ editor'[f] = editor[f]
      BY <1>2 DEF LoneInv
    <2>2. ~(editor[f].at # "idle" /\ editor[f].alone)
      BY <1>2, <2>1 DEF Lone
    <2> QED
      BY <2>1, <2>2 DEF Lone
  <1>4. CASE ReadLatest(e)
    <2>1. PICK x \in LatestOf(items) :
            editor' = [editor EXCEPT ![e].latest = IF x = None THEN @ ELSE x, ![e].at = "write"]
      BY <1>4 DEF ReadLatest
    <2>2. /\ editor[e].at = "latest" /\ editor'[e].at = "write" /\ items' = items
          /\ editor'[e].latest = (IF x = None THEN editor[e].latest ELSE x)
          /\ editor'[e].alone = editor[e].alone /\ editor'[e].existing = editor[e].existing
      BY <1>1, <1>4, <2>1 DEF ReadLatest, EditorCall
    <2> SUFFICES ASSUME editor[e].alone
                 PROVE  /\ \A f \in Editor \ {e} : editor'[f].at = "idle"
                        /\ editor'[e].latest \in LatestOf(items)
      BY <1>3, <2>2 DEF LoneInv, Lone
    <2>3. editor[e].existing \in items /\ \A f \in Editor \ {e} : editor[f].at = "idle"
      BY <2>2 DEF LoneInv, Lone
    <2>4. x # None
      BY <1>1, <2>1, <2>3 DEF LatestOf
    <2> QED
      BY <1>2, <2>1, <2>2, <2>3, <2>4
  <1>5. CASE ~ReadLatest(e)
    <2>1. editor'[e].at \in {"idle", "save"}
      BY <1>1, <1>5
      DEF Maintain, AddDefinition, RefusePersist, FindTarget, SaveTarget, Return, NoCall, EditorCall
    <2>2. editor'[e].at = "save" =>
              editor'[e].alone = editor[e].alone
      BY <1>1, <1>5
      DEF Maintain, AddDefinition, RefusePersist, FindTarget, SaveTarget, Return, NoCall, EditorCall
    <2>3. Lone(e)'
      BY <1>2, <2>1, <2>2 DEF LoneInv, Lone
    <2> QED
      BY <1>3, <2>3 DEF LoneInv
  <1> QED
    BY <1>4, <1>5

LEMMA LoneBegin ==
    ASSUME EditorsInv, LoneInv, NEW e \in Editor, NEW m \in Mode, NEW v \in {None} \cup Named,
           NEW p \in Payload, BeginPersist(e, m, v, p)
    PROVE  LoneInv'
  <1>1. PICK x \in LatestOf({i \in items : v \in {None, i.version}}) :
          editor' = [f \in Editor |->
              IF f # e THEN [editor[f] EXCEPT !.alone = editor[f].at = "idle"]
              ELSE IF (x # None /\ v # None) /\ x.payload = p THEN NoCall
              ELSE [at |-> IF x # None /\ v # None THEN "latest" ELSE "write",
                    mode |-> m, version |-> v, payload |-> p, row |-> edited + 1,
                    existing |-> x, latest |-> x,
                    alone |-> \A g \in Editor \ {e} : editor[g].at = "idle"]]
    BY DEF BeginPersist
  <1>2. items' = items
    BY DEF BeginPersist
  <1>3. ASSUME NEW f \in Editor \ {e} PROVE editor'[f].at = editor[f].at /\ Lone(f)'
    <2>1. editor[f] \in EditorCall /\ editor'[f] = [editor[f] EXCEPT !.alone = editor[f].at = "idle"]
      BY <1>1 DEF EditorsInv, EditorsType
    <2>2. editor'[f].at = editor[f].at /\ editor'[f].alone = (editor[f].at = "idle")
      BY <2>1, AsideType
    <2> QED
      BY <2>2 DEF Lone
  <1>4. CASE editor'[e] = NoCall
    BY <1>3, <1>4 DEF LoneInv, Lone, NoCall
  <1>5. CASE editor'[e] # NoCall
    <2>1. /\ editor'[e].at = (IF x # None /\ v # None THEN "latest" ELSE "write")
          /\ editor'[e].version = v /\ editor'[e].existing = x /\ editor'[e].latest = x
          /\ editor'[e].alone = (\A g \in Editor \ {e} : editor[g].at = "idle")
      BY <1>1, <1>5
    <2>2. x # None => x \in items
      BY LatestIsOne
    <2>3. v = None => x \in LatestOf(items)
      <3>1. v = None => {i \in items : v \in {None, i.version}} = items
        OBVIOUS
      <3> QED
        BY <1>1, <3>1
    <2>4. Lone(e)'
      BY <1>2, <1>3, <2>1, <2>2, <2>3 DEF Lone
    <2> QED
      BY <1>3, <2>4 DEF LoneInv
  <1> QED
    BY <1>4, <1>5

LEMMA LoneDelete == ASSUME EditorsInv, LoneInv, DeleteDefinition PROVE LoneInv'
  <1>1. editor' = [f \in Editor |-> [editor[f] EXCEPT !.alone = editor[f].at = "idle"]]
    BY DEF DeleteDefinition
  <1> SUFFICES ASSUME NEW f \in Editor PROVE Lone(f)'
    BY DEF LoneInv
  <1>2. editor[f] \in EditorCall /\ editor'[f] = [editor[f] EXCEPT !.alone = editor[f].at = "idle"]
    BY <1>1 DEF EditorsInv, EditorsType
  <1>3. editor'[f].at = editor[f].at /\ editor'[f].alone = (editor[f].at = "idle")
    BY <1>2, AsideType
  <1> QED
    BY <1>3 DEF Lone

LEMMA LoneStep == TypeInv /\ LoneInv /\ [Next]_vars => LoneInv'
  <1> SUFFICES ASSUME TypeInv, LoneInv, [Next]_vars PROVE LoneInv'
    OBVIOUS
  <1>1. EditorsInv /\ (Editing \/ UNCHANGED definitionVars)
    BY VerifierSide DEF TypeInv
  <1>2. CASE UNCHANGED definitionVars
    BY <1>2 DEF definitionVars, LoneInv, Lone
  <1> QED
    BY <1>1, <1>2, LoneMaintain, LoneBegin, LoneDelete DEF Editing

\* Below ten the order of the text is that of the numbers.
LEMMA TextOrder ==
    ASSUME NEW v \in 1 .. 9, NEW w \in 1 .. 9, TextRank(v) <= TextRank(w) PROVE v <= w
  BY DEF TextRank

\* What is served once a row is added above all others.
LEMMA TopIsServed ==
    ASSUME NEW row \in Item, items \subseteq Item, items' = items \cup {row},
           \A j \in items : j.version < row.version
    PROVE  Served' = {row.payload}
  <1>1. row.version \in Nat /\ \A j \in items : j.version \in Nat
    BY DEF Item
  <1>2. {h \in items' : \A j \in items' : j.version <= h.version} = {row}
    BY <1>1
  <1> QED
    BY <1>2 DEF Served, HighestOf

LEMMA LoneAddIsServed ==
    ASSUME EditorsInv, LoneInv, NEW e \in Editor, AddDefinition(e),
           editor[e].mode = "AutoIncrement", editor[e].alone,
           editor[e].version = None \/ editor[e].existing # None,
           \A i \in items : i.version < 10
    PROVE  Served' = {editor[e].payload}
  <1> DEFINE c == editor[e]
             row == [id |-> c.row, version |-> NewVersion(c), payload |-> c.payload]
  <1>1. c \in EditorCall /\ items \subseteq Item
    BY DEF EditorsInv, EditorsType
  <1>2. c.at = "write" /\ items' = items \cup {row} /\ NewVersion(c) <= MaxVersion
    BY DEF AddDefinition
  <1>3. c.latest \in LatestOf(items)
    BY <1>2 DEF LoneInv, Lone
  <1>4. c.row \in 0 .. Edits /\ c.payload \in Payload
    BY <1>1, <1>2 DEF EditorsInv, OwnRow, EditorCall
  <1>5. NewVersion(c) \in Nat \ {0} /\ \A j \in items : j.version < NewVersion(c)
    <2>1. CASE c.latest = None
      <3>1. items = {}
        BY <1>1, <1>3, <2>1 DEF LatestOf
      <3> QED
        BY <1>1, <3>1, VersionIsNumber
    <2>2. CASE c.latest # None
      <3>1. c.latest \in items /\ \A j \in items : TextRank(j.version) <= TextRank(c.latest.version)
        BY <1>3, <2>2 DEF LatestOf
      <3>2. \A j \in items : j.version \in 1 .. 9
        BY <1>1 DEF Item
      <3>3. NewVersion(c) = c.latest.version + 1
        BY <2>2 DEF NewVersion
      <3>4. \A j \in items : j.version <= c.latest.version
        BY <3>1, <3>2, TextOrder
      <3> QED
        BY <3>1, <3>2, <3>3, <3>4
    <2> QED
      BY <2>1, <2>2
  <1>6. row \in Item
    BY <1>2, <1>4, <1>5 DEF Item
  <1>7. row.version = NewVersion(c) /\ row.payload = c.payload
    OBVIOUS
  <1> HIDE DEF row, c
  <1>8. Served' = {row.payload}
    BY <1>1, <1>2, <1>5, <1>6, <1>7, TopIsServed
  <1> QED
    BY <1>7, <1>8 DEF c

\* What one step does to the table under a call that ends.
IncrementIsServed ==
    \A e \in Editor :
        LET c == editor[e] IN
        /\ c.at = "write" /\ c.mode = "AutoIncrement" /\ c.alone /\ editor'[e].at = "idle"
        /\ c.version = None \/ c.existing # None
        /\ \A i \in items : i.version < 10
        => Served' = {c.payload}

LEMMA IncrementStep == TypeInv /\ LoneInv /\ [Next]_vars => IncrementIsServed
  <1> SUFFICES ASSUME TypeInv, LoneInv, [Next]_vars, NEW e \in Editor,
                      editor[e].at = "write", editor[e].mode = "AutoIncrement", editor[e].alone,
                      editor'[e].at = "idle",
                      editor[e].version = None \/ editor[e].existing # None,
                      \A i \in items : i.version < 10
               PROVE  Served' = {editor[e].payload}
    BY DEF IncrementIsServed
  <1>1. EditorsInv /\ (Editing \/ UNCHANGED definitionVars)
    BY VerifierSide DEF TypeInv
  <1>2. editor \in [Editor -> EditorCall]
    BY <1>1 DEF EditorsInv, EditorsType
  <1>3. ASSUME NEW f \in Editor, Maintain(f) PROVE f = e
    <2>1. f # e => editor'[e] = editor[e]
      BY <1>2, <1>3
      DEF Maintain, ReadLatest, AddDefinition, RefusePersist, FindTarget, SaveTarget, Return
    <2> QED
      BY <2>1
  <1>4. CASE Maintain(e)
    <2>1. Target(editor[e]) = None
      BY DEF Target
    <2>2. AddDefinition(e)
      BY <1>2, <1>4, <2>1
      DEF Maintain, ReadLatest, RefusePersist, FindTarget, SaveTarget
    <2> QED
      BY <1>1, <2>2, LoneAddIsServed
  <1>5. ~UNCHANGED definitionVars
    BY DEF definitionVars
  <1>6. ASSUME NEW f \in Editor, NEW m \in Mode, NEW v \in {None} \cup Named, NEW p \in Payload,
               BeginPersist(f, m, v, p)
        PROVE  FALSE
    <2>1. f # e
      BY <1>6 DEF BeginPersist
    <2>2. editor'[e] = [editor[e] EXCEPT !.alone = editor[e].at = "idle"]
      BY <1>6, <2>1 DEF BeginPersist
    <2> QED
      BY <1>2, <2>2, AsideType
  <1>7. ~DeleteDefinition
    <2> SUFFICES ASSUME DeleteDefinition PROVE FALSE
      OBVIOUS
    <2>1. editor'[e] = [editor[e] EXCEPT !.alone = editor[e].at = "idle"]
      BY DEF DeleteDefinition
    <2> QED
      BY <1>2, <2>1, AsideType
  <1> QED
    BY <1>1, <1>3, <1>4, <1>5, <1>6, <1>7 DEF Editing

(* A persist in mode AutoIncrement that no other edit overlaps is what is  *)
(* served when it is done, for any editors, payloads and tables: as long as*)
(* the versions have one digit, so that the order of their text is theirs, *)
(* and unless the caller names a version that is not there.                *)
THEOREM IncrementsAreServed == Spec => AutoIncrementIsServed
  <1>1. Spec => []LoneInv
    BY TypeAlways, LoneInit, LoneStep, PTL DEF Spec
  <1> QED
    BY <1>1, TypeAlways, IncrementStep, PTL DEF Spec, AutoIncrementIsServed, IncrementIsServed
=============================================================================
