----------------------- MODULE PresentationDefinitions -----------------------
(***************************************************************************)
(* The stored versions of one presentation definition: the version control *)
(* of pdmPersistDefinition (pd-manager PDManager.ts) over the table of     *)
(* data-store PDStore.ts. Every call on the store is a step of its own; the*)
(* two finds of getDefinitions are one, as is save, a SELECT and then an   *)
(* INSERT or UPDATE.                                                       *)
(*                                                                         *)
(* A version is the number of a major release, below 100; the table sorts  *)
(* versions as text, whoever asks for the highest compares numbers. Minor  *)
(* and pre-releases are left out. A payload stands for all that an item is *)
(* compared by: its definition, and its name and purpose.                  *)
(***************************************************************************)
EXTENDS Naturals, FiniteSets

CONSTANTS Editor,     \* callers of pdmPersistDefinition
          Payload,    \* contents of the definition
          Tables,     \* what the table may hold at first
          MaxVersion, \* bound on the versions
          Named,      \* versions that callers name
          Edits,      \* bound on persists and deletions
          None        \* no version, no item, no payload

Mode == {"AutoIncrement", "Overwrite", "OverwriteLatest", "Manual"}

Item == [id : 0..Edits, version : 1..MaxVersion, payload : Payload]

ASSUME DefinitionAssumption ==
    /\ MaxVersion \in 1..99 /\ Named \subseteq 1..MaxVersion
    /\ Edits \in Nat
    /\ Tables \subseteq SUBSET [id : {0}, version : 1..MaxVersion, payload : Payload]
    /\ \A t \in Tables : IsFiniteSet(t) /\ Cardinality(t) <= 1
    /\ None \notin Payload \cup Nat \cup Mode \cup Item

VARIABLES items,    \* the rows of the table
          editor,   \* the call each editor is in
          edited,   \* history: how many edits were begun
          changes   \* history: how often the table was written

definitionVars == <<items, editor, edited, changes>>

NoCall == [at |-> "idle", mode |-> None, version |-> None, payload |-> None, row |-> 0,
           existing |-> None, latest |-> None, alone |-> TRUE]

InitDefinitions ==
    /\ items \in Tables
    /\ editor = [e \in Editor |-> NoCall]
    /\ edited = 0 /\ changes = 0

\* Where the text of a version of up to two digits stands among the others.
TextRank(v) == IF v < 10 THEN 20 * v - 1 ELSE 2 * v

\* A slip in the next operator: the versions are sorted the other way.
LowestOf(S) ==
    IF S = {} THEN {None} ELSE {i \in S : \A j \in S : TextRank(i.version) <= TextRank(j.version)}

\* The rows getDefinitions may answer first: equal versions have no order.
LatestOf(S) ==
    IF S = {} THEN {None} ELSE {i \in S : \A j \in S : TextRank(j.version) <= TextRank(i.version)}

\* The contents pdmGetDefinitions may answer for the definition, and for one version of it.
HighestOf(S) == {i.payload : i \in {h \in S : \A j \in S : j.version <= h.version}}

Served == HighestOf(items)
ServedOf(version) == HighestOf({i \in items : version \in {None, i.version}})
-----------------------------------------------------------------------------
(* A call comes in and looks for the version it names, or for any. An item *)
(* that is there as asked for is left alone, which takes a call that names *)
(* the version.                                                            *)
BeginPersist(e, m, v, p) ==
    /\ editor[e].at = "idle" /\ edited < Edits
    /\ \E x \in LatestOf({i \in items : v \in {None, i.version}}) :
          LET named == x # None /\ v # None IN
          editor' = [f \in Editor |->
              IF f # e THEN [editor[f] EXCEPT !.alone = editor[f].at = "idle"]
              ELSE IF named /\ x.payload = p THEN NoCall
              ELSE [at |-> IF named THEN "latest" ELSE "write",
                    mode |-> m, version |-> v, payload |-> p, row |-> edited + 1,
                    existing |-> x, latest |-> x,
                    alone |-> \A g \in Editor \ {e} : editor[g].at = "idle"]]
    /\ edited' = edited + 1
    /\ UNCHANGED <<items, changes>>

ReadLatest(e) ==
    /\ editor[e].at = "latest"
    /\ \E x \in LatestOf(items) :
          editor' = [editor EXCEPT ![e].latest = IF x = None THEN @ ELSE x, ![e].at = "write"]
    /\ UNCHANGED <<items, edited, changes>>

\* The version of a new row.
NewVersion(c) ==
    IF c.mode = "AutoIncrement" /\ c.latest # None THEN c.latest.version + 1
    ELSE IF c.version = None THEN 1 ELSE c.version

\* The row to write over, if there is one.
Target(c) ==
    CASE c.mode = "Overwrite"       -> c.existing
      [] c.mode = "OverwriteLatest" -> c.latest
      [] OTHER                      -> None

Return(e) == editor' = [editor EXCEPT ![e] = NoCall]

AddDefinition(e) ==
    LET c == editor[e] IN
    /\ c.at = "write" /\ Target(c) = None
    /\ c.mode = "Manual" => c.existing = None
    /\ NewVersion(c) <= MaxVersion
    /\ items' = items \cup {[id |-> c.row, version |-> NewVersion(c), payload |-> c.payload]}
    /\ changes' = changes + 1
    /\ Return(e) /\ UNCHANGED edited

RefusePersist(e) ==
    LET c == editor[e] IN
    /\ c.at = "write"
    /\ c.mode = "Manual" /\ c.existing # None
    /\ Return(e) /\ UNCHANGED <<items, edited, changes>>

\* updateDefinition looks for the row; save inserts it again if it went since.
FindTarget(e) ==
    LET c == editor[e] IN
    /\ c.at = "write" /\ Target(c) # None
    /\ \/ \E i \in items : i.id = Target(c).id /\ editor' = [editor EXCEPT ![e].at = "save"]
       \/ (\A i \in items : i.id # Target(c).id) /\ Return(e)
    /\ UNCHANGED <<items, edited, changes>>

SaveTarget(e) ==
    LET c == editor[e] IN
    /\ c.at = "save"
    /\ items' = {i \in items : i.id # Target(c).id} \cup {[Target(c) EXCEPT !.payload = c.payload]}
    /\ changes' = changes + 1
    /\ Return(e) /\ UNCHANGED edited

DeleteDefinition ==
    /\ edited < Edits
    /\ \E i \in items : items' = items \ {i}
    /\ edited' = edited + 1 /\ changes' = changes + 1
    /\ editor' = [f \in Editor |-> [editor[f] EXCEPT !.alone = editor[f].at = "idle"]]

Maintain(e) == ReadLatest(e) \/ AddDefinition(e) \/ RefusePersist(e) \/ FindTarget(e) \/ SaveTarget(e)
-----------------------------------------------------------------------------
DefinitionsTypeOK ==
    /\ items \subseteq Item
    /\ \A i, j \in items : i.id = j.id => i = j
    /\ \A e \in Editor : LET c == editor[e] IN
          /\ c.at \in {"idle", "latest", "write", "save"}
          /\ c.at # "idle" => c.row \in 1..edited /\ c.payload \in Payload
          /\ {c.existing, c.latest} \subseteq Item \cup {None}
    /\ edited \in 0..Edits /\ changes \in 0..edited
=============================================================================
