------------------------ MODULE DigitalCredentialStore ------------------------
(***************************************************************************)
(* The table of digital credentials (data-store DigitalCredentialStore.ts, *)
(* credential-store CredentialStore.ts): credentials are added, perhaps    *)
(* under a parent, are verified and revoked, and are removed, the parents  *)
(* first. A call reads, and then writes or deletes row by row; other calls *)
(* run in between. A call that never goes on is one whose process died.    *)
(***************************************************************************)
EXTENDS Naturals, SequencesExt

CONSTANTS Doc,      \* documents, told apart by their hash
          Call,     \* calls of updateCredentialState and of the removals, each made once
          None,     \* no parent, no state or no date
          Given,    \* the date that a credential is added with, if it has one by then
          Added,    \* for each document the states and dates it may be added with
          MaxRows   \* bound on the rows ever inserted by addCredential

\* EXPIRED is set and dated as VERIFIED is.
Kind == {"VERIFIED", "REVOKED"}

Initial == [state : Kind \cup {None}, verifiedAt : {None, Given}, revokedAt : {None, Given}]

ASSUME StoreAssumption ==
    /\ Doc \cap Nat = {} /\ None \notin Nat \cup Call \cup Doc /\ MaxRows \in Nat
    /\ Added \in [Doc -> SUBSET Initial]

VARIABLES
    rows,      \* by id, in the order of creation: the row, or what it last was
    present,   \* the ids of the rows that are there
    at,        \* where a call is
    update,    \* what an update has read and is about to save
    query,     \* of a removal: by id or by hash, what it looks for next
    chain,     \*   what it has found and will delete, the child first
    affected,  \*   whether it has deleted a row
    batch      \*   the credentials that it was called for and the count so far

tableVars == <<rows, present>>
removalVars == <<query, chain, affected, batch>>

VARIABLES saved,     \* history: for each id the states saved for it, with what was seen,
                     \*   after the revocation that it was added with
          revived,   \* history: rows there that were inserted by an update
          robbed     \* history: removals that failed, or met another one's deletion of their rows

historyVars == <<saved, revived, robbed>>
vars == <<tableVars, at, update, removalVars, historyVars>>

Ids == 1 .. Len(rows)
NoUpdate == [id |-> 0, kind |-> "VERIFIED", verifiedAt |-> None, revokedAt |-> None, seen |-> 0]
OneOnly == [selected |-> {}, queue |-> <<>>, count |-> 0]

Init ==
    /\ rows = <<>> /\ present = {}
    /\ at = [c \in Call |-> "idle"]
    /\ update = [c \in Call |-> NoUpdate]
    /\ query = [c \in Call |-> None] /\ chain = [c \in Call |-> <<>>]
    /\ affected = [c \in Call |-> FALSE] /\ batch = [c \in Call |-> OneOnly]
    /\ saved = <<>> /\ revived = {} /\ robbed = {}

\* A query is by id or by hash, which is unique.
Found(q) == {i \in present : i = q \/ rows[i].doc = q}

\* A slip in the next operator: the hash is not unique.
AnyDocument(d) == TRUE

CanInsert(d) == \A i \in present : rows[i].doc # d
-----------------------------------------------------------------------------
NewRow(d, p, a) ==
    [doc |-> d, parent |-> p, state |-> a.state, verifiedAt |-> a.verifiedAt, revokedAt |-> a.revokedAt]

RevokedBefore(a) ==
    IF a.revokedAt = None THEN <<>> ELSE <<[by |-> a.revokedAt, kind |-> "REVOKED", seen |-> 0]>>

\* The parent, if there is one, is a credential that was added before.
AddCredential ==
    /\ Len(rows) < MaxRows
    /\ \E d \in Doc, p \in Ids \cup {None} : \E a \in Added[d] :
          /\ CanInsert(d)
          /\ rows' = Append(rows, NewRow(d, p, a))
          /\ saved' = Append(saved, RevokedBefore(a))
    /\ present' = present \cup {Len(rows) + 1}
    /\ UNCHANGED <<at, update, removalVars, revived, robbed>>
-----------------------------------------------------------------------------
(* A change of state reads the credential, and saves what it has read with *)
(* the new state and its date. The date of each call is its own.           *)
UpdateCredentialState(c) ==
    /\ at[c] = "idle"
    /\ \E i \in present, k \in Kind :
          update' = [update EXCEPT ![c] = [id |-> i, kind |-> k, seen |-> Len(saved[i]),
                         verifiedAt |-> rows[i].verifiedAt, revokedAt |-> rows[i].revokedAt]]
    /\ at' = [at EXCEPT ![c] = "save"]
    /\ UNCHANGED <<tableVars, removalVars, historyVars>>

\* A slip in the next operator: a credential that is verified is no longer revoked.
UpdatedAndCleared(c) ==
    [rows[update[c].id] EXCEPT
        !.state = update[c].kind,
        !.verifiedAt = IF update[c].kind = "REVOKED" THEN update[c].verifiedAt ELSE c,
        !.revokedAt = IF update[c].kind = "REVOKED" THEN c ELSE None]

Updated(c) ==
    [rows[update[c].id] EXCEPT
        !.state = update[c].kind,
        !.verifiedAt = IF update[c].kind = "REVOKED" THEN update[c].verifiedAt ELSE c,
        !.revokedAt = IF update[c].kind = "REVOKED" THEN c ELSE update[c].revokedAt]

(* save writes the columns whatever they are by now, and inserts the row   *)
(* again if it is gone, unless its document was added anew.                *)
Save(c) ==
    /\ at[c] = "save"
    /\ LET i == update[c].id
       IN \/ /\ i \in present \/ CanInsert(rows[i].doc)
             /\ rows' = [rows EXCEPT ![i] = Updated(c)]
             /\ present' = present \cup {i}
             /\ saved' = [saved EXCEPT ![i] = Append(@,
                             [by |-> c, kind |-> update[c].kind, seen |-> update[c].seen])]
             /\ revived' = revived \cup ({i} \ present)
          \/ /\ i \notin present /\ ~CanInsert(rows[i].doc)
             /\ UNCHANGED <<tableVars, saved, revived>>
    /\ at' = [at EXCEPT ![c] = "done"]
    /\ update' = [update EXCEPT ![c] = NoUpdate]
    /\ UNCHANGED <<removalVars, robbed>>
-----------------------------------------------------------------------------
(* A removal climbs from the credential to the parent that has none, and   *)
(* deletes on its way back. One of several credentials finds them and then *)
(* removes one after another, in the order of creation.                    *)
RemoveCredential(c) ==
    /\ at[c] = "idle"
    /\ \E q \in Ids \cup Doc : query' = [query EXCEPT ![c] = q]
    /\ at' = [at EXCEPT ![c] = "find"]
    /\ UNCHANGED <<tableVars, update, chain, affected, batch, historyVars>>

\* A slip in the next operator: the latest comes first.
LatestFirst(S) ==
    CHOOSE s \in [1 .. Cardinality(S) -> S] : \A i, j \in DOMAIN s : i < j => s[i] > s[j]

CreatedAtAsc(S) ==
    CHOOSE s \in [1 .. Cardinality(S) -> S] : \A i, j \in DOMAIN s : i < j => s[i] < s[j]

DeleteCredentials(c) ==
    /\ at[c] = "idle"
    /\ \E S \in (SUBSET present) \ {{}} :
          LET ids == CreatedAtAsc(S)
          IN /\ query' = [query EXCEPT ![c] = Head(ids)]
             /\ batch' = [batch EXCEPT ![c] = [selected |-> S, queue |-> Tail(ids), count |-> 0]]
    /\ at' = [at EXCEPT ![c] = "find"]
    /\ UNCHANGED <<tableVars, update, chain, affected, historyVars>>

\* A removal has ended, having deleted something or not; the next one of the batch begins.
Finish(c, any) ==
    /\ \/ /\ batch[c].queue = <<>>
          /\ at' = [at EXCEPT ![c] = "done"]
          /\ query' = [query EXCEPT ![c] = None]
       \/ /\ batch[c].queue # <<>>
          /\ at' = [at EXCEPT ![c] = "find"]
          /\ query' = [query EXCEPT ![c] = Head(batch[c].queue)]
    /\ batch' = [batch EXCEPT ![c].queue = IF @ = <<>> THEN @ ELSE Tail(@),
                              ![c].count = IF any THEN @ + 1 ELSE @]
    /\ chain' = [chain EXCEPT ![c] = <<>>]
    /\ affected' = [affected EXCEPT ![c] = FALSE]

Climb(c, i) ==
    /\ i \in Found(query[c])
    /\ chain' = [chain EXCEPT ![c] = Append(@, i)]
    /\ query' = [query EXCEPT ![c] = rows[i].parent]
    /\ at' = [at EXCEPT ![c] = IF rows[i].parent = None THEN "delete" ELSE "find"]
    /\ UNCHANGED <<affected, batch>>

DeleteTree(c) ==
    /\ at[c] = "find"
    /\ \/ \E i \in present : Climb(c, i)
       \/ Found(query[c]) = {} /\ chain[c] = <<>> /\ Finish(c, FALSE)
       \/ /\ Found(query[c]) = {} /\ chain[c] # <<>>
          /\ at' = [at EXCEPT ![c] = "delete"]
          /\ UNCHANGED removalVars
    /\ UNCHANGED <<tableVars, update, historyVars>>

\* A slip in the next operator: the child goes first.
ChildFirst(found) == [next |-> Head(found), rest |-> Tail(found)]

ParentFirst(found) == [next |-> Last(found), rest |-> Front(found)]

Busy(c) == at[c] \in {"find", "delete"}

Delete(c) ==
    /\ at[c] = "delete"
    /\ LET step == ParentFirst(chain[c])
           any == affected[c] \/ step.next \in present
       IN /\ present' = present \ {step.next}
          /\ revived' = revived \ {step.next}
          /\ robbed' = robbed \cup {d \in Call \ {c} : Busy(d) /\ step.next \in batch[d].selected}
          /\ \/ step.rest = <<>> /\ Finish(c, any)
             \/ /\ step.rest # <<>>
                /\ chain' = [chain EXCEPT ![c] = step.rest]
                /\ affected' = [affected EXCEPT ![c] = any]
                /\ UNCHANGED <<at, query, batch>>
    /\ UNCHANGED <<rows, update, saved>>

\* The database fails at a step of a removal, which then says that nothing was removed.
RemovalFails(c) ==
    /\ Busy(c)
    /\ Finish(c, FALSE)
    /\ robbed' = robbed \cup {c}
    /\ UNCHANGED <<tableVars, update, saved, revived>>
-----------------------------------------------------------------------------
Step(c) ==
    \/ UpdateCredentialState(c) \/ Save(c)
    \/ RemoveCredential(c) \/ DeleteCredentials(c) \/ DeleteTree(c) \/ Delete(c) \/ RemovalFails(c)

Next == AddCredential \/ \E c \in Call : Step(c)

Spec == Init /\ [][Next]_vars
-----------------------------------------------------------------------------
Date == Call \cup {None, Given}
Row == [doc : Doc, parent : Nat \cup {None}, state : Kind \cup {None},
        verifiedAt : Date, revokedAt : Date]

(* The variables keep their types: parents are older than their children,  *)
(* no two rows hold the same document, and a removal that deletes has      *)
(* something to delete.                                                    *)
TypeOK ==
    /\ rows \in Seq(Row) /\ present \subseteq Ids /\ revived \subseteq present
    /\ \A i \in Ids : rows[i].parent # None => rows[i].parent \in 1 .. (i - 1)
    /\ \A i, j \in present : rows[i].doc = rows[j].doc => i = j
    /\ at \in [Call -> {"idle", "save", "find", "delete", "done"}]
    /\ \A c \in Call : at[c] = "save" => update[c].id \in Ids
    /\ \A c \in Call : ToSet(chain[c]) \subseteq Ids
    /\ \A c \in Call : at[c] = "delete" => chain[c] # <<>>
    /\ robbed \subseteq Call

(* The date of a revocation is that of the last one, the one the credential*)
(* was added with included, however often it was verified, removed and     *)
(* brought back since: unless an update was saved, after the revocation,   *)
(* that had been read before it.                                           *)
RevocationStands ==
    \A i \in Ids : \A k \in DOMAIN saved[i] :
        (/\ saved[i][k].kind = "REVOKED"
         /\ \A j \in DOMAIN saved[i] :
               j > k => saved[i][j].kind # "REVOKED" /\ saved[i][j].seen >= k)
        => rows[i].revokedAt = saved[i][k].by

(* A credential that is gone has left no parent behind, at no moment of a  *)
(* removal, and not when removals overlap or fail half way: what a removal *)
(* has left is found again from the credential it was called for. Only an  *)
(* update that was under way brings a parent back.                         *)
WholeTreesGo ==
    \A i \in Ids \ present : rows[i].parent \in present => rows[i].parent \in revived

(* The number that a removal of several credentials answers is that of the *)
(* credentials it found, also if one is the parent of another: unless a    *)
(* step of it failed or another removal took one of them.                  *)
CountIsExact ==
    \A c \in Call :
        at[c] = "done" /\ c \notin robbed /\ batch[c].selected # {} =>
            batch[c].count = Cardinality(batch[c].selected)
=============================================================================
