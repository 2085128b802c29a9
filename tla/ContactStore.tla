---------------------------- MODULE ContactStore ----------------------------
(***************************************************************************)
(* The contacts of a wallet (data-store ContactStore.ts): parties and the  *)
(* identities by which they are recognised, and the operations of the      *)
(* contact screens, which are several database calls each.                 *)
(*                                                                         *)
(* One organisation is modelled, that may be known by its host name and by *)
(* its DID. Its legal name is unique (OrganizationEntity.ts:9), so that    *)
(* there is at most one party for it at a time.                            *)
(***************************************************************************)
EXTENDS Naturals, FiniteSets

CONSTANTS Party,     \* ids a contact may get, each once
          Nobody,    \* owner of an identity that has no row
          Orphan     \* owner of an identity whose row belongs to no party

Ident == {"host", "did"}

ASSUME ContactAssumption == Nobody \notin Party /\ Orphan \notin Party /\ Nobody # Orphan

VARIABLES parties,   \* the parties that have a row
          born,      \* the ids that were given out
          owner,     \* for each identity, which is unique, the party of its row
          edit       \* the operation of a contact screen that is under way

contactVars == <<parties, born, owner, edit>>

NoEdit == [op |-> "none", at |-> "find", party |-> Nobody, ids |-> {}]

IdentitiesOf(p) == {i \in Ident : owner[i] = p}

InitContacts ==
    /\ parties = {}
    /\ born = {}
    /\ owner = [i \in Ident |-> Nobody]
    /\ edit = NoEdit
-----------------------------------------------------------------------------
(* What the database takes: a name and an identity are unique, an identity *)
(* refers to a party that is there.                                        *)
CanAddParty(ids) == parties = {} /\ \A i \in ids : owner[i] = Nobody
CanAddIdentity(p, i) == p \in parties /\ owner[i] = Nobody
CanUpdateParty(p, ids) == parties \subseteq {p} /\ \A i \in ids : owner[i] \in {p, Nobody, Orphan}

AddParty(p, ids) ==
    /\ parties' = parties \cup {p}
    /\ born' = born \cup {p}
    /\ owner' = [i \in Ident |-> IF i \in ids THEN p ELSE owner[i]]

AddIdentity(p, i) ==
    /\ owner' = [owner EXCEPT ![i] = p]
    /\ UNCHANGED <<parties, born>>

(* save writes the party with the identities it is given: rows that are    *)
(* gone are inserted again, rows that are not listed lose their party.     *)
UpdateParty(p, ids) ==
    /\ parties' = parties \cup {p}
    /\ owner' = [i \in Ident |-> IF i \in ids THEN p
                                 ELSE IF owner[i] = p THEN Orphan ELSE owner[i]]
    /\ UNCHANGED born
-----------------------------------------------------------------------------
(* The user renames a contact, or removes it. updateParty reads the row    *)
(* and saves the contact with the identities that it read. removeParty     *)
(* answers at once; the deletes go on behind its back, those of the        *)
(* identities unordered among themselves and with that of the party.       *)
BeginEdit(op, p) ==
    /\ edit.op = "none"
    /\ p \in parties
    /\ edit' = [op |-> op, at |-> "find", party |-> p, ids |-> {}]
    /\ UNCHANGED <<parties, born, owner>>

ReadEdited ==
    /\ edit.op # "none" /\ edit.at = "find"
    /\ edit' = IF edit.party \in parties
               THEN [edit EXCEPT !.at = "write", !.ids = IdentitiesOf(edit.party)]
               ELSE NoEdit
    /\ UNCHANGED <<parties, born, owner>>

WriteRenamed ==
    /\ edit.op = "rename" /\ edit.at = "write"
    /\ IF CanUpdateParty(edit.party, edit.ids)
       THEN UpdateParty(edit.party, edit.ids)
       ELSE UNCHANGED <<parties, born, owner>>
    /\ edit' = NoEdit

RemoveIdentity ==
    \E i \in edit.ids :
        /\ edit.op = "remove" /\ edit.at = "write"
        /\ owner' = [owner EXCEPT ![i] = IF @ \in {edit.party, Orphan} THEN Nobody ELSE @]
        /\ edit' = [edit EXCEPT !.ids = @ \ {i}]
        /\ UNCHANGED <<parties, born>>

\* Of the deletes that are left, only those of orphans find a row.
RemoveParty ==
    /\ edit.op = "remove" /\ edit.at = "write"
    /\ parties' = parties \ {edit.party}
    /\ owner' = [i \in Ident |-> IF owner[i] = edit.party \/ (i \in edit.ids /\ owner[i] = Orphan)
                                 THEN Nobody ELSE owner[i]]
    /\ edit' = NoEdit
    /\ UNCHANGED born

BeginAnEdit == \E op \in {"rename", "remove"}, p \in parties : BeginEdit(op, p)
GoOnEditing == ReadEdited \/ WriteRenamed \/ RemoveIdentity \/ RemoveParty

ContactsTypeOK ==
    /\ parties \subseteq born
    /\ born \subseteq Party
    /\ Cardinality(parties) <= 1
    /\ \A i \in Ident : owner[i] \in parties \cup {Nobody, Orphan}
    /\ edit \in [op : {"none", "rename", "remove"}, at : {"find", "write"},
                 party : Party \cup {Nobody}, ids : SUBSET Ident]
=============================================================================
