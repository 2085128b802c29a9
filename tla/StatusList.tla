----------------------------- MODULE StatusList -----------------------------
(***************************************************************************)
(* One StatusList2021 of the issuer: the entry table in the database, the  *)
(* published bitstring, and the request handlers that read and write them. *)
(*                                                                         *)
(* An issuance is vc-status-list-issuer handleCredentialStatus, an update  *)
(* is vc-status-list-issuer-rest-api updateW3CStatusEndpoint. A handler is *)
(* an async function: every awaited database call is a step of its own and *)
(* the steps of all the handlers in flight interleave. No call runs in a   *)
(* transaction with another one. A handler's own reads that nothing else   *)
(* can change (the list's id, mode and length) are part of the next step.  *)
(*                                                                         *)
(* The list exists and its credentialIdMode is ISSUANCE, the only mode     *)
(* slCreateStatusList can give it, so an issuance without an id fails.     *)
(***************************************************************************)
EXTENDS Naturals, Sequences, FiniteSets

CONSTANTS Credential,    \* credential ids
          NoCredential,  \* a request, or a table row, without an id
          Issuance,      \* issuing requests, each handled once
          Update,        \* status update requests, each handled once
          Length,        \* positions in the bitstring
          NoIndex,       \* no position
          Hints,         \* positions a caller may ask for, or NoIndex
          Values,        \* statuses a caller may have stored, "none" for no word
          Items,         \* members of an update's credentialStatus array
          MaxItems,      \* bound on the length of that array
          MaxTries,      \* draws before giving up, 10 in the code
          Isolation,     \* which requests may overlap: see MayStart
          Crashes        \* whether the process may die with handlers in flight

Index == 0 .. Length - 1
Request == Issuance \cup Update

ASSUME StatusListAssumption ==
    /\ Length \in Nat \ {0}
    /\ MaxItems \in Nat \ {0}
    /\ MaxTries \in Nat \ {0}
    /\ NoIndex \notin Index
    /\ NoCredential \notin Credential
    /\ Issuance \cap Update = {}
    /\ Hints \subseteq Index \cup {NoIndex}
    /\ Values \subseteq {"none", "0", "1"}
    /\ Items \subseteq {"set", "clear", "malformed"}
    /\ Isolation \in {"serial", "issuances", "none"}
    /\ Crashes \in BOOLEAN

VARIABLES entries,   \* entries[i]: the row of position i
          bits,      \* the published bitstring
          pc,        \* where each handler is
          cred,      \* the credential id of the request
          idx,       \* the position a handler works on, at first the one asked for
          tries,     \* draws an issuance has made
          drawn,     \* whether the position was drawn rather than given
          snap,      \* the bitstring an update read
          todo,      \* the items an update has left
          prior,     \* history: the requests answered before this one began
          stated     \* history: positions whose status an issuance wrote last

vars == <<entries, bits, pc, cred, idx, tries, drawn, snap, todo, prior, stated>>

NoEntry == [cred |-> NoCredential, value |-> "none"]
Entry == [cred : Credential, value : {"none", "0", "1"}]
Clear == [i \in Index |-> FALSE]

Ended == {"done", "failed", "crashed"}
InFlight == {r \in Request : pc[r] \notin Ended \cup {"idle"}}
Used == {i \in Index : entries[i] # NoEntry}
RowsOf(c) == {i \in Index : entries[i] # NoEntry /\ entries[i].cred = c}

ItemLists == UNION {[1 .. n -> Items] : n \in 1 .. MaxItems}

Init ==
    /\ entries = [i \in Index |-> NoEntry]
    /\ bits = Clear
    /\ pc = [r \in Request |-> "idle"]
    /\ cred = [r \in Request |-> NoCredential]
    /\ idx = [r \in Request |-> NoIndex]
    /\ tries = [r \in Issuance |-> 0]
    /\ drawn = [r \in Issuance |-> FALSE]
    /\ snap = [r \in Update |-> Clear]
    /\ todo = [r \in Update |-> <<>>]
    /\ prior = [r \in Request |-> {}]
    /\ stated = {}

-----------------------------------------------------------------------------
(* The server takes requests as they come: "none". The two stricter values *)
(* are environments in which it happens to get one request at a time, or   *)
(* one issuance at a time.                                                 *)
MayStart(r) ==
    /\ Isolation = "serial" => InFlight = {}
    /\ Isolation = "issuances" /\ r \in Issuance => InFlight \cap Issuance = {}

Start(r, c, first) ==
    /\ pc[r] = "idle"
    /\ MayStart(r)
    /\ cred' = [cred EXCEPT ![r] = c]
    /\ pc' = [pc EXCEPT ![r] = first]
    /\ prior' = [prior EXCEPT ![r] = {q \in Request : pc[q] \in Ended}]

\* The credential id is required as soon as the list's mode is known.
StartIssuance(r) ==
    \E c \in Credential \cup {NoCredential}, h \in Hints :
        /\ Start(r, c, IF c = NoCredential THEN "failed" ELSE "find")
        /\ idx' = [idx EXCEPT ![r] = h]
        /\ UNCHANGED <<entries, bits, tries, drawn, snap, todo, stated>>

\* A slip in the next operator: the caller's position comes first.
WantedCallerFirst(r, i) ==
    \/ i = idx[r] /\ i # NoIndex
    \/ idx[r] = NoIndex /\ i \in RowsOf(cred[r])
    \/ idx[r] = NoIndex /\ RowsOf(cred[r]) = {} /\ i = NoIndex

\* The entry already stored for the credential, else the position asked for.
Wanted(r, i) ==
    \/ i \in RowsOf(cred[r])
    \/ RowsOf(cred[r]) = {} /\ i = idx[r]

(* `if (statusListIndex)`: a position from the table is a number, so 0 is  *)
(* taken for "none". One from the caller may be text, and "0" is not.      *)
FindGiven(r) ==
    \E i \in Index :
        /\ pc[r] = "find"
        /\ Wanted(r, i)
        /\ i = 0 => RowsOf(cred[r]) = {}
        /\ idx' = [idx EXCEPT ![r] = i]
        /\ pc' = [pc EXCEPT ![r] = "check"]
        /\ UNCHANGED <<entries, bits, cred, tries, drawn, snap, todo, prior, stated>>

FindNothing(r) ==
    /\ pc[r] = "find"
    /\ \E i \in {NoIndex, 0} : Wanted(r, i)
    /\ idx' = [idx EXCEPT ![r] = NoIndex]
    /\ pc' = [pc EXCEPT ![r] = "draw"]
    /\ UNCHANGED <<entries, bits, cred, tries, drawn, snap, todo, prior, stated>>

\* A slip in the next operator: only a row that carries a status counts.
ReusableUnlessSet(r) ==
    entries[idx[r]].value = "none" \/ entries[idx[r]].cred = cred[r]

\* A position registered for another credential is refused.
Reusable(r) == entries[idx[r]].cred \in {NoCredential, cred[r]}

CheckGiven(r) ==
    /\ pc[r] = "check"
    /\ pc' = [pc EXCEPT ![r] = IF Reusable(r) THEN "upsert" ELSE "failed"]
    /\ UNCHANGED <<entries, bits, cred, idx, tries, drawn, snap, todo, prior, stated>>

\* A slip in the next operator: only rows that carry a status are looked at.
AvailableUnlessSet == {i \in Index : entries[i].value = "none"}

Available == Index \ Used

(* One try: twenty random positions are compared with the table. Either    *)
(* one of them is free, or all of them are used, which can happen as soon  *)
(* as one position is.                                                     *)
DrawFree(r) ==
    \E i \in Available :
        /\ pc[r] = "draw"
        /\ idx' = [idx EXCEPT ![r] = i]
        /\ drawn' = [drawn EXCEPT ![r] = TRUE]
        /\ pc' = [pc EXCEPT ![r] = "upsert"]
        /\ UNCHANGED <<entries, bits, cred, tries, snap, todo, prior, stated>>

\* A slip in the next operator: one try too many.
ExhaustedLate(r) == tries[r] + 1 > MaxTries

Exhausted(r) == tries[r] + 1 >= MaxTries

DrawUsed(r) ==
    /\ pc[r] = "draw"
    /\ Used # {}
    /\ tries' = [tries EXCEPT ![r] = @ + 1]
    /\ pc' = [pc EXCEPT ![r] = IF Exhausted(r) THEN "failed" ELSE "draw"]
    /\ UNCHANGED <<entries, bits, cred, idx, drawn, snap, todo, prior, stated>>

(* The row is written over whatever is there, with the status the caller   *)
(* gives (credentialStatusOpts.value), which nothing here publishes; with  *)
(* none given, the upsert leaves the row's own alone.                      *)
Upsert(r) ==
    \E v \in Values :
        /\ pc[r] = "upsert"
        /\ entries' = [entries EXCEPT ![idx[r]] =
                         [cred |-> cred[r], value |-> IF v = "none" THEN @.value ELSE v]]
        /\ stated' = IF v = "none" THEN stated ELSE stated \cup {idx[r]}
        /\ pc' = [pc EXCEPT ![r] = "answer"]
        /\ UNCHANGED <<bits, cred, idx, tries, drawn, snap, todo, prior>>

\* The row is read again before the credential is given its status.
Answer(r) ==
    /\ pc[r] = "answer"
    /\ pc' = [pc EXCEPT ![r] = "done"]
    /\ UNCHANGED <<entries, bits, cred, idx, tries, drawn, snap, todo, prior, stated>>

-----------------------------------------------------------------------------
StartUpdate(r) ==
    \E c \in Credential, list \in ItemLists :
        /\ Start(r, c, "lookup")
        /\ todo' = [todo EXCEPT ![r] = list]
        /\ UNCHANGED <<entries, bits, idx, tries, drawn, snap, stated>>

Lookup(r) ==
    /\ pc[r] = "lookup"
    /\ \/ \E i \in RowsOf(cred[r]) :
            /\ idx' = [idx EXCEPT ![r] = i]
            /\ pc' = [pc EXCEPT ![r] = "read"]
       \/ /\ RowsOf(cred[r]) = {}
          /\ pc' = [pc EXCEPT ![r] = "failed"]
          /\ UNCHANGED idx
    /\ UNCHANGED <<entries, bits, cred, tries, drawn, snap, todo, prior, stated>>

\* The list credential is read once, before the loop over the items.
ReadList(r) ==
    /\ pc[r] = "read"
    /\ snap' = [snap EXCEPT ![r] = bits]
    /\ pc' = [pc EXCEPT ![r] = "item"]
    /\ UNCHANGED <<entries, bits, cred, idx, tries, drawn, todo, prior, stated>>

(* A malformed item ends the request; the items before it stay applied.    *)
(* Otherwise the row is written, with the id the request was made for.     *)
RefuseItem(r) ==
    /\ pc[r] = "item"
    /\ Head(todo[r]) = "malformed"
    /\ pc' = [pc EXCEPT ![r] = "failed"]
    /\ UNCHANGED <<entries, bits, cred, idx, tries, drawn, snap, todo, prior, stated>>

WriteEntry(r) ==
    /\ pc[r] = "item"
    /\ Head(todo[r]) # "malformed"
    /\ entries' = [entries EXCEPT ![idx[r]] =
                     [cred |-> cred[r],
                      value |-> IF Head(todo[r]) = "set" THEN "1" ELSE "0"]]
    /\ stated' = stated \ {idx[r]}
    /\ pc' = [pc EXCEPT ![r] = "publish"]
    /\ UNCHANGED <<bits, cred, idx, tries, drawn, snap, todo, prior>>

\* Two slips in the next operator: the bit is never cleared; the next bit is.
NewBitsOnlySet(r) == [snap[r] EXCEPT ![idx[r]] = @ \/ Head(todo[r]) = "set"]
NewBitsNextPosition(r) ==
    [snap[r] EXCEPT ![(idx[r] + 1) % Length] = (Head(todo[r]) = "set")]

\* The list is made anew from the one that was read before the loop.
NewBits(r) == [snap[r] EXCEPT ![idx[r]] = (Head(todo[r]) = "set")]

\* The new list credential is signed and replaces the stored one.
Publish(r) ==
    /\ pc[r] = "publish"
    /\ bits' = NewBits(r)
    /\ todo' = [todo EXCEPT ![r] = Tail(@)]
    /\ pc' = [pc EXCEPT ![r] = IF Len(todo[r]) = 1 THEN "done" ELSE "item"]
    /\ UNCHANGED <<entries, cred, idx, tries, drawn, snap, prior, stated>>

-----------------------------------------------------------------------------
\* The process dies: every handler in flight ends where it is, and forgets.
Crash ==
    /\ Crashes
    /\ InFlight # {}
    /\ pc' = [r \in Request |-> IF r \in InFlight THEN "crashed" ELSE pc[r]]
    /\ snap' = [u \in Update |-> Clear]
    /\ todo' = [u \in Update |-> <<>>]
    /\ UNCHANGED <<entries, bits, cred, idx, tries, drawn, prior, stated>>

IssuanceStep(r) ==
    \/ FindGiven(r) \/ FindNothing(r) \/ CheckGiven(r)
    \/ DrawFree(r) \/ DrawUsed(r) \/ Upsert(r) \/ Answer(r)

UpdateStep(r) ==
    \/ Lookup(r) \/ ReadList(r)
    \/ RefuseItem(r) \/ WriteEntry(r) \/ Publish(r)

Next ==
    \/ \E r \in Issuance : StartIssuance(r) \/ IssuanceStep(r)
    \/ \E r \in Update : StartUpdate(r) \/ UpdateStep(r)
    \/ Crash

Spec == Init /\ [][Next]_vars
-----------------------------------------------------------------------------
TypeOK ==
    /\ entries \in [Index -> Entry \cup {NoEntry}]
    /\ bits \in [Index -> BOOLEAN]
    /\ pc \in [Request -> Ended \cup {"idle", "find", "check", "draw", "upsert",
                                     "answer", "lookup", "read", "item", "publish"}]
    /\ cred \in [Request -> Credential \cup {NoCredential}]
    /\ idx \in [Request -> Index \cup {NoIndex}]
    /\ tries \in [Issuance -> 0 .. MaxTries]
    /\ drawn \in [Issuance -> BOOLEAN]
    /\ snap \in [Update -> [Index -> BOOLEAN]]
    /\ todo \in [Update -> Seq(Items)]
    /\ prior \in [Request -> SUBSET Request]
    /\ stated \subseteq Index

(* A position drawn at random was never given out by an issuance that was  *)
(* over before the drawing one began, however the requests overlap and     *)
(* wherever the process died (drivers.ts getRandomNewStatusListIndex).     *)
FreshIndexIsFresh ==
    \A s \in Issuance :
        drawn[s] /\ pc[s] \in {"upsert", "answer", "done"} =>
            \A r \in prior[s] \cap Issuance : pc[r] = "done" => idx[r] # idx[s]

(* A position without a row is clear in the published list, although every *)
(* update publishes a bitstring it read some time ago (api-functions.ts:   *)
(* "The fact we have nothing on it means the status is okay").             *)
UnheldIsClear == \A i \in Index : bits[i] => entries[i] # NoEntry

(* No two credentials were issued with the same position, so that revoking *)
(* one leaves the other alone (functions.ts: the check before the upsert). *)
ExclusiveIndex ==
    \A r, s \in Issuance :
        pc[r] = "done" /\ pc[s] = "done" /\ idx[r] = idx[s] => cred[r] = cred[s]

(* When an update is answered and no other update of the position began    *)
(* since, the list shows what the row says; so a client that retries after *)
(* a crash repairs the list (api-functions.ts updateW3CStatusEndpoint). An *)
(* issuance that has since stored a status of its own there is excepted:   *)
(* it writes the row and leaves the list as it is.                         *)
LastUpdateIsPublished ==
    \A u \in Update :
        /\ pc[u] = "done"
        /\ \A q \in Update \ {u} : idx[q] = idx[u] => q \in prior[u]
        /\ idx[u] \notin stated
        => bits[idx[u]] = (entries[idx[u]].value = "1")

(* Re-issuing a credential gives it the position it already has. The one   *)
(* exception the code makes is position 0 (functions.ts:78): a credential  *)
(* that was issued with two positions has the row of position 0, and the   *)
(* issuance that wrote it may have died before it was answered.            *)
ReissueKeepsIndex ==
    \A r, s \in Issuance :
        /\ pc[r] = "done" /\ pc[s] = "done"
        /\ cred[r] = cred[s] /\ idx[r] # idx[s]
        => entries[0].cred = cred[r]

(* A credential that was revoked is still revoked when it is issued again  *)
(* with the same id, as docs/agent.md promises: s issued it again after u  *)
(* revoked it, and the revocation still stands.                            *)
ReissueKeepsStatus ==
    \A s \in Issuance : \A u \in prior[s] \cap Update :
        /\ pc[s] = "done" /\ pc[u] = "done" /\ cred[s] = cred[u]
        /\ bits[idx[u]]
        => bits[idx[s]]

\* One request at a time, the table and the list implement StatusRegistry.
Registry == INSTANCE StatusRegistry
              WITH holder <- [i \in Index |-> entries[i].cred]

ImplementsRegistry == Registry!Spec
=============================================================================
