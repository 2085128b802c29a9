--------------------------- MODULE StatusRegistry ---------------------------
(***************************************************************************)
(* What a StatusList2021 promises its users, whatever the database does:   *)
(* a position of the bitstring belongs to at most one credential, for good,*)
(* and a status change touches the one position of the credential it names.*)
(* StatusList.tla is shown to implement this when requests are served one  *)
(* at a time, and shown not to when they overlap.                          *)
(***************************************************************************)
EXTENDS Naturals

CONSTANTS Credential,    \* credential ids
          Length,        \* positions in the bitstring
          NoCredential   \* a position nobody holds

VARIABLES holder,   \* holder[i]: the credential position i was given to
          bits      \* bits[i]: the published status, TRUE is revoked

vars == <<holder, bits>>

Index == 0 .. Length - 1

Init ==
    /\ holder = [i \in Index |-> NoCredential]
    /\ bits = [i \in Index |-> FALSE]

\* A free position is given to a credential; the published list is as it was.
Assign(c, i) ==
    /\ holder[i] = NoCredential
    /\ holder' = [holder EXCEPT ![i] = c]
    /\ UNCHANGED bits

\* The status of a held position is set or cleared.
SetStatus(i, revoked) ==
    /\ holder[i] \in Credential
    /\ bits' = [bits EXCEPT ![i] = revoked]
    /\ UNCHANGED holder

Next ==
    \E i \in Index :
        \/ \E c \in Credential : Assign(c, i)
        \/ \E revoked \in BOOLEAN : SetStatus(i, revoked)

Spec == Init /\ [][Next]_vars
=============================================================================
