----------------------- MODULE CredentialPresentation -----------------------
(***************************************************************************)
(* What an OID4VP exchange promises: a request that was made is answered   *)
(* after the user consented to it, the verdict comes after the answer, and *)
(* a request the verifier no longer knows stays unknown.                   *)
(***************************************************************************)
CONSTANT Request

VARIABLES status, consented

vars == <<status, consented>>

Init ==
    /\ status = [r \in Request |-> "none"]
    /\ consented = {}

Become(r, from, to) ==
    /\ status[r] \in from
    /\ status' = [status EXCEPT ![r] = to]
    /\ UNCHANGED consented

\* A verifier that starts over for a request forgets the others.
Make(r, lost) ==
    /\ status[r] = "none"
    /\ \A q \in lost : status[q] # "none"
    /\ status' = [q \in Request |-> IF q = r THEN "made" ELSE IF q \in lost THEN "gone" ELSE status[q]]
    /\ UNCHANGED consented

Consent(r) ==
    /\ status[r] # "none"
    /\ consented' = consented \cup {r}
    /\ UNCHANGED status

Answer(r) == r \in consented /\ Become(r, {"made", "verified", "error"}, "received")

Judge(r) == Become(r, {"received", "verified", "error"}, "verified")
            \/ Become(r, {"received", "verified", "error"}, "error")

Forget(lost) ==
    /\ lost # {} /\ \A r \in lost : status[r] # "none"
    /\ status' = [r \in Request |-> IF r \in lost THEN "gone" ELSE status[r]]
    /\ UNCHANGED consented

Next ==
    \/ \E r \in Request : Consent(r) \/ Answer(r) \/ Judge(r)
    \/ \E lost \in SUBSET Request : Forget(lost) \/ \E r \in Request : Make(r, lost)

Spec == Init /\ [][Next]_vars
=============================================================================
