------------------------- MODULE CredentialIssuance -------------------------
(***************************************************************************)
(* What the OID4VCI holder promises its user: a credential is asked for    *)
(* after the issuer's grant was obtained, and kept after the user accepted *)
(* what was obtained, once. A run of the holder goes forward or ends; one  *)
(* that is resumed works on what another run of the flow had in hand.      *)
(***************************************************************************)
CONSTANTS Run, Credential

VARIABLES phase, hand, kept

vars == <<phase, hand, kept>>

Init ==
    /\ phase = [r \in Run |-> "idle"]
    /\ hand = [r \in Run |-> {}]
    /\ kept = {}

Become(r, from, to) == phase[r] \in from /\ phase' = [phase EXCEPT ![r] = to]

Begin(r) == Become(r, {"idle"}, "asking") /\ UNCHANGED <<hand, kept>>

Resume(r) ==
    \E p \in {"asking", "requesting", "offered", "over"}, h \in {hand[q] : q \in Run} :
        /\ Become(r, {"idle"}, p)
        /\ p = "offered" => h # {}
        /\ hand' = [hand EXCEPT ![r] = h]
        /\ UNCHANGED kept

Grant(r) == Become(r, {"asking"}, "requesting") /\ UNCHANGED <<hand, kept>>

\* What a run obtains is its own: nobody had it in hand before.
Obtain(r) ==
    \E h \in (SUBSET Credential) \ {{}} :
        /\ Become(r, {"requesting"}, "offered")
        /\ \A q \in Run \ {r} : h \cap hand[q] = {}
        /\ h \cap kept = {}
        /\ hand' = [hand EXCEPT ![r] = h]
        /\ UNCHANGED kept

Accept(r) == Become(r, {"offered"}, "accepted") /\ UNCHANGED <<hand, kept>>

Keep(r) ==
    \E c \in Credential \ kept :
        /\ Become(r, {"accepted"}, "over")
        /\ c \in hand[r]
        /\ kept' = kept \cup {c}
        /\ UNCHANGED hand

End(ended) ==
    /\ phase' = [r \in Run |-> IF r \in ended THEN "over" ELSE phase[r]]
    /\ UNCHANGED <<hand, kept>>

Remove == \E c \in kept : kept' = kept \ {c} /\ UNCHANGED <<phase, hand>>

Next ==
    \/ \E ended \in SUBSET Run : End(ended)
    \/ \E r \in Run : Begin(r) \/ Grant(r) \/ Accept(r) \/ Keep(r) \/ Obtain(r) \/ Resume(r)
    \/ Remove

Spec == Init /\ [][Next]_vars
=============================================================================
