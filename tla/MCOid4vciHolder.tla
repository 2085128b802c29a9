--------------------------- MODULE MCOid4vciHolder ---------------------------
\* Finite instances of Oid4vciHolder: two runs, two configurations.
EXTENDS Oid4vciHolder

CONSTANTS a, b, p, q

TwoRuns == {a, b}
TwoParties == {p, q}
TwoConfigs == 1..2

Plain == [choices |-> {1}, pin |-> FALSE, auth |-> FALSE, issuer |-> "did", named |-> TRUE,
          branded |-> TRUE, notify |-> TRUE]

(* Offers that take every way through the machine: authorization or a PIN, *)
(* the issuer named by its DID; a choice and authorization, the issuer     *)
(* named by the host of the contact; no grant, and another URL.            *)
Offers == {[Plain EXCEPT !.pin = TRUE, !.auth = TRUE],
           [Plain EXCEPT !.choices = {1, 2}, !.auth = TRUE, !.issuer = "host"],
           [Plain EXCEPT !.issuer = "url", !.branded = FALSE, !.named = FALSE, !.notify = FALSE]}
=============================================================================
