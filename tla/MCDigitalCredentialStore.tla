---------------------- MODULE MCDigitalCredentialStore ----------------------
\* A finite instance of DigitalCredentialStore: three calls, two documents.
EXTENDS DigitalCredentialStore

CONSTANTS d1, d2, c1, c2, c3

TwoDocs == {d1, d2}
ThreeCalls == {c1, c2, c3}

\* One is added as it comes, the other as revoked.
Unchecked == [state |-> None, verifiedAt |-> None, revokedAt |-> None]
RevokedBy == [state |-> "REVOKED", verifiedAt |-> None, revokedAt |-> Given]
OneRevoked == [d \in TwoDocs |-> {IF d = d1 THEN Unchecked ELSE RevokedBy}]

\* Nothing in the model tells two calls apart.
Interchangeable == Permutations(Call)
=============================================================================
