---------------------------- MODULE MCStatusList ----------------------------
\* Finite instances of StatusList: which callers there are and what they ask.
EXTENDS StatusList, TLC

CONSTANTS i1, i2, i3, u1, u2, c1, c2

TwoIssuances == {i1, i2}
ThreeIssuances == {i1, i2, i3}
OneUpdate == {u1}
TwoUpdates == {u1, u2}
TwoCredentials == {c1, c2}

AnyHint == 0 .. Length - 1 \cup {NoIndex}
ZeroOrNone == {NoIndex, 0}

\* Nothing in the model tells two requests of a kind, or two ids, apart.
Interchangeable ==
    Permutations(Issuance) \cup Permutations(Update) \cup Permutations(Credential)
=============================================================================
