--------------------------- MODULE MCKeyValueStore ---------------------------
\* Finite instances of KeyValueStore.
EXTENDS KeyValueStore, TLC

CONSTANTS c1, c2, v1, v2

TwoClients == {c1, c2}
TwoValues == {v1, v2}

Lifetimes == {0, 1}
EveryOrder == {"inTurn", "atOnce"}

Symmetric == Permutations(TwoClients) \cup Permutations(TwoValues)
==============================================================================
