--------------------------- MODULE MCMachineStart ---------------------------
\* Finite instances of MachineStart: two callers, four instance ids.
EXTENDS MachineStart, TLC

CONSTANTS a, b, m1, m2, m3, m4

TwoCallers == {a, b}
FourInstances == {m1, m2, m3, m4}
\* Both callers may give the same id, that of a row of any kind or of none.
OneIdOrNone == {m1, NoId}

\* Nothing in the model tells two callers, or two ids that none gives, apart.
Interchangeable == Permutations(Caller) \cup Permutations(Instance \ {m1})
=============================================================================
