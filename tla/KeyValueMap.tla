----------------------------- MODULE KeyValueMap -----------------------------
(* What the interface of the key-value store promises for one key          *)
(* (key-value-types.ts:71-126, README.md:96-109): a value is there until it *)
(* is deleted or its lifetime is over, and a reader is told what is there.  *)
EXTENDS Integers

CONSTANTS Client, None

VARIABLES
    now,        \* the clock
    entry,      \* the row the key has, None when there is none (any more)
    heard       \* what each client was told: <<>> while it is told nothing

Over(row, time) == row.expires # 0 /\ time > row.expires

Init ==
    /\ now = 0
    /\ entry = None
    /\ heard = [c \in Client |-> <<>>]

\* A set or a delete.
Write == entry' # entry /\ UNCHANGED <<now, heard>>

Tick ==
    /\ now' = now + 1
    /\ entry' = IF entry # None /\ Over(entry, now') THEN None ELSE entry
    /\ UNCHANGED heard

Tell(c) ==
    /\ heard[c] = <<>> /\ heard' = [heard EXCEPT ![c] = <<entry>>]
    /\ UNCHANGED <<now, entry>>

\* Clients ask anew, or are gone.
Ask(S) ==
    /\ heard' = [c \in Client |-> IF c \in S THEN <<>> ELSE heard[c]]
    /\ UNCHANGED <<now, entry>>

Next ==
    \/ Write
    \/ Tick
    \/ \E c \in Client : Tell(c)
    \/ \E S \in SUBSET Client : Ask(S)
==============================================================================
