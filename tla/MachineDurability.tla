------------------------- MODULE MachineDurability --------------------------
(***************************************************************************)
(* What saving a state machine on every transition is for: the saved state *)
(* is one the machine was in, it follows the machine forward and never     *)
(* back, and a machine that went down comes back up in the saved state.    *)
(* States are numbered by the transitions that led to them.                *)
(***************************************************************************)
EXTENDS Naturals

VARIABLES mem,    \* the state the machine is in, 0 before its first one
          disk,   \* the state that is saved, 0 when none is
          over    \* the machine has reached a final state

vars == <<mem, disk, over>>

Init == mem = 0 /\ disk = 0 /\ over = FALSE

Advance ==
    /\ ~over
    /\ mem' = mem + 1
    /\ over' \in BOOLEAN
    /\ UNCHANGED disk

\* Saving lags behind, and may skip states, but does not go back.
Save ==
    /\ disk' \in disk + 1 .. mem
    /\ UNCHANGED <<mem, over>>

\* What was not saved is lost: a machine may even be over again, or not yet.
Restart ==
    /\ disk > 0
    /\ mem' = disk
    /\ over' = FALSE
    /\ UNCHANGED disk

\* The saved state of a machine that is over may be removed at any time.
Remove ==
    /\ over
    /\ disk' = 0
    /\ UNCHANGED <<mem, over>>

Next == Advance \/ Save \/ Restart \/ Remove

Spec == Init /\ [][Next]_vars
=============================================================================
