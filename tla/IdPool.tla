------------------------------- MODULE IdPool -------------------------------
(***************************************************************************)
(* What IdManager promises its callers, without the intervals: a set of    *)
(* free ids, the set of ids handed out and not given back, and the flag    *)
(* that says an id was asked for when none was free.                       *)
(***************************************************************************)
EXTENDS IdOps

CONSTANTS Lo, Hi        \* the ids are Lo..Hi (seed .. seed + 65536)

VARIABLES free,         \* ids that may be handed out
          held,         \* ids handed out and not yet given back
          overrun       \* AllocateId was called on an empty pool

vars == <<free, held, overrun>>

Init == free = Lo..Hi /\ held = {} /\ overrun = FALSE

\* The least free id is handed out.
Allocate ==
    /\ ~overrun
    /\ \E i \in free :
          /\ IsNextId(free, i)
          /\ free' = free \ {i}
          /\ held' = held \cup {i}
    /\ UNCHANGED overrun

\* An id is given back; it is free again when a larger id is free.
Release ==
    /\ ~overrun
    /\ \E i \in held :
          /\ held' = held \ {i}
          /\ free' = GiveBack(free, i)
    /\ UNCHANGED overrun

\* Asking an empty pool for an id is undefined; nothing is promised after.
Overrun ==
    /\ ~overrun /\ free = {}
    /\ overrun' = TRUE
    /\ UNCHANGED <<free, held>>

Next == Allocate \/ Release \/ Overrun

Spec == Init /\ [][Next]_vars
=============================================================================
