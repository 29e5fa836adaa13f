------------------------------- MODULE IdOps -------------------------------
(***************************************************************************)
(* What IdManager (uniqueid.cpp) does to the set of free ids, as operators *)
(* on that set.  IdPool makes a state machine of them, IdManager is shown  *)
(* to implement it, and the call models use them for getUniqueID and       *)
(* freeUniqueID, each of which runs under mutex_unique_id.                 *)
(***************************************************************************)
EXTENDS Integers

\* i is what AllocateId returns: the left end of the first free interval.
IsNextId(F, i) == i \in F /\ \A j \in F : i <= j

\* FreeId keeps the id only when upper_bound finds an interval above it.
GiveBack(F, i) == IF \E j \in F : j > i THEN F \cup {i} ELSE F
=============================================================================
