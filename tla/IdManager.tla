------------------------------ MODULE IdManager ------------------------------
(***************************************************************************)
(* The unique id allocator (uniqueid.cpp, uniqueid.h): the free ids are a  *)
(* std::set of intervals in which two intervals that overlap count as the  *)
(* same element.  Every method runs under Ext's mutex_unique_id, so each   *)
(* one is a single step.                                                   *)
(***************************************************************************)
EXTENDS IdOps

CONSTANTS Lo, Hi        \* the interval the constructor inserts

ASSUME BoundsAssumption == Lo \in Nat \ {0} /\ Hi \in Nat /\ Lo <= Hi

VARIABLES free_,        \* the std::set of intervals, each <<left, right>>
          held,         \* ids returned by AllocateId and not passed to FreeId
          overrun       \* AllocateId dereferenced begin() of an empty set

vars == <<free_, held, overrun>>

Ids == Lo..Hi
Interval == {s \in Ids \X Ids : s[1] <= s[2]}
left(s)  == s[1]
right(s) == s[2]

-----------------------------------------------------------------------------
\* id_interval::operator<; two intervals neither of which is less than the
\* other are the same element for the set.
Less(s, t) == left(s) < left(t) /\ right(s) < left(t)
Same(s, t) == ~Less(s, t) /\ ~Less(t, s)

\* Mutant: a container that keeps elements that overlap.
InsertAlways(S, x) == S \cup {x}
\* std::set::insert does nothing when an equivalent element is there.
Insert(S, x) == IF \E s \in S : Same(s, x) THEN S ELSE S \cup {x}

\* s is what begin() of the set S points to.
IsFirst(S, s) == s \in S /\ \A t \in S : t = s \/ Less(s, t)

\* s is what end() - 1, stepping back from the end of S, points to.
IsLast(S, s) == s \in S /\ \A t \in S : t = s \/ Less(t, s)

Above(S, x) == {s \in S : Less(x, s)}      \* from upper_bound(x) to end()
Below(S, x) == {s \in S : Less(s, x)}      \* from begin() to before x

\* The ids the intervals of S stand for.
Covered(S) == {i \in Ids : \E s \in S : left(s) <= i /\ i <= right(s)}

-----------------------------------------------------------------------------
Init == /\ free_ = {<<Lo, Hi>>}
        /\ held = {}
        /\ overrun = FALSE

\* Mutant: what is left of the first interval is inserted even when empty.
AllocateIdUnchecked ==
    /\ ~overrun
    /\ \E first \in free_ :
          /\ IsFirst(free_, first)
          /\ free_' = Insert(free_ \ {first}, <<left(first) + 1, right(first)>>)
          /\ held' = held \cup {left(first)}
    /\ UNCHANGED overrun
\* The left end of the first interval is handed out.
AllocateId ==
    /\ ~overrun
    /\ \E first \in free_ :
          /\ IsFirst(free_, first)
          /\ free_' = LET rest == free_ \ {first}
                      IN IF left(first) + 1 <= right(first)
                         THEN Insert(rest, <<left(first) + 1, right(first)>>)
                         ELSE rest
          /\ held' = held \cup {left(first)}
    /\ UNCHANGED overrun

\* begin() of an empty set is end(): dereferencing and erasing it is
\* undefined, and the model says nothing of what follows.
AllocateFromEmpty ==
    /\ ~overrun /\ free_ = {}
    /\ overrun' = TRUE
    /\ UNCHANGED <<free_, held>>

\* MarkAsUsed finds the interval around id and inserts what is left of it and
\* right of it; the line that would erase the interval is commented out.  Ext
\* never calls it.
MarkAsUsed(id) ==
    /\ ~overrun
    /\ \E it \in free_ :
          /\ Same(it, <<id, id>>)
          /\ LET S == IF left(it) < id
                      THEN Insert(free_, <<left(it), id - 1>>) ELSE free_
             IN free_' = IF id + 1 <= right(it)
                         THEN Insert(S, <<id + 1, right(it)>>) ELSE S
    /\ UNCHANGED <<held, overrun>>

\* The early return of FreeId: id is inside an interval, not at its right end.
InsideFree(id) == \E s \in free_ : left(s) <= id /\ right(s) > id

\* Mutant: the interval before is joined whether or not it ends below id.
JoinAlways(it, id) ==
    LET before == Below(free_, it)
    IN \/ /\ before = {}
          /\ free_' = Insert(free_ \ {it}, <<id, right(it)>>)
       \/ \E it_2 \in before :
             /\ IsLast(before, it_2)
             /\ free_' = Insert(free_ \ {it, it_2}, <<left(it_2), right(it)>>)
\* Mutant: the interval is reinserted without id when nothing lies before it.
JoinForgets(it, id) ==
    LET before == Below(free_, it)
    IN \/ /\ before = {}
          /\ free_' = Insert(free_ \ {it}, <<left(it), right(it)>>)
       \/ \E it_2 \in before :
             /\ IsLast(before, it_2)
             /\ free_' = IF right(it_2) + 1 = id
                         THEN Insert(free_ \ {it, it_2}, <<left(it_2), right(it)>>)
                         ELSE Insert(free_ \ {it}, <<id, right(it)>>)
\* FreeId joins id to the interval it, and to the one before it when that one
\* ends right below id.
Join(it, id) ==
    LET before == Below(free_, it)
    IN \/ /\ before = {}
          /\ free_' = Insert(free_ \ {it}, <<id, right(it)>>)
       \/ \E it_2 \in before :
             /\ IsLast(before, it_2)
             /\ free_' = IF right(it_2) + 1 = id
                         THEN Insert(free_ \ {it, it_2}, <<left(it_2), right(it)>>)
                         ELSE Insert(free_ \ {it}, <<id, right(it)>>)

FreeId(id) ==
    /\ ~overrun
    /\ \/ /\ \/ InsideFree(id)
             \/ Above(free_, <<id, id>>) = {}
          /\ UNCHANGED free_
       \/ /\ ~InsideFree(id)
          /\ \E it \in Above(free_, <<id, id>>) :
                /\ IsFirst(Above(free_, <<id, id>>), it)
                /\ \/ id + 1 # left(it) /\ free_' = Insert(free_, <<id, id>>)
                   \/ id + 1 = left(it) /\ Join(it, id)
    /\ held' = held \ {id}
    /\ UNCHANGED overrun

Next == \/ AllocateId
        \/ AllocateFromEmpty
        \/ \E id \in Ids : MarkAsUsed(id)
        \/ \E id \in held : FreeId(id)

Spec == Init /\ [][Next]_vars

-----------------------------------------------------------------------------
\* The set holds intervals of ids, and what is held are ids.
TypeOK == /\ free_ \subseteq Interval
          /\ held \subseteq Ids
          /\ overrun \in BOOLEAN

\* No two intervals of the set overlap, so the order of the set is total on
\* it and find / upper_bound / -- land where FreeId expects (uniqueid.cpp).
Disjoint == \A s, t \in free_ : s = t \/ Less(s, t) \/ Less(t, s)

\* An id that was handed out and not given back is in no free interval: the
\* next AllocateId calls cannot hand it to a second caller.
NoDoubleAllocation == held \cap Covered(free_) = {}

\* AllocateId, FreeId and MarkAsUsed do to the ids what IdPool says: the
\* intervals are only a representation of a set of free ids.
Pool == INSTANCE IdPool WITH free <- Covered(free_)
PoolSpec == Pool!Spec
=============================================================================
