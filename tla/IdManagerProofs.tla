--------------------------- MODULE IdManagerProofs ---------------------------
(***************************************************************************)
(* IdManager keeps disjoint intervals, hands no id out twice, and          *)
(* implements IdPool, whatever the seed and the size of the pool.          *)
(***************************************************************************)
EXTENDS IdManager, TLAPS

PairwiseDisjoint(S) == \A s, t \in S : s = t \/ Less(s, t) \/ Less(t, s)

Span(s) == left(s)..right(s)

-----------------------------------------------------------------------------
\* An interval is the pair of its ends, and it is less than another exactly
\* when all of it lies below (id_interval::operator<).
LEMMA IntervalFacts ==
    ASSUME NEW s \in Interval
    PROVE  /\ left(s) \in Ids /\ right(s) \in Ids /\ left(s) <= right(s)
           /\ s = <<left(s), right(s)>>
           /\ left(s) \in Int /\ right(s) \in Int /\ left(s) >= Lo /\ right(s) <= Hi
           /\ \A t \in Interval : Less(s, t) <=> right(s) < left(t)
  BY BoundsAssumption DEF Interval, Ids, left, right, Less

\* A pair of ids in order is an interval with these ends.
LEMMA PairIsInterval ==
    ASSUME NEW a \in Ids, NEW b \in Ids, a <= b
    PROVE  <<a, b>> \in Interval /\ left(<<a, b>>) = a /\ right(<<a, b>>) = b
  BY DEF Interval, left, right

\* The ids an interval spans.
LEMMA SpanFacts ==
    ASSUME NEW s \in Interval
    PROVE  \A i : i \in Span(s) <=> i \in Ids /\ left(s) <= i /\ i <= right(s)
  BY IntervalFacts, BoundsAssumption DEF Span, Ids

\* set::insert keeps the intervals of the set disjoint.
LEMMA InsertDisjoint ==
    ASSUME NEW S \in SUBSET Interval, NEW x \in Interval, PairwiseDisjoint(S)
    PROVE  Insert(S, x) \in SUBSET Interval /\ PairwiseDisjoint(Insert(S, x))
  BY DEF Insert, Same, PairwiseDisjoint

\* Inserting an interval no id of which is covered covers these ids too.
LEMMA CoveredInsert ==
    ASSUME NEW S \in SUBSET Interval, NEW x \in Interval,
           \A i \in Span(x) : i \notin Covered(S)
    PROVE  Covered(Insert(S, x)) = Covered(S) \cup Span(x)
  <1>1. \A s \in S : Less(s, x) \/ Less(x, s)
    <2> SUFFICES ASSUME NEW s \in S, ~Less(s, x), ~Less(x, s) PROVE FALSE
      OBVIOUS
    <2>1. right(s) >= left(x) /\ right(x) >= left(s)
      BY IntervalFacts
    <2>2. CASE left(s) <= left(x)
      <3>1. left(x) \in Span(x) /\ left(x) \in Covered(S)
        BY <2>1, <2>2, IntervalFacts DEF Span, Covered
      <3> QED BY <3>1
    <2>3. CASE left(x) <= left(s)
      <3>1. left(s) \in Span(x) /\ left(s) \in Covered(S)
        BY <2>1, <2>3, IntervalFacts DEF Span, Covered
      <3> QED BY <3>1
    <2> QED BY <2>2, <2>3, IntervalFacts
  <1>2. Insert(S, x) = S \cup {x}
    BY <1>1 DEF Insert, Same
  <1>3. \A i : i \in Span(x) <=> i \in Ids /\ left(x) <= i /\ i <= right(x)
    BY SpanFacts
  <1> QED BY <1>2, <1>3 DEF Covered

\* Erasing an interval uncovers its ids and no other.
LEMMA CoveredErase ==
    ASSUME NEW S \in SUBSET Interval, PairwiseDisjoint(S), NEW s \in S
    PROVE  Covered(S \ {s}) = Covered(S) \ Span(s)
  <1>1. \A t \in S : t # s => right(s) < left(t) \/ right(t) < left(s)
    BY IntervalFacts DEF PairwiseDisjoint
  <1>2. \A i : i \in Span(s) <=> i \in Ids /\ left(s) <= i /\ i <= right(s)
    BY SpanFacts
  <1>3. \A i \in Ids, t \in S : t # s /\ left(t) <= i /\ i <= right(t) => i \notin Span(s)
    BY <1>1, IntervalFacts DEF Span, Ids
  <1> QED BY <1>2, <1>3 DEF Covered

-----------------------------------------------------------------------------
\* The inductive invariant: types, disjoint intervals, no id held and free.
IInv == TypeOK /\ Disjoint /\ NoDoubleAllocation

\* AllocateId takes the least covered id out of the intervals.
LEMMA AllocateStep ==
    ASSUME IInv, NEW first \in free_, IsFirst(free_, first),
           free_' = LET rest == free_ \ {first}
                    IN IF left(first) + 1 <= right(first)
                       THEN Insert(rest, <<left(first) + 1, right(first)>>)
                       ELSE rest
    PROVE  /\ free_' \in SUBSET Interval /\ PairwiseDisjoint(free_')
           /\ Covered(free_') = Covered(free_) \ {left(first)}
           /\ IsNextId(Covered(free_), left(first))
  <1> DEFINE rest == free_ \ {first}
             tail == <<left(first) + 1, right(first)>>
  <1>1. first \in Interval /\ rest \in SUBSET Interval /\ free_ \in SUBSET Interval
    BY DEF IInv, TypeOK
  <1>2. PairwiseDisjoint(free_) /\ PairwiseDisjoint(rest)
    BY DEF IInv, Disjoint, PairwiseDisjoint
  <1>3. Covered(rest) = Covered(free_) \ Span(first)
    BY <1>1, <1>2, CoveredErase
  <1>4. Span(first) \subseteq Covered(free_)
    BY <1>1, SpanFacts DEF Covered
  <1>5. IsNextId(Covered(free_), left(first))
    <2>1. left(first) \in Covered(free_)
      BY <1>1, <1>4, IntervalFacts DEF Span
    <2>2. \A s \in free_ : left(first) <= left(s)
      BY <1>1, IntervalFacts DEF IsFirst
    <2>3. \A j \in Covered(free_) : left(first) <= j
      BY <1>1, <2>2, IntervalFacts DEF Covered, Ids
    <2> QED BY <2>1, <2>3 DEF IsNextId
  <1>6. CASE left(first) + 1 <= right(first)
    <2>1. left(first) + 1 \in Ids /\ right(first) \in Ids
      BY <1>1, <1>6, IntervalFacts, BoundsAssumption DEF Ids
    <2>2. tail \in Interval /\ left(tail) = left(first) + 1 /\ right(tail) = right(first)
      BY <1>6, <2>1, PairIsInterval
    <2>3. Span(tail) = Span(first) \ {left(first)}
      BY <1>1, <2>2, IntervalFacts DEF Span
    <2>4. free_' = Insert(rest, tail)
      BY <1>6
    <2>5. \A i \in Span(tail) : i \notin Covered(rest)
      BY <1>3, <2>3
    <2>6. Covered(free_') = Covered(rest) \cup Span(tail)
      BY <1>1, <2>2, <2>4, <2>5, CoveredInsert
    <2>7. free_' \in SUBSET Interval /\ PairwiseDisjoint(free_')
      BY <1>1, <1>2, <2>2, <2>4, InsertDisjoint
    <2>8. left(first) \in Span(first)
      BY <1>1, IntervalFacts DEF Span
    <2> QED BY <1>3, <1>4, <1>5, <2>3, <2>6, <2>7, <2>8
  <1>7. CASE ~(left(first) + 1 <= right(first))
    <2>1. free_' = rest
      BY <1>7
    <2>2. Span(first) = {left(first)}
      BY <1>1, <1>7, IntervalFacts DEF Span
    <2> QED BY <1>1, <1>2, <1>3, <1>5, <2>1, <2>2
  <1> QED BY <1>6, <1>7
\* MarkAsUsed leaves the set as it is: what it inserts overlaps the interval
\* that holds the id, which nothing erases.
LEMMA MarkStep ==
    ASSUME IInv, NEW id \in Ids, MarkAsUsed(id)
    PROVE  UNCHANGED <<free_, held, overrun>>
  <1>1. PICK it \in free_ :
          /\ Same(it, <<id, id>>)
          /\ LET S == IF left(it) < id
                      THEN Insert(free_, <<left(it), id - 1>>) ELSE free_
             IN free_' = IF id + 1 <= right(it)
                         THEN Insert(S, <<id + 1, right(it)>>) ELSE S
    BY DEF MarkAsUsed
  <1>2. it \in Interval /\ left(it) \in Int /\ right(it) \in Int /\ id \in Int
    BY IntervalFacts DEF IInv, TypeOK, Ids
  <1>3. left(it) <= id /\ id <= right(it)
    <2>1. ~(right(it) < id) /\ ~(id < left(it))
      BY <1>1, <1>2, IntervalFacts DEF Same, Less, left, right
    <2> QED BY <1>2, <2>1
  <1>4. left(it) < id => Insert(free_, <<left(it), id - 1>>) = free_
    BY <1>1, <1>2, <1>3 DEF Insert, Same, Less, left, right
  <1>5. id + 1 <= right(it) => Insert(free_, <<id + 1, right(it)>>) = free_
    BY <1>1, <1>2, <1>3 DEF Insert, Same, Less, left, right
  <1>6. free_' = free_
    BY <1>1, <1>4, <1>5
  <1> QED BY <1>6 DEF MarkAsUsed

\* FreeId of a held id gives it back to the covered ids when a larger id is
\* covered, and otherwise forgets it.
LEMMA FreeStep ==
    ASSUME IInv, NEW id \in held, FreeId(id)
    PROVE  /\ free_' \in SUBSET Interval /\ PairwiseDisjoint(free_')
           /\ Covered(free_') = GiveBack(Covered(free_), id)
  <1> DEFINE point == <<id, id>>
  <1>1. id \in Ids /\ id \notin Covered(free_) /\ id \in Int
    BY DEF IInv, TypeOK, NoDoubleAllocation, Ids
  <1>2. point \in Interval /\ left(point) = id /\ right(point) = id
    BY <1>1, PairIsInterval
  <1>3. free_ \in SUBSET Interval /\ PairwiseDisjoint(free_)
    BY DEF IInv, TypeOK, Disjoint, PairwiseDisjoint
  <1>4. ~InsideFree(id)
    <2> SUFFICES ASSUME NEW s \in free_, left(s) <= id, right(s) > id PROVE FALSE
      BY DEF InsideFree
    <2> QED BY <1>1, <1>3, IntervalFacts DEF Covered
  <1>5. CASE Above(free_, point) = {} /\ free_' = free_
    <2>1. ASSUME NEW j \in Covered(free_), j > id PROVE FALSE
      <3>1. PICK s \in free_ : left(s) <= j /\ j <= right(s)
        BY <2>1 DEF Covered
      <3>2. s \in Interval /\ ~Less(point, s) /\ j \in Int
        BY <1>3, <1>5, <2>1 DEF Above, Covered, Ids
      <3>3. left(s) <= id /\ id <= right(s)
        BY <1>1, <1>2, <2>1, <3>1, <3>2, IntervalFacts
      <3> QED BY <1>1, <3>3 DEF Covered
    <2>2. GiveBack(Covered(free_), id) = Covered(free_)
      BY <2>1 DEF GiveBack
    <2> QED BY <1>3, <1>5, <2>2
  <1>6. CASE \E it \in Above(free_, point) :
               /\ IsFirst(Above(free_, point), it)
               /\ \/ id + 1 # left(it) /\ free_' = Insert(free_, point)
                  \/ id + 1 = left(it) /\ Join(it, id)
    <2>1. PICK it \in Above(free_, point) :
               /\ IsFirst(Above(free_, point), it)
               /\ \/ id + 1 # left(it) /\ free_' = Insert(free_, point)
                  \/ id + 1 = left(it) /\ Join(it, id)
      BY <1>6
    <2>2. it \in free_ /\ it \in Interval /\ id < left(it)
      BY <1>2, <1>3, IntervalFacts DEF Above
    <2>3. GiveBack(Covered(free_), id) = Covered(free_) \cup {id}
      <3>1. left(it) \in Covered(free_)
        BY <2>2, IntervalFacts DEF Covered
      <3>2. left(it) > id
        BY <1>1, <2>2, IntervalFacts
      <3> QED BY <3>1, <3>2 DEF GiveBack
    <2>4. CASE free_' = Insert(free_, point)
      <3>1. Span(point) = {id}
        BY <1>1, <1>2 DEF Span
      <3>2. Covered(free_') = Covered(free_) \cup Span(point)
        BY <1>1, <1>2, <1>3, <2>4, <3>1, CoveredInsert
      <3> QED BY <1>2, <1>3, <2>3, <2>4, <3>1, <3>2, InsertDisjoint
    <2>5. CASE id + 1 = left(it) /\ free_' = Insert(free_ \ {it}, <<id, right(it)>>)
      <3> DEFINE S == free_ \ {it}
                 x == <<id, right(it)>>
      <3>1. S \in SUBSET Interval /\ PairwiseDisjoint(S)
        BY <1>3 DEF PairwiseDisjoint
      <3>2. x \in Interval /\ left(x) = id /\ right(x) = right(it)
        BY <1>1, <2>2, IntervalFacts, PairIsInterval
      <3>3. Covered(S) = Covered(free_) \ Span(it)
        BY <1>3, <2>2, CoveredErase
      <3>4. Span(x) = {id} \cup Span(it) /\ Span(it) \subseteq Covered(free_)
        <4>1. Span(x) = {id} \cup Span(it)
          BY <1>1, <2>2, <2>5, <3>2, IntervalFacts DEF Span
        <4> QED BY <4>1, <2>2, SpanFacts DEF Covered
      <3>5. Covered(Insert(S, x)) = Covered(S) \cup Span(x)
        <4>1. \A i \in Span(x) : i \notin Covered(S)
          BY <1>1, <3>3, <3>4
        <4> QED BY <3>1, <3>2, <4>1, CoveredInsert
      <3>6. Insert(S, x) \in SUBSET Interval /\ PairwiseDisjoint(Insert(S, x))
        BY <3>1, <3>2, InsertDisjoint
      <3> QED BY <2>3, <2>5, <3>3, <3>4, <3>5, <3>6
    <2>6. ASSUME NEW it_2 \in Below(free_, it), id + 1 = left(it), right(it_2) + 1 = id,
                 free_' = Insert(free_ \ {it, it_2}, <<left(it_2), right(it)>>)
          PROVE  /\ free_' \in SUBSET Interval /\ PairwiseDisjoint(free_')
                 /\ Covered(free_') = Covered(free_) \cup {id}
      <3> DEFINE R == free_ \ {it}
                 S == free_ \ {it, it_2}
                 x == <<left(it_2), right(it)>>
      <3>1. it_2 \in Interval /\ it_2 \in R /\ S = R \ {it_2}
        BY <1>3, <2>2, <2>6, IntervalFacts DEF Below
      <3>2. /\ R \in SUBSET Interval /\ PairwiseDisjoint(R)
            /\ S \in SUBSET Interval /\ PairwiseDisjoint(S)
        BY <1>3, <3>1 DEF PairwiseDisjoint
      <3>3. x \in Interval /\ left(x) = left(it_2) /\ right(x) = right(it)
        <4>1. left(it_2) <= right(it) /\ left(it_2) \in Ids /\ right(it) \in Ids
          BY <1>1, <2>2, <2>6, <3>1, IntervalFacts
        <4> QED BY <4>1, PairIsInterval
      <3>4. Covered(S) = (Covered(free_) \ Span(it)) \ Span(it_2)
        <4>1. Covered(R) = Covered(free_) \ Span(it)
          BY <1>3, <2>2, CoveredErase
        <4>2. Covered(R \ {it_2}) = Covered(R) \ Span(it_2)
          BY <3>1, <3>2, CoveredErase
        <4> QED BY <3>1, <4>1, <4>2
      <3>5. Span(x) = Span(it_2) \cup {id} \cup Span(it)
        BY <1>1, <2>2, <2>6, <3>1, <3>3, IntervalFacts DEF Span
      <3>6. Span(it) \subseteq Covered(free_) /\ Span(it_2) \subseteq Covered(free_)
        BY <2>2, <3>1, SpanFacts DEF Covered
      <3>7. Covered(Insert(S, x)) = Covered(S) \cup Span(x)
        <4>1. \A i \in Span(x) : i \notin Covered(S)
          BY <1>1, <3>4, <3>5
        <4> QED BY <3>2, <3>3, <4>1, CoveredInsert
      <3>8. Insert(S, x) \in SUBSET Interval /\ PairwiseDisjoint(Insert(S, x))
        BY <3>2, <3>3, InsertDisjoint
      <3> QED BY <2>6, <3>4, <3>5, <3>6, <3>7, <3>8
    <2>7. CASE id + 1 = left(it) /\ Join(it, id)
      BY <2>3, <2>5, <2>6, <2>7 DEF Join
    <2> QED BY <2>1, <2>4, <2>7
  <1> QED BY <1>4, <1>5, <1>6 DEF FreeId

-----------------------------------------------------------------------------
\* Every step of IdManager keeps the invariant and is, for the set of covered
\* ids, a step of IdPool or no step at all.
LEMMA StepLemma ==
    ASSUME IInv, [Next]_vars
    PROVE  IInv' /\ [Pool!Next]_(Pool!vars)
  <1> USE DEF Pool!vars
  <1>1. ASSUME NEW first \in free_, AllocateId, IsFirst(free_, first),
               free_' = LET rest == free_ \ {first}
                        IN IF left(first) + 1 <= right(first)
                           THEN Insert(rest, <<left(first) + 1, right(first)>>)
                           ELSE rest,
               held' = held \cup {left(first)}
        PROVE  IInv' /\ Pool!Next
    <2>1. /\ free_' \in SUBSET Interval /\ PairwiseDisjoint(free_')
          /\ Covered(free_') = Covered(free_) \ {left(first)}
          /\ IsNextId(Covered(free_), left(first))
      BY <1>1, AllocateStep
    <2>2. left(first) \in Covered(free_) /\ left(first) \in Ids
      BY <2>1 DEF IsNextId, Covered
    <2>3. IInv'
      BY <1>1, <2>1, <2>2 DEF IInv, TypeOK, Disjoint, NoDoubleAllocation,
                              PairwiseDisjoint, AllocateId
    <2>4. Pool!Allocate
      BY <1>1, <2>1, <2>2 DEF Pool!Allocate, AllocateId, Pool!IsNextId, IsNextId
    <2> QED BY <2>3, <2>4 DEF Pool!Next
  <1>2. CASE AllocateId
    BY <1>1, <1>2 DEF AllocateId
  <1>3. CASE AllocateFromEmpty
    <2>1. Covered(free_) = {} /\ Covered(free_') = {}
      BY <1>3 DEF AllocateFromEmpty, Covered
    <2>2. Pool!Overrun
      BY <1>3, <2>1 DEF AllocateFromEmpty, Pool!Overrun
    <2>3. IInv'
      BY <1>3 DEF AllocateFromEmpty, IInv, TypeOK, Disjoint, NoDoubleAllocation
    <2> QED BY <2>2, <2>3 DEF Pool!Next
  <1>4. ASSUME NEW id \in Ids, MarkAsUsed(id)
        PROVE  IInv' /\ UNCHANGED Pool!vars
    <2>1. UNCHANGED <<free_, held, overrun>>
      BY <1>4, MarkStep
    <2> QED BY <2>1 DEF IInv, TypeOK, Disjoint, NoDoubleAllocation
  <1>5. ASSUME NEW id \in held, FreeId(id)
        PROVE  IInv' /\ Pool!Next
    <2>1. /\ free_' \in SUBSET Interval /\ PairwiseDisjoint(free_')
          /\ Covered(free_') = GiveBack(Covered(free_), id)
      BY <1>5, FreeStep
    <2>2. held' = held \ {id} /\ UNCHANGED overrun /\ ~overrun
      BY <1>5 DEF FreeId
    <2>3. Covered(free_') \subseteq Covered(free_) \cup {id}
      BY <2>1 DEF GiveBack
    <2>4. IInv'
      BY <2>1, <2>2, <2>3 DEF IInv, TypeOK, Disjoint, NoDoubleAllocation, PairwiseDisjoint
    <2>5. Pool!Release
      BY <2>1, <2>2 DEF Pool!Release, Pool!GiveBack, GiveBack
    <2> QED BY <2>4, <2>5 DEF Pool!Next
  <1>6. CASE UNCHANGED vars
    BY <1>6 DEF vars, IInv, TypeOK, Disjoint, NoDoubleAllocation
  <1> QED BY <1>2, <1>3, <1>4, <1>5, <1>6 DEF Next

\* The constructor's one interval satisfies the invariant and maps to the full
\* pool.
LEMMA InitLemma ==
    ASSUME Init PROVE IInv /\ Pool!Init
  <1>1. <<Lo, Hi>> \in Interval /\ left(<<Lo, Hi>>) = Lo /\ right(<<Lo, Hi>>) = Hi
    BY BoundsAssumption, PairIsInterval DEF Ids
  <1>2. Covered(free_) = Lo..Hi
    BY <1>1 DEF Init, Covered, Ids
  <1> QED BY <1>1, <1>2 DEF Init, IInv, TypeOK, Disjoint, NoDoubleAllocation, Pool!Init

\* Whatever is allocated and freed, the intervals stay disjoint and no id is
\* at once held by a caller and free to be handed to another.
THEOREM IdManagerSafe == Spec => [](TypeOK /\ Disjoint /\ NoDoubleAllocation)
  <1>1. Init => IInv
    BY InitLemma
  <1>2. IInv /\ [Next]_vars => IInv'
    BY StepLemma
  <1>3. IInv => TypeOK /\ Disjoint /\ NoDoubleAllocation
    BY DEF IInv
  <1> QED BY <1>1, <1>2, <1>3, PTL DEF Spec

\* The free intervals are intervals of ids of the pool.
THEOREM IntervalsTyped == Spec => []TypeOK
  BY IdManagerSafe, PTL

\* No two of them meet, after any sequence of AllocateId, FreeId and MarkAsUsed.
THEOREM IntervalsDisjoint == Spec => []Disjoint
  BY IdManagerSafe, PTL

\* IdManager implements IdPool: allocation returns the least free id, and a
\* freed id is free again exactly when a larger id is free.
THEOREM IdManagerImplementsIdPool == Spec => PoolSpec
  <1>1. Init => IInv /\ Pool!Init
    BY InitLemma
  <1>2. IInv /\ [Next]_vars => IInv' /\ [Pool!Next]_(Pool!vars)
    BY StepLemma
  <1> QED BY <1>1, <1>2, PTL DEF Spec, PoolSpec, Pool!Spec
=============================================================================
