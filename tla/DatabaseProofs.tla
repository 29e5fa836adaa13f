--------------------------- MODULE DatabaseProofs ---------------------------
(***************************************************************************)
(* Theorems about SessionPool: for every set of users and sessions, no     *)
(* session is shared or lost, there are no more sessions than users, and   *)
(* the pool implements SessionLease, with the calls of StatementCache too. *)
(* Theorems about StatementCache: the pool keeps its invariants under      *)
(* calls, and a call runs its own statements, whatever was cached, failed  *)
(* or died, as long as no two templates of one database share a name.      *)
(***************************************************************************)
EXTENDS StatementCache, FiniteSetTheorems, SequenceTheorems, TLAPS

\* Lists as _idleSessions: what is in them, and that nothing is there twice.
In(list) == {list[i] : i \in DOMAIN list}
Unique(list) == \A i, j \in DOMAIN list : list[i] = list[j] => i = j

\* A list without repetitions is as long as the set of its members is large.
LEMMA SizeOfList ==
    ASSUME NEW S, NEW list \in Seq(S), Unique(list)
    PROVE  IsFiniteSet(In(list)) /\ Cardinality(In(list)) = Len(list)
<1> DEFINE N == 1..Len(list)
           f == [i \in N |-> list[i]]
<1>1. DOMAIN list = N /\ Len(list) \in Nat
  OBVIOUS
<1>2. f \in Bijection(N, In(list))
  BY <1>1 DEF Bijection, Injection, Surjection, IsInjective, In, Unique
<1>3. ExistsBijection(N, In(list))
  BY <1>2 DEF ExistsBijection
<1>4. IsFiniteSet(N) /\ Cardinality(N) = Len(list)
  BY <1>1, FS_Interval, SMTT(30)
<1> QED
  BY <1>3, <1>4, FS_Bijection

\* Taking the front of a list.
LEMMA TakeFront ==
    ASSUME NEW S, NEW list \in Seq(S), Unique(list), list # <<>>
    PROVE  /\ Tail(list) \in Seq(S) /\ Unique(Tail(list))
           /\ Head(list) \in In(list)
           /\ In(Tail(list)) = In(list) \ {Head(list)}
           /\ Len(Tail(list)) = Len(list) - 1
<1>1. /\ Len(list) \in Nat \ {0} /\ DOMAIN list = 1..Len(list)
      /\ Tail(list) \in Seq(S) /\ Len(Tail(list)) = Len(list) - 1
      /\ DOMAIN Tail(list) = 1..(Len(list) - 1)
      /\ Head(list) = list[1]
      /\ \A i \in 1..(Len(list) - 1) : Tail(list)[i] = list[i + 1]
  OBVIOUS
<1>2. Unique(Tail(list))
  BY <1>1 DEF Unique
<1>3. Head(list) \in In(list)
  BY <1>1 DEF In
<1>4. ASSUME NEW x \in In(Tail(list)) PROVE x \in In(list) \ {Head(list)}
  BY <1>1 DEF In, Unique
<1>5. ASSUME NEW x \in In(list) \ {Head(list)} PROVE x \in In(Tail(list))
  <2>1. PICK i \in 1..Len(list) : x = list[i]
    BY <1>1 DEF In
  <2>2. i # 1 /\ i - 1 \in 1..(Len(list) - 1) /\ (i - 1) + 1 = i
    BY <1>1, <2>1
  <2>3. Tail(list)[i - 1] = x
    BY <1>1, <2>1, <2>2
  <2> QED
    BY <1>1, <2>2, <2>3 DEF In
<1> QED
  BY <1>1, <1>2, <1>3, <1>4, <1>5

\* Putting a new member in front of a list.
LEMMA PutFront ==
    ASSUME NEW S, NEW list \in Seq(S), Unique(list), NEW s \in S \ In(list)
    PROVE  /\ <<s>> \o list \in Seq(S) /\ Unique(<<s>> \o list)
           /\ In(<<s>> \o list) = In(list) \cup {s}
           /\ Len(<<s>> \o list) = Len(list) + 1
<1> DEFINE new == <<s>> \o list
<1>1. /\ Len(list) \in Nat /\ DOMAIN list = 1..Len(list)
      /\ new \in Seq(S) /\ Len(new) = Len(list) + 1
      /\ DOMAIN new = 1..(Len(list) + 1)
      /\ new[1] = s
      /\ \A i \in 2..(Len(list) + 1) : new[i] = list[i - 1]
  OBVIOUS
<1>2. \A i \in 2..(Len(list) + 1) : i - 1 \in 1..Len(list) /\ new[i] \in In(list)
  BY <1>1 DEF In
<1> HIDE DEF new
<1>3. Unique(new)
  <2> SUFFICES ASSUME NEW i \in DOMAIN new, NEW j \in DOMAIN new, new[i] = new[j]
               PROVE  i = j
    BY DEF Unique
  <2>1. CASE i = 1 \/ j = 1
    BY <2>1, <1>1, <1>2
  <2>2. CASE i # 1 /\ j # 1
    <3>1. i \in 2..(Len(list) + 1) /\ j \in 2..(Len(list) + 1)
      BY <2>2, <1>1
    <3>2. list[i - 1] = list[j - 1] /\ i - 1 \in DOMAIN list /\ j - 1 \in DOMAIN list
      BY <3>1, <1>1, <1>2
    <3>3. i - 1 = j - 1
      BY <3>2 DEF Unique
    <3> QED
      BY <3>1, <3>3, <1>1
  <2> QED
    BY <2>1, <2>2
<1>4. ASSUME NEW x \in In(new) PROVE x \in In(list) \cup {s}
  BY <1>1, <1>2 DEF In
<1>5. s \in In(new)
  BY <1>1 DEF In
<1>6. ASSUME NEW x \in In(list) PROVE x \in In(new)
  <2>1. PICK i \in 1..Len(list) : x = list[i]
    BY <1>1 DEF In
  <2>2. i + 1 \in 2..(Len(list) + 1) /\ (i + 1) - 1 = i /\ i + 1 \in DOMAIN new
    BY <1>1, <2>1
  <2>3. new[i + 1] = x
    BY <1>1, <2>1, <2>2
  <2> QED
    BY <2>2, <2>3 DEF In
<1> QED
  BY <1>1, <1>3, <1>4, <1>5, <1>6 DEF new

\* What is left when members of a list are erased.
LEMMA RestFacts ==
    ASSUME NEW S, NEW list \in Seq(S), Unique(list),
           NEW kept, kept \subseteq In(list), NEW rest \in Rests(list, kept)
    PROVE  /\ rest \in Seq(S) /\ Unique(rest)
           /\ In(rest) = kept
           /\ IsFiniteSet(kept) /\ Len(rest) = Cardinality(kept)
<1>1. IsFiniteSet(In(list))
  BY SizeOfList
<1>2. IsFiniteSet(kept) /\ Cardinality(kept) \in Nat
  BY <1>1, FS_Subset, FS_CardinalityType
<1>3. /\ rest \in [1..Cardinality(kept) -> kept]
      /\ kept = {rest[i] : i \in DOMAIN rest}
      /\ \A x, y \in kept : Before(x, y, rest) <=> Before(x, y, list)
  BY DEF Rests, IsRest
<1>4. kept \subseteq S
  BY DEF In
<1>5. rest \in Seq(S) /\ Len(rest) = Cardinality(kept)
  BY <1>2, <1>3, <1>4
<1>6. DOMAIN rest = 1..Cardinality(kept) /\ DOMAIN list = 1..Len(list) /\ Len(list) \in Nat
  BY <1>3
<1>7. \A x : ~Before(x, x, list)
  BY <1>6 DEF Before, Unique
<1>8. Unique(rest)
  <2> SUFFICES ASSUME NEW i \in DOMAIN rest, NEW j \in DOMAIN rest, i < j
               PROVE  rest[i] # rest[j]
    BY <1>2, <1>6 DEF Unique
  <2>1. rest[i] \in kept
    BY <1>3
  <2>2. ~Before(rest[i], rest[i], rest)
    BY <2>1, <1>3, <1>7
  <2> QED
    BY <2>2 DEF Before
<1> QED
  BY <1>2, <1>3, <1>5, <1>8 DEF In

-----------------------------------------------------------------------------
\* Before the database is connected, and when it could not be, the pool is
\* empty: only then is it shut down.
Unused == phase # "open" => idle = <<>> /\ active = {}

PoolInv == PoolTypeOK /\ OnePlace /\ NoLeak /\ Unused /\ NoMoreThanUsers

\* The invariant, in the words of the lemmas above.
LEMMA PoolFacts ==
    ASSUME PoolInv
    PROVE  /\ idle \in Seq(Sessions) /\ Unique(idle) /\ In(idle) = Idle
           /\ IsFiniteSet(Idle) /\ Idle \subseteq Sessions
           /\ Len(idle) \in Nat /\ Cardinality(Idle) = Len(idle)
           /\ IsFiniteSet(active) /\ Cardinality(active) \in Nat
           /\ Cardinality(Users) \in Nat
<1>1. idle \in Seq(Sessions) /\ Unique(idle) /\ In(idle) = Idle /\ active \subseteq Sessions
  BY DEF PoolInv, PoolTypeOK, OnePlace, In, Unique, Idle
<1>2. IsFiniteSet(Idle) /\ Cardinality(Idle) = Len(idle) /\ Len(idle) \in Nat
  BY <1>1, SizeOfList
<1>3. Idle \subseteq Sessions
  BY <1>1 DEF Idle
<1>4. IsFiniteSet(active) /\ Cardinality(active) \in Nat /\ Cardinality(Users) \in Nat
  BY <1>1, PoolAssumption, FS_Subset, FS_CardinalityType
<1> QED
  BY <1>1, <1>2, <1>3, <1>4

\* Erasing members of the idle list: what is left, and by how much it shrinks.
LEMMA EraseIdle ==
    ASSUME PoolInv, NEW gone, gone \subseteq Idle, NEW rest \in Rests(idle, Idle \ gone)
    PROVE  /\ rest \in Seq(Sessions) /\ Unique(rest) /\ In(rest) = Idle \ gone
           /\ Cardinality(gone) \in Nat
           /\ Len(rest) \in Nat /\ Len(rest) = Len(idle) - Cardinality(gone)
<1>1. /\ idle \in Seq(Sessions) /\ Unique(idle) /\ In(idle) = Idle
      /\ IsFiniteSet(Idle) /\ Cardinality(Idle) = Len(idle)
  BY PoolFacts
<1>2. /\ rest \in Seq(Sessions) /\ Unique(rest) /\ In(rest) = Idle \ gone
      /\ Len(rest) = Cardinality(Idle \ gone)
  BY <1>1, RestFacts
<1>3. Idle \cap gone = gone
  OBVIOUS
<1>4. Cardinality(Idle \ gone) = Cardinality(Idle) - Cardinality(gone)
  <2>1. Cardinality(Idle \ gone) = Cardinality(Idle) - Cardinality(Idle \cap gone)
    BY <1>1, FS_Difference, Zenon
  <2> QED
    BY <2>1, <1>3, Zenon
<1>5. Cardinality(gone) \in Nat
  BY <1>1, FS_Subset, FS_CardinalityType
<1> QED
  BY <1>1, <1>2, <1>4, <1>5

\* No more sessions are in use than threads that hold one, so a thread that
\* holds none leaves room for another.
LEMMA RoomForOne ==
    ASSUME PoolInv, NEW u \in Users, held[u] = {}
    PROVE  Cardinality(active) + 1 <= Cardinality(Users)
<1> DEFINE busy == {v \in Users : held[v] # {}}
           f == [v \in busy |-> CHOOSE s : s \in held[v]]
<1>1. active = UNION {held[v] : v \in Users}
  BY DEF PoolInv, NoLeak
<1>2. \A v \in Users : \A s, t \in held[v] : s = t
  BY DEF PoolInv, OnePlace
<1>3. f \in [busy -> active]
  BY <1>1
<1>4. ASSUME NEW s \in active PROVE \E v \in busy : f[v] = s
  <2>1. PICK v \in Users : s \in held[v]
    BY <1>1
  <2>2. v \in busy /\ f[v] \in held[v]
    BY <2>1
  <2> QED
    BY <2>1, <2>2, <1>2
<1>5. f \in Surjection(busy, active)
  BY <1>3, <1>4 DEF Surjection
<1>6. busy \subseteq Users \ {u}
  OBVIOUS
<1>7. /\ IsFiniteSet(Users \ {u})
      /\ Cardinality(Users \ {u}) = Cardinality(Users) - 1
  BY PoolAssumption, FS_RemoveElement
<1>8. IsFiniteSet(busy) /\ Cardinality(busy) <= Cardinality(Users \ {u})
  BY <1>6, <1>7, FS_Subset
<1>9. Cardinality(active) <= Cardinality(busy)
  BY <1>5, <1>8, FS_Surjection
<1>10. Cardinality(busy) \in Nat /\ Cardinality(active) \in Nat /\ Cardinality(Users) \in Nat
  BY <1>8, PoolFacts, FS_CardinalityType
<1> QED
  BY <1>7, <1>8, <1>9, <1>10

LEMMA PoolInit == Init => PoolInv
<1> SUFFICES ASSUME Init PROVE PoolInv
  OBVIOUS
<1> USE DEF Init
<1>1. Idle = {} /\ idle \in Seq(Sessions) /\ Len(idle) = 0
  BY DEF Idle
<1>2. PoolTypeOK
  BY <1>1 DEF PoolTypeOK, InPool
<1>3. OnePlace
  BY <1>1 DEF OnePlace
<1>4. NoLeak
  BY <1>1, FS_EmptySet DEF NoLeak
<1>5. NoMoreThanUsers
  BY PoolAssumption, FS_CardinalityType DEF NoMoreThanUsers
<1> QED
  BY <1>2, <1>3, <1>4, <1>5 DEF PoolInv, Unused

\* A step after which the lists, the count and the users are what they were.
LEMMA SameLists ==
    ASSUME PoolInv,
           UNCHANGED <<idle, active, nSessions, held>>,
           phase' = phase \/ phase # "open",
           phase' \in {"connecting", "open", "failed", "stopping", "closed"},
           janitor' \in {"sleep", "called", "done"},
           lost' \subseteq InPool, old' \subseteq Idle
    PROVE  PoolInv'
<1>1. Idle' = Idle /\ InPool' = InPool
  BY DEF Idle, InPool
<1>2. PoolTypeOK'
  BY <1>1 DEF PoolInv, PoolTypeOK
<1>3. OnePlace'
  BY <1>1 DEF PoolInv, OnePlace
<1>4. NoLeak' /\ NoMoreThanUsers'
  BY DEF PoolInv, NoLeak, NoMoreThanUsers
<1>5. Unused'
  BY DEF PoolInv, Unused
<1> QED
  BY <1>2, <1>3, <1>4, <1>5 DEF PoolInv

-----------------------------------------------------------------------------
LEMMA ConnectOkInv == ASSUME PoolInv, NEW s \in Sessions, ConnectOk(s) PROVE PoolInv'
<1> USE DEF ConnectOk
<1>1. idle = <<>> /\ active = {}
  BY DEF PoolInv, Unused
<1>2. \A u \in Users : held[u] = {}
  BY <1>1 DEF PoolInv, NoLeak
<1>3. /\ idle' \in Seq(Sessions) /\ Len(idle') = 1 /\ DOMAIN idle' = {1}
      /\ idle'[1] = s /\ Idle' = {s} /\ Idle = {}
  BY <1>1 DEF Idle
<1>4. PoolTypeOK'
  BY <1>1, <1>3 DEF PoolInv, PoolTypeOK, InPool
<1>5. OnePlace'
  BY <1>1, <1>2, <1>3 DEF OnePlace
<1>6. NoLeak'
  <2>1. Cardinality({}) = 0
    BY FS_EmptySet
  <2> QED
    BY <1>1, <1>2, <1>3, <2>1 DEF NoLeak
<1>7. NoMoreThanUsers'
  <2>1. Cardinality(Users) \in Nat /\ Cardinality(Users) # 0
    BY PoolAssumption, FS_CardinalityType, FS_EmptySet
  <2> QED
    BY <2>1 DEF NoMoreThanUsers
<1> QED
  BY <1>4, <1>5, <1>6, <1>7 DEF PoolInv, Unused

\* What every use of the pool knows: users, of whom at most one holds a session.
LEMMA HeldFacts ==
    ASSUME PoolInv
    PROVE  /\ held \in [Users -> SUBSET Sessions]
           /\ active = UNION {held[v] : v \in Users}
           /\ active \subseteq Sessions /\ Idle \cap active = {}
           /\ \A v \in Users : \A x, y \in held[v] : x = y
           /\ \A v, w \in Users : v # w => held[v] \cap held[w] = {}
BY DEF PoolInv, PoolTypeOK, OnePlace, NoLeak

\* A user without a session takes s, which no user has.
LEMMA Takes ==
    ASSUME PoolInv, NEW u \in Users, NEW s \in Sessions \ active, held[u] = {},
           active' = active \cup {s}, held' = [held EXCEPT ![u] = {s}]
    PROVE  /\ held' \in [Users -> SUBSET Sessions]
           /\ active' = UNION {held'[v] : v \in Users}
           /\ active' \subseteq Sessions
           /\ \A v \in Users : \A x, y \in held'[v] : x = y
           /\ \A v, w \in Users : v # w => held'[v] \cap held'[w] = {}
           /\ Cardinality(active') = Cardinality(active) + 1
<1>1. /\ held \in [Users -> SUBSET Sessions]
      /\ active = UNION {held[v] : v \in Users}
      /\ active \subseteq Sessions
      /\ \A v \in Users : \A x, y \in held[v] : x = y
      /\ \A v, w \in Users : v # w => held[v] \cap held[w] = {}
  BY HeldFacts
<1>2. /\ held' \in [Users -> SUBSET Sessions]
      /\ held'[u] = {s} /\ \A v \in Users \ {u} : held'[v] = held[v]
  BY <1>1
<1>3. \A v \in Users \ {u} : s \notin held[v]
  BY <1>1
<1>4. Cardinality(active') = Cardinality(active) + 1
  BY PoolFacts, FS_AddElement
<1>5. active' = UNION {held'[v] : v \in Users}
  BY <1>1, <1>2
<1>6. \A v, w \in Users : v # w => held'[v] \cap held'[w] = {}
  <2> SUFFICES ASSUME NEW v \in Users, NEW w \in Users, v # w
               PROVE  held'[v] \cap held'[w] = {}
    OBVIOUS
  <2>1. CASE v = u
    BY <2>1, <1>2, <1>3
  <2>2. CASE w = u
    BY <2>2, <1>2, <1>3
  <2>3. CASE v # u /\ w # u
    BY <2>3, <1>1, <1>2
  <2> QED
    BY <2>1, <2>2, <2>3
<1>7. \A v \in Users : \A x, y \in held'[v] : x = y
  BY <1>1, <1>2
<1> QED
  BY <1>1, <1>2, <1>4, <1>5, <1>6, <1>7

\* The user that holds s gives it up.
LEMMA GivesUp ==
    ASSUME PoolInv, NEW u \in Users, NEW s, held[u] = {s},
           active' = active \ {s}, held' = [held EXCEPT ![u] = {}]
    PROVE  /\ held' \in [Users -> SUBSET Sessions]
           /\ active' = UNION {held'[v] : v \in Users}
           /\ active' \subseteq Sessions
           /\ \A v \in Users : \A x, y \in held'[v] : x = y
           /\ \A v, w \in Users : v # w => held'[v] \cap held'[w] = {}
           /\ Cardinality(active') = Cardinality(active) - 1
           /\ Cardinality(active') \in Nat
           /\ s \in active
<1>1. /\ held \in [Users -> SUBSET Sessions]
      /\ active = UNION {held[v] : v \in Users}
      /\ active \subseteq Sessions
      /\ \A v \in Users : \A x, y \in held[v] : x = y
      /\ \A v, w \in Users : v # w => held[v] \cap held[w] = {}
  BY HeldFacts
<1>2. /\ held' \in [Users -> SUBSET Sessions]
      /\ held'[u] = {} /\ \A v \in Users \ {u} : held'[v] = held[v]
  BY <1>1
<1>3. \A v \in Users \ {u} : s \notin held[v]
  BY <1>1
<1>4. s \in active
  BY <1>1
<1>5. /\ Cardinality(active') = Cardinality(active) - 1
      /\ Cardinality(active') \in Nat
  BY <1>4, PoolFacts, FS_RemoveElement, FS_CardinalityType
<1>6. active' = UNION {held'[v] : v \in Users}
  BY <1>1, <1>2, <1>3
<1> QED
  BY <1>1, <1>2, <1>4, <1>5, <1>6

\* The invariant from its parts, for a step of an open pool.
LEMMA OpenInv ==
    ASSUME PoolInv, phase' = "open", janitor' = janitor,
           idle' \in Seq(Sessions), Unique(idle'),
           held' \in [Users -> SUBSET Sessions],
           active' = UNION {held'[v] : v \in Users},
           active' \subseteq Sessions,
           \A v \in Users : \A x, y \in held'[v] : x = y,
           \A v, w \in Users : v # w => held'[v] \cap held'[w] = {},
           Idle' \cap active' = {},
           lost' \subseteq Idle' \cup active', old' \subseteq Idle',
           nSessions' \in Nat, nSessions' = Len(idle') + Cardinality(active'),
           nSessions' <= Cardinality(Users)
    PROVE  PoolInv'
<1>1. PoolTypeOK'
  BY DEF PoolInv, PoolTypeOK, InPool
<1>2. OnePlace'
  BY DEF OnePlace, Unique
<1> QED
  BY <1>1, <1>2 DEF PoolInv, NoLeak, Unused, NoMoreThanUsers

LEMMA GetIdleInv ==
    ASSUME PoolInv, NEW u \in Users, NEW s \in Sessions, GetIdle(u, s)
    PROVE  PoolInv'
<1>1. PICK rest \in Rests(idle, Idle \ Dead) : s = Head(rest) /\ idle' = Tail(rest)
  BY DEF GetIdle, NotTaken
<1>2. /\ phase = "open" /\ phase' = "open" /\ janitor' = janitor
      /\ held[u] = {} /\ Idle \ Dead # {}
      /\ active' = active \cup {s} /\ held' = [held EXCEPT ![u] = {s}]
      /\ nSessions' = nSessions - Cardinality(Dead)
      /\ lost' = lost \ Dead /\ old' = old \ (Dead \cup {s})
  BY DEF GetIdle
<1>3. Dead \subseteq Idle /\ Idle \cap lost \subseteq Dead
  BY DEF Dead
<1>4. /\ rest \in Seq(Sessions) /\ Unique(rest) /\ In(rest) = Idle \ Dead
      /\ Cardinality(Dead) \in Nat
      /\ Len(rest) \in Nat /\ Len(rest) = Len(idle) - Cardinality(Dead)
  BY <1>3, EraseIdle
<1>5. rest # <<>>
  BY <1>2, <1>4 DEF In
<1>6. /\ idle' \in Seq(Sessions) /\ Unique(idle') /\ s \in Idle \ Dead
      /\ In(idle') = (Idle \ Dead) \ {s} /\ Len(idle') = Len(rest) - 1
  BY <1>1, <1>4, <1>5, TakeFront
<1>7. Idle' = (Idle \ Dead) \ {s}
  BY <1>6 DEF In, Idle
<1>8. Idle \cap active = {} /\ s \in Sessions \ active
  BY <1>6, HeldFacts
<1>9. /\ held' \in [Users -> SUBSET Sessions]
      /\ active' = UNION {held'[v] : v \in Users}
      /\ active' \subseteq Sessions
      /\ \A v \in Users : \A x, y \in held'[v] : x = y
      /\ \A v, w \in Users : v # w => held'[v] \cap held'[w] = {}
      /\ Cardinality(active') = Cardinality(active) + 1
  BY <1>2, <1>8, Takes
<1>10. lost \subseteq Idle \cup active /\ old \subseteq Idle
  BY DEF PoolInv, PoolTypeOK, InPool
<1>11. lost' \subseteq Idle' \cup active' /\ old' \subseteq Idle' /\ Idle' \cap active' = {}
  BY <1>2, <1>3, <1>7, <1>8, <1>10
<1>12. /\ nSessions = Len(idle) + Cardinality(active)
       /\ nSessions <= Cardinality(Users) /\ nSessions \in Nat
       /\ Len(idle) \in Nat /\ Cardinality(active) \in Nat /\ Cardinality(Users) \in Nat
  BY PoolFacts DEF PoolInv, NoLeak, NoMoreThanUsers, PoolTypeOK
<1>13. Len(rest) # 0
  BY <1>4, <1>5
<1>14. /\ nSessions' = Len(idle') + Cardinality(active')
       /\ nSessions' \in Nat /\ nSessions' <= Cardinality(Users)
  BY <1>2, <1>4, <1>6, <1>9, <1>12, <1>13
<1> QED
  BY <1>2, <1>6, <1>9, <1>11, <1>14, OpenInv

LEMMA GetNewInv ==
    ASSUME PoolInv, NEW u \in Users, NEW s \in Sessions, GetNew(u, s)
    PROVE  PoolInv'
<1>1. idle' \in Rests(idle, Idle \ Dead)
  BY DEF GetNew
<1>2. /\ phase = "open" /\ phase' = "open" /\ janitor' = janitor
      /\ held[u] = {} /\ Idle \ Dead = {} /\ s \in Sessions \ (Idle \cup active)
      /\ active' = active \cup {s} /\ held' = [held EXCEPT ![u] = {s}]
      /\ nSessions' = nSessions - Cardinality(Dead) + 1
      /\ lost' = lost \ Dead /\ old' = old \ Dead
  BY DEF GetNew, NeedsNew, InPool
<1>3. Dead \subseteq Idle
  BY DEF Dead
<1>4. /\ idle' \in Seq(Sessions) /\ Unique(idle') /\ In(idle') = Idle \ Dead
      /\ Cardinality(Dead) \in Nat
      /\ Len(idle') \in Nat /\ Len(idle') = Len(idle) - Cardinality(Dead)
  BY <1>1, <1>3, EraseIdle
<1>5. Idle' = {} /\ idle' = <<>> /\ Len(idle') = 0
  <2>1. Idle' = {} /\ {idle'[i] : i \in DOMAIN idle'} = {}
    BY <1>2, <1>4 DEF In, Idle
  <2>2. DOMAIN idle' = 1..Len(idle')
    BY <1>4
  <2>3. Len(idle') = 0
    <3>1. 1 \notin DOMAIN idle'
      BY <2>1
    <3> QED
      BY <3>1, <2>2, <1>4
  <2> QED
    BY <2>1, <2>3, <1>4
<1>6. /\ held' \in [Users -> SUBSET Sessions]
      /\ active' = UNION {held'[v] : v \in Users}
      /\ active' \subseteq Sessions
      /\ \A v \in Users : \A x, y \in held'[v] : x = y
      /\ \A v, w \in Users : v # w => held'[v] \cap held'[w] = {}
      /\ Cardinality(active') = Cardinality(active) + 1
  BY <1>2, Takes
<1>7. lost \subseteq Idle \cup active /\ old \subseteq Idle
  BY DEF PoolInv, PoolTypeOK, InPool
<1>8. lost' \subseteq Idle' \cup active' /\ old' \subseteq Idle' /\ Idle' \cap active' = {}
  BY <1>2, <1>3, <1>5, <1>7
<1>9. /\ nSessions = Len(idle) + Cardinality(active) /\ nSessions \in Nat
      /\ Len(idle) \in Nat /\ Cardinality(active) \in Nat /\ Cardinality(Users) \in Nat
  BY PoolFacts DEF PoolInv, NoLeak, PoolTypeOK
<1>10. Cardinality(active) + 1 <= Cardinality(Users)
  BY <1>2, RoomForOne
<1>11. /\ nSessions' = Len(idle') + Cardinality(active')
       /\ nSessions' \in Nat /\ nSessions' <= Cardinality(Users)
  BY <1>2, <1>4, <1>5, <1>6, <1>9, <1>10
<1> QED
  BY <1>2, <1>4, <1>6, <1>8, <1>11, OpenInv

\* A step that erases idle sessions and moves none: get that fails, the janitor.
LEMMA ErasesOnly ==
    ASSUME PoolInv, NEW gone, gone \subseteq Idle,
           idle' \in Rests(idle, Idle \ gone),
           nSessions' = nSessions - Cardinality(gone),
           lost' = lost \ gone, old' = old \ gone,
           UNCHANGED <<active, phase, held>>,
           janitor' \in {"sleep", "called", "done"}
    PROVE  PoolInv'
<1>1. /\ idle' \in Seq(Sessions) /\ Unique(idle') /\ In(idle') = Idle \ gone
      /\ Cardinality(gone) \in Nat
      /\ Len(idle') \in Nat /\ Len(idle') = Len(idle) - Cardinality(gone)
  BY EraseIdle
<1>2. Idle' = Idle \ gone
  BY <1>1 DEF In, Idle
<1>3. /\ nSessions = Len(idle) + Cardinality(active) /\ nSessions \in Nat
      /\ nSessions <= Cardinality(Users)
      /\ Len(idle) \in Nat /\ Cardinality(active) \in Nat /\ Cardinality(Users) \in Nat
  BY PoolFacts DEF PoolInv, NoLeak, PoolTypeOK, NoMoreThanUsers
<1>4. /\ nSessions' = Len(idle') + Cardinality(active)
      /\ nSessions' \in Nat /\ nSessions' <= Cardinality(Users)
  BY <1>1, <1>3
<1>5. PoolTypeOK'
  BY <1>1, <1>2, <1>4 DEF PoolInv, PoolTypeOK, InPool
<1>6. OnePlace'
  BY <1>1, <1>2 DEF PoolInv, OnePlace, Unique
<1>7. NoLeak' /\ NoMoreThanUsers'
  BY <1>4 DEF PoolInv, NoLeak, NoMoreThanUsers
<1>8. phase # "open" => idle' = <<>>
  <2> SUFFICES ASSUME phase # "open" PROVE idle' = <<>>
    OBVIOUS
  <2>1. idle = <<>> /\ Idle = {}
    BY DEF PoolInv, Unused, Idle
  <2>2. Len(idle') = 0
    BY <2>1, <1>1, <1>3
  <2> QED
    BY <2>2, <1>1
<1>9. Unused'
  BY <1>8 DEF PoolInv, Unused
<1> QED
  BY <1>5, <1>6, <1>7, <1>9 DEF PoolInv

LEMMA GetFailsInv == ASSUME PoolInv, NEW u \in Users, GetFails(u) PROVE PoolInv'
<1>1. Dead \subseteq Idle
  BY DEF Dead
<1>2. janitor' \in {"sleep", "called", "done"}
  BY DEF GetFails, PoolInv, PoolTypeOK
<1> QED
  BY <1>1, <1>2, ErasesOnly DEF GetFails

LEMMA JanitorRunsInv == ASSUME PoolInv, JanitorRuns PROVE PoolInv'
<1>1. Surplus \subseteq Idle
  BY DEF Surplus, Closable
<1> QED
  BY <1>1, ErasesOnly DEF JanitorRuns

LEMMA PutBackLiveInv ==
    ASSUME PoolInv, NEW u \in Users, NEW s \in Sessions, PutBackLive(u, s)
    PROVE  PoolInv'
<1>1. /\ phase' = "open" /\ janitor' = janitor
      /\ held[u] = {s} /\ s \notin lost
      /\ idle' = <<s>> \o idle /\ active' = active \ {s}
      /\ held' = [held EXCEPT ![u] = {}]
      /\ nSessions' = nSessions /\ lost' = lost /\ old' = old
  BY DEF PutBackLive
<1>2. /\ held' \in [Users -> SUBSET Sessions]
      /\ active' = UNION {held'[v] : v \in Users}
      /\ active' \subseteq Sessions
      /\ \A v \in Users : \A x, y \in held'[v] : x = y
      /\ \A v, w \in Users : v # w => held'[v] \cap held'[w] = {}
      /\ Cardinality(active') = Cardinality(active) - 1
      /\ s \in active
  BY <1>1, GivesUp
<1>3. Idle \cap active = {} /\ In(idle) = Idle /\ Unique(idle) /\ idle \in Seq(Sessions)
  BY HeldFacts, PoolFacts
<1>4. /\ idle' \in Seq(Sessions) /\ Unique(idle') /\ In(idle') = Idle \cup {s}
      /\ Len(idle') = Len(idle) + 1
  BY <1>1, <1>2, <1>3, PutFront
<1>5. Idle' = Idle \cup {s}
  BY <1>4 DEF In, Idle
<1>6. lost \subseteq Idle \cup active /\ old \subseteq Idle
  BY DEF PoolInv, PoolTypeOK, InPool
<1>7. lost' \subseteq Idle' \cup active' /\ old' \subseteq Idle' /\ Idle' \cap active' = {}
  BY <1>1, <1>3, <1>5, <1>6
<1>8. /\ nSessions = Len(idle) + Cardinality(active) /\ nSessions \in Nat
      /\ nSessions <= Cardinality(Users)
      /\ Len(idle) \in Nat /\ Cardinality(active) \in Nat
  BY PoolFacts DEF PoolInv, NoLeak, PoolTypeOK, NoMoreThanUsers
<1>9. nSessions' = Len(idle') + Cardinality(active')
  BY <1>1, <1>2, <1>4, <1>8
<1> QED
  BY <1>1, <1>2, <1>4, <1>7, <1>8, <1>9, OpenInv

LEMMA PutBackDeadInv ==
    ASSUME PoolInv, NEW u \in Users, NEW s \in Sessions, PutBackDead(u, s)
    PROVE  PoolInv'
<1>1. /\ phase' = "open" /\ janitor' = janitor
      /\ held[u] = {s}
      /\ idle' = idle /\ active' = active \ {s}
      /\ held' = [held EXCEPT ![u] = {}]
      /\ nSessions' = nSessions - 1 /\ lost' = lost \ {s} /\ old' = old
  BY DEF PutBackDead, CountDropped
<1>2. /\ held' \in [Users -> SUBSET Sessions]
      /\ active' = UNION {held'[v] : v \in Users}
      /\ active' \subseteq Sessions
      /\ \A v \in Users : \A x, y \in held'[v] : x = y
      /\ \A v, w \in Users : v # w => held'[v] \cap held'[w] = {}
      /\ Cardinality(active') = Cardinality(active) - 1
      /\ Cardinality(active') \in Nat
  BY <1>1, GivesUp
<1>3. /\ Idle \cap active = {} /\ Unique(idle) /\ idle \in Seq(Sessions) /\ Idle' = Idle
  BY <1>1, HeldFacts, PoolFacts DEF Idle
<1>4. lost \subseteq Idle \cup active /\ old \subseteq Idle
  BY DEF PoolInv, PoolTypeOK, InPool
<1>5. lost' \subseteq Idle' \cup active' /\ old' \subseteq Idle' /\ Idle' \cap active' = {}
  BY <1>1, <1>3, <1>4
<1>6. /\ nSessions = Len(idle) + Cardinality(active) /\ nSessions \in Nat
      /\ nSessions <= Cardinality(Users)
      /\ Len(idle) \in Nat /\ Cardinality(active) \in Nat /\ Cardinality(Users) \in Nat
  BY PoolFacts DEF PoolInv, NoLeak, PoolTypeOK, NoMoreThanUsers
<1>7. /\ nSessions' = Len(idle') + Cardinality(active')
      /\ nSessions' \in Nat /\ nSessions' <= Cardinality(Users)
  BY <1>1, <1>2, <1>6
<1> QED
  BY <1>1, <1>2, <1>3, <1>5, <1>7, OpenInv

LEMMA ShutdownEndsInv == ASSUME PoolInv, ShutdownEnds PROVE PoolInv'
<1>1. idle = <<>> /\ active = {} /\ Cardinality({}) = 0
  BY FS_EmptySet DEF ShutdownEnds, PoolInv, Unused
<1>2. nSessions = 0
  <2>1. nSessions = Len(idle) + Cardinality(active)
    BY DEF PoolInv, NoLeak
  <2>2. Len(idle) = 0 /\ Cardinality(active) = 0
    BY <1>1
  <2> QED
    BY <2>1, <2>2
<1>3. UNCHANGED <<idle, active, nSessions, held>>
  BY <1>1, <1>2 DEF ShutdownEnds
<1>4. phase # "open" /\ phase' = "closed" /\ lost' = {} /\ old' = {} /\ janitor' = janitor
  BY DEF ShutdownEnds
<1>5. janitor' \in {"sleep", "called", "done"}
  BY <1>4 DEF PoolInv, PoolTypeOK
<1> QED
  BY <1>3, <1>4, <1>5, SameLists

\* Every step keeps the invariant.
LEMMA PoolNext == PoolInv /\ [Next]_poolVars => PoolInv'
<1> SUFFICES ASSUME PoolInv, [Next]_poolVars PROVE PoolInv'
  OBVIOUS
<1>0. /\ lost \subseteq InPool /\ old \subseteq Idle /\ Idle \subseteq InPool
      /\ phase \in {"connecting", "open", "failed", "stopping", "closed"}
      /\ janitor \in {"sleep", "called", "done"}
  BY DEF PoolInv, PoolTypeOK, InPool
<1>1. CASE ConnectFails \/ ShutdownBegins
  BY <1>1, <1>0, SameLists DEF ConnectFails, ShutdownBegins
<1>2. CASE JanitorWakes \/ TimerEnds
  BY <1>2, <1>0, SameLists DEF JanitorWakes, TimerEnds
<1>3. ASSUME NEW s \in Sessions, Drop(s) PROVE PoolInv'
  BY <1>3, <1>0, SameLists DEF Drop
<1>4. ASSUME NEW s \in Sessions, GrowsOld(s) PROVE PoolInv'
  BY <1>4, <1>0, SameLists DEF GrowsOld
<1>5. CASE UNCHANGED poolVars
  BY <1>5, <1>0, SameLists DEF poolVars
<1> QED
  BY <1>1, <1>2, <1>3, <1>4, <1>5, ConnectOkInv, GetIdleInv, GetNewInv, GetFailsInv,
     PutBackLiveInv, PutBackDeadInv, JanitorRunsInv, ShutdownEndsInv DEF Next

-----------------------------------------------------------------------------
\* Types of the pool, for every number of users and sessions.
THEOREM PoolTyped == Spec => []PoolTypeOK
<1>1. PoolInv => PoolTypeOK
  BY DEF PoolInv
<1> QED
  BY PoolInit, PoolNext, <1>1, PTL DEF Spec

\* A session is idle or has one user, whatever get, putBack and the janitor do.
THEOREM SessionsHaveOnePlace == Spec => []OnePlace
<1>1. PoolInv => OnePlace
  BY DEF PoolInv
<1> QED
  BY PoolInit, PoolNext, <1>1, PTL DEF Spec

\* No session leaks, and the counter of the pool counts what is in it.
THEOREM SessionsDoNotLeak == Spec => []NoLeak
<1>1. PoolInv => NoLeak
  BY DEF PoolInv
<1> QED
  BY PoolInit, PoolNext, <1>1, PTL DEF Spec

\* Without a maximum, the number of threads bounds the number of sessions.
THEOREM UsersBoundSessions == Spec => []NoMoreThanUsers
<1>1. PoolInv => NoMoreThanUsers
  BY DEF PoolInv
<1> QED
  BY PoolInit, PoolNext, <1>1, PTL DEF Spec

-----------------------------------------------------------------------------
\* What get does to the lists, whichever session it hands out.
LEMMA GetFacts ==
    ASSUME PoolInv, NEW u \in Users, NEW s \in Sessions, GetIdle(u, s) \/ GetNew(u, s)
    PROVE  /\ held[u] = {} /\ held' = [held EXCEPT ![u] = {s}]
           /\ s \notin active /\ s \notin Dead
           /\ Idle' \subseteq Idle /\ InPool' = (InPool \ Dead) \cup {s}
           /\ s \in Idle \/ s \notin InPool
<1>0. Idle \cap active = {} /\ Dead \subseteq Idle
  BY HeldFacts DEF Dead
<1>1. CASE GetIdle(u, s)
  <2>1. PICK rest \in Rests(idle, Idle \ Dead) : s = Head(rest) /\ idle' = Tail(rest)
    BY <1>1 DEF GetIdle, NotTaken
  <2>2. rest \in Seq(Sessions) /\ Unique(rest) /\ In(rest) = Idle \ Dead
    BY <1>0, EraseIdle
  <2>3. rest # <<>>
    BY <1>1, <2>2 DEF GetIdle, In
  <2>4. s \in Idle \ Dead /\ In(idle') = (Idle \ Dead) \ {s}
    BY <2>1, <2>2, <2>3, TakeFront
  <2>5. Idle' = (Idle \ Dead) \ {s}
    BY <2>4 DEF In, Idle
  <2> QED
    BY <1>0, <1>1, <2>4, <2>5 DEF GetIdle, InPool
<1>2. CASE GetNew(u, s)
  <2>1. idle' \in Rests(idle, Idle \ Dead)
    BY <1>2 DEF GetNew
  <2>2. In(idle') = Idle \ Dead
    BY <1>0, <2>1, EraseIdle
  <2>3. Idle' = Idle \ Dead
    BY <2>2 DEF In, Idle
  <2> QED
    BY <1>0, <1>2, <2>3 DEF GetNew, InPool
<1> QED
  BY <1>1, <1>2


\* A step in which a user gets a session gets a live one.
LEMMA LiveStep ==
    PoolInv /\ [Next]_poolVars =>
        [\A u \in Users : held[u] = {} => held'[u] \cap lost = {}]_poolVars
<1> SUFFICES ASSUME PoolInv, Next, NEW u \in Users, held[u] = {}
             PROVE  held'[u] \cap lost = {}
  OBVIOUS
<1>1. CASE held' = held
  BY <1>1
<1>2. ASSUME NEW v \in Users, NEW s \in Sessions, GetIdle(v, s) \/ GetNew(v, s)
      PROVE  held'[u] \cap lost = {}
  <2>1. /\ held' = [held EXCEPT ![v] = {s}]
        /\ s \notin Dead
        /\ s \in Idle \/ s \notin InPool
    BY <1>2, GetFacts
  <2>2. lost \subseteq InPool
    BY DEF PoolInv, PoolTypeOK
  <2>3. s \notin lost
    BY <2>1, <2>2 DEF Dead
  <2>4. held'[u] = {} \/ held'[u] = {s}
    BY <2>1, HeldFacts
  <2> QED
    BY <2>3, <2>4
<1>3. ASSUME NEW v \in Users, NEW s \in Sessions, PutBackLive(v, s) \/ PutBackDead(v, s)
      PROVE  held'[u] = {}
  BY <1>3, HeldFacts DEF PutBackLive, PutBackDead
<1> QED
  BY <1>1, <1>2, <1>3 DEF Next, ConnectFails, JanitorWakes, JanitorRuns, ShutdownBegins,
     TimerEnds, ShutdownEnds, ConnectOk, Drop, GrowsOld, GetFails

\* For every number of users and sessions, get hands out no session whose
\* connection is known to be dead, whichever of the lists it comes from.
THEOREM SessionsStartLive == Spec => NoDeadSessionHandedOut
BY PoolInit, PoolNext, LiveStep, PTL DEF Spec, NoDeadSessionHandedOut

-----------------------------------------------------------------------------
(* Calls and their statements *)

\* The condition without which the theorem is false (the cache is looked up by name alone).
NamesApart == \A t, v \in Templates : t.name = v.name => t = v

Statements == [sql : {Sql(t, i) : t \in Templates, i \in Nat}, inputs : Seq(Inputs)]
CallRecord == [template : Templates, input : Inputs, from_cache : BOOLEAN,
               ran : Seq(Statements), status : BOOLEAN]

CacheTypes ==
    /\ statements_map \in [Sessions -> [Names -> Seq(Statements)]]
    /\ DOMAIN call = Users
    /\ \A u \in Users : held[u] # {} => call[u] \in CallRecord

\* The entry holds the first k statements of the template.
Holds(entry, t, k) == Len(entry) = k /\ \A i \in 1..k : entry[i].sql = Sql(t, i)

Whole(s, n) ==
    statements_map[s][n] # <<>> =>
        \E t \in Templates : t.name = n /\ Holds(statements_map[s][n], t, t.size)

\* How far the call of u on s has come, and what it has left in the map.
Ran(u) ==
    /\ Len(call[u].ran) <= call[u].template.size
    /\ \A i \in 1..Len(call[u].ran) :
          call[u].ran[i] = [sql |-> Sql(call[u].template, i), inputs |-> <<call[u].input>>]
Left(u, s) ==
    IF ~call[u].status THEN Cached(u, s) = <<>>
    ELSE IF call[u].from_cache THEN Holds(Cached(u, s), call[u].template, call[u].template.size)
    ELSE IF call[u].template.cached THEN Holds(Cached(u, s), call[u].template, Len(call[u].ran))
    ELSE Cached(u, s) = <<>>
Others(u, s) == \A n \in Names : n # call[u].template.name => Whole(s, n)

Progress == \A u \in Users, s \in Sessions :
                held[u] = {s} => Ran(u) /\ Left(u, s) /\ Others(u, s)
IdleWhole == \A s \in Idle, n \in Names : Whole(s, n)

CacheInv == CacheTypes /\ Progress /\ IdleWhole /\ GoneLeaveNothing

-----------------------------------------------------------------------------
\* Calls take every step the pool takes, and no other.
LEMMA CacheStep == [CacheNext]_cacheVars => [Next]_poolVars
<1> SUFFICES ASSUME [CacheNext]_cacheVars PROVE [Next]_poolVars
  OBVIOUS
<1>1. CASE PoolOnly
  BY <1>1 DEF PoolOnly, Next
<1>2. CASE JanitorCloses
  BY <1>2 DEF JanitorCloses, Next
<1>3. ASSUME NEW u \in Users, BeginFails(u) PROVE Next
  BY <1>3 DEF BeginFails, Next
<1>4. ASSUME NEW u \in Users, NEW s \in Sessions, NEW t \in Templates, NEW in \in Inputs,
             Begin(u, s, t, in)
      PROVE  Next
  BY <1>4 DEF Begin, Next
<1>5. ASSUME NEW u \in Users, NEW s \in Sessions, Execute(u, s) \/ ExecuteFails(u, s)
      PROVE  UNCHANGED poolVars
  BY <1>5 DEF Execute, ExecuteFails
<1>6. ASSUME NEW u \in Users, NEW s \in Sessions, Finish(u, s) PROVE Next
  BY <1>6 DEF Finish, Next
<1>7. CASE UNCHANGED cacheVars
  BY <1>7 DEF cacheVars
<1> QED
  BY <1>1, <1>2, <1>3, <1>4, <1>5, <1>6, <1>7 DEF CacheNext

\* Under calls, too, sessions are not shared, not lost, and no more than users.
THEOREM CallsKeepPool == CacheSpec => [](OnePlace /\ NoLeak /\ NoMoreThanUsers)
<1>1. CacheInit => Init
  BY DEF CacheInit
<1>2. PoolInv => OnePlace /\ NoLeak /\ NoMoreThanUsers
  BY DEF PoolInv
<1> QED
  BY <1>1, <1>2, CacheStep, PoolInit, PoolNext, PTL DEF CacheSpec

\* A call, too, never gets a session known to be dead.
THEOREM CallsGetLiveSessions == CacheSpec => NoDeadSessionHandedOut
<1>1. CacheInit => Init
  BY DEF CacheInit
<1> QED
  BY <1>1, CacheStep, PoolInit, PoolNext, LiveStep, PTL DEF CacheSpec, NoDeadSessionHandedOut

-----------------------------------------------------------------------------
(* SessionPool implements SessionLease.                                    *)

\* The sessions the janitor closes are not more than the surplus: each has
\* its own number of sessions before it that could be closed.
LEMMA SurplusSize ==
    ASSUME PoolInv, Surplus # {}
    PROVE  /\ nSessions - MinSessions \in Nat
           /\ IsFiniteSet(Surplus) /\ Cardinality(Surplus) <= nSessions - MinSessions
<1> DEFINE k == nSessions - MinSessions
           Ahead(s) == {c \in Closable : Before(c, s, idle)}
           rank == [s \in Surplus |-> Cardinality(Ahead(s))]
<1>1. /\ idle \in Seq(Sessions) /\ Unique(idle) /\ IsFiniteSet(Idle)
      /\ Closable \subseteq Idle /\ Surplus \subseteq Closable
  BY PoolFacts DEF Closable, Surplus
<1>2. \A s \in Idle : IsFiniteSet(Ahead(s)) /\ Cardinality(Ahead(s)) \in Nat
  BY <1>1, FS_Subset, FS_CardinalityType
<1>3. \A s \in Surplus : Cardinality(Ahead(s)) < k
  BY DEF Surplus
<1>4. k \in Int /\ k > 0
  <2>1. nSessions \in Nat /\ MinSessions \in Nat
    BY PoolAssumption DEF PoolInv, PoolTypeOK
  <2>2. PICK s \in Surplus : TRUE
    OBVIOUS
  <2>3. Cardinality(Ahead(s)) \in Nat /\ Cardinality(Ahead(s)) < k
    BY <1>1, <1>2, <1>3, <2>2
  <2> HIDE DEF Ahead
  <2> QED
    BY <2>1, <2>3
<1>5. ASSUME NEW s \in Surplus, NEW t \in Surplus, Before(s, t, idle)
      PROVE  Cardinality(Ahead(s)) < Cardinality(Ahead(t))
  <2>1. PICK i \in DOMAIN idle, j \in DOMAIN idle : i < j /\ idle[i] = s /\ idle[j] = t
    BY <1>5 DEF Before
  <2>2. DOMAIN idle \subseteq Nat
    BY <1>1
  <2>3. \A a, b \in DOMAIN idle : idle[a] = idle[b] => a = b
    BY <1>1 DEF Unique
  <2>4. s \in Ahead(t)
    BY <1>1, <1>5
  <2>5. ASSUME NEW c \in Ahead(s) PROVE c \in Ahead(t) \ {s}
    <3>1. PICK a \in DOMAIN idle, b \in DOMAIN idle : a < b /\ idle[a] = c /\ idle[b] = s
      BY <2>5 DEF Before
    <3>2. b = i /\ a < j /\ a # i
      BY <2>1, <2>2, <2>3, <3>1
    <3>3. Before(c, t, idle)
      BY <2>1, <3>1, <3>2 DEF Before
    <3>4. c # s
      BY <2>1, <2>3, <3>1, <3>2
    <3> QED
      BY <2>5, <3>3, <3>4
  <2>6. /\ IsFiniteSet(Ahead(t)) /\ Cardinality(Ahead(t)) \in Nat
        /\ Cardinality(Ahead(s)) \in Nat
    BY <1>1, <1>2
  <2> HIDE DEF Ahead
  <2>7. /\ IsFiniteSet(Ahead(t) \ {s})
        /\ Cardinality(Ahead(t) \ {s}) = Cardinality(Ahead(t)) - 1
    BY <2>4, <2>6, FS_RemoveElement
  <2>8. Ahead(s) \subseteq Ahead(t) \ {s}
    BY <2>5
  <2>9. Cardinality(Ahead(s)) <= Cardinality(Ahead(t) \ {s})
    BY <2>7, <2>8, FS_Subset
  <2> QED
    BY <2>6, <2>7, <2>9
<1>6. ASSUME NEW s \in Surplus, NEW t \in Surplus, s # t
      PROVE  rank[s] # rank[t]
  <2>1. Before(s, t, idle) \/ Before(t, s, idle)
    <3>1. PICK i \in DOMAIN idle, j \in DOMAIN idle : idle[i] = s /\ idle[j] = t
      BY <1>1 DEF Idle
    <3>2. i < j \/ j < i
      BY <1>1, <1>6, <3>1
    <3> QED
      BY <3>1, <3>2 DEF Before
  <2>2. rank[s] < rank[t] \/ rank[t] < rank[s]
    BY <1>5, <2>1
  <2>3. rank[s] \in Nat /\ rank[t] \in Nat
    BY <1>1, <1>2
  <2> HIDE DEF rank
  <2> QED
    BY <2>2, <2>3
<1>7. rank \in [Surplus -> 0..k - 1]
  <2>1. ASSUME NEW s \in Surplus PROVE Cardinality(Ahead(s)) \in 0..k - 1
    <3>1. Cardinality(Ahead(s)) \in Nat /\ Cardinality(Ahead(s)) < k
      BY <1>1, <1>2, <1>3
    <3> HIDE DEF Ahead, k
    <3> QED
      BY <1>4, <3>1
  <2> QED
    BY <2>1
<1>8. rank \in Injection(Surplus, 0..k - 1)
  <2> HIDE DEF rank
  <2> QED
    BY <1>6, <1>7 DEF Injection, IsInjective
<1>9. IsFiniteSet(0..k - 1) /\ Cardinality(0..k - 1) = k
  <2> HIDE DEF k
  <2>1. k - 1 \in Int /\ 0 <= k - 1 /\ (k - 1) - 0 + 1 = k /\ ~(0 > k - 1)
    BY <1>4
  <2> QED
    BY <2>1, FS_Interval
<1>10. IsFiniteSet(Surplus) /\ Cardinality(Surplus) <= Cardinality(0..k - 1)
  <2> HIDE DEF rank, k
  <2> QED
    BY <1>8, <1>9, FS_Injection
<1> HIDE DEF Ahead, rank
<1> QED
  BY <1>4, <1>9, <1>10

LEMMA LeaseInit == Init => Lease!Init
  BY DEF Init, Lease!Init, Idle

\* What a list of idle sessions that was erased from holds.
LEMMA IdleAfter ==
    ASSUME PoolInv, NEW gone, gone \subseteq Idle, NEW rest \in Rests(idle, Idle \ gone), idle' = rest
    PROVE  Idle' = Idle \ gone
<1>1. In(rest) = Idle \ gone
  BY EraseIdle
<1> QED
  BY <1>1 DEF In, Idle

LEMMA GetIdleLease ==
    ASSUME PoolInv, NEW u \in Users, NEW s \in Sessions, GetIdle(u, s)
    PROVE  Lease!Take(u)
<1>1. Dead \subseteq Idle /\ Idle \ Dead = Idle \ lost /\ lost \ Dead = lost \ Idle
  BY DEF Dead
<1>2. PICK rest \in Rests(idle, Idle \ Dead) : s = Head(rest) /\ idle' = Tail(rest)
  BY DEF GetIdle, NotTaken
<1>3. rest \in Seq(Sessions) /\ Unique(rest) /\ In(rest) = Idle \ Dead
  BY <1>1, EraseIdle
<1>4. rest # <<>>
  <2>1. Idle \ Dead # {}
    BY DEF GetIdle
  <2> QED
    BY <1>3, <2>1 DEF In
<1>5. s \in Idle \ Dead /\ In(Tail(rest)) = (Idle \ Dead) \ {s}
  BY <1>2, <1>3, <1>4, TakeFront
<1>6. Idle' = (Idle \ lost) \ {s}
  <2>1. Idle' = In(Tail(rest))
    BY <1>2 DEF In, Idle
  <2> QED
    BY <1>1, <1>5, <2>1
<1>7. Idle \ lost # {} /\ s \in Idle \ lost
  BY <1>1, <1>5
<1> QED
  BY <1>1, <1>6, <1>7 DEF GetIdle, Lease!Take, Lease!Asks, Lease!Live

LEMMA GetNewLease ==
    ASSUME PoolInv, NEW u \in Users, NEW s \in Sessions, GetNew(u, s)
    PROVE  Lease!Take(u)
<1>1. Dead \subseteq Idle /\ Idle \ Dead = Idle \ lost /\ lost \ Dead = lost \ Idle
  BY DEF Dead
<1>2. PICK rest \in Rests(idle, Idle \ Dead) : idle' = rest
  BY DEF GetNew
<1>3. Idle' = Idle \ Dead /\ Idle \ Dead = {}
  BY <1>1, <1>2, IdleAfter DEF GetNew, NeedsNew
<1>4. s \in Sessions \ (Idle \cup UNION {held[v] : v \in Users})
  BY HeldFacts DEF GetNew, InPool
<1>5. Idle' = (Idle \ lost) \ {s} /\ Idle \ lost = {}
  BY <1>1, <1>3
<1> QED
  BY <1>1, <1>4, <1>5 DEF GetNew, Lease!Take, Lease!Asks, Lease!Live, Lease!InUse

LEMMA GetFailsLease ==
    ASSUME PoolInv, NEW u \in Users, GetFails(u)
    PROVE  Lease!Refuse(u)
<1>1. Dead \subseteq Idle /\ Idle \ Dead = Idle \ lost /\ lost \ Dead = lost \ Idle
  BY DEF Dead
<1>2. Idle' = Idle \ Dead /\ Idle \ Dead = {}
  BY <1>1, IdleAfter DEF GetFails, NeedsNew
<1> QED
  BY <1>1, <1>2 DEF GetFails, Lease!Refuse, Lease!Asks, Lease!Live

LEMMA PutBackLease ==
    ASSUME PoolInv, NEW u \in Users, NEW s \in Sessions, PutBackLive(u, s) \/ PutBackDead(u, s)
    PROVE  Lease!Return(u)
<1>1. CASE PutBackLive(u, s)
  <2>1. s \in active /\ Idle \cap active = {} /\ s \in Sessions
    BY <1>1, HeldFacts DEF PutBackLive
  <2>2. In(<<s>> \o idle) = In(idle) \cup {s} /\ In(idle) = Idle
    <3>1. idle \in Seq(Sessions) /\ Unique(idle) /\ In(idle) = Idle
      BY PoolFacts
    <3>2. s \in Sessions \ In(idle)
      BY <2>1, <3>1
    <3> QED
      BY <3>1, <3>2, PutFront
  <2>3. Idle' = Idle \cup {s}
    BY <1>1, <2>2 DEF PutBackLive, In, Idle
  <2>4. held[u] \ lost = {s} /\ lost \ held[u] = lost
    BY <1>1 DEF PutBackLive
  <2> QED
    BY <1>1, <2>3, <2>4 DEF PutBackLive, Lease!Return
<1>2. CASE PutBackDead(u, s)
  <2>1. Idle' = Idle
    BY <1>2 DEF PutBackDead, Idle
  <2> QED
    BY <1>2, <2>1 DEF PutBackDead, Lease!Return
<1> QED
  BY <1>1, <1>2

LEMMA JanitorLease ==
    ASSUME PoolInv, JanitorRuns
    PROVE  Lease!Trim \/ UNCHANGED <<Idle, held, lost, phase>>
<1>1. Surplus \subseteq Idle
  BY DEF Surplus, Closable
<1>2. /\ Idle' = Idle \ Surplus /\ lost' = lost \ Surplus
      /\ held' = held /\ phase' = phase
  BY <1>1, IdleAfter DEF JanitorRuns
<1>3. CASE Surplus = {}
  BY <1>2, <1>3
<1>4. CASE Surplus # {}
  <2>1. Cardinality(Surplus) <= nSessions - MinSessions
    BY <1>4, SurplusSize
  <2>2. nSessions = Cardinality(Idle) + Cardinality(Lease!InUse)
    <3>1. active = Lease!InUse
      BY HeldFacts DEF Lease!InUse
    <3>2. nSessions = Cardinality(Idle) + Cardinality(active)
      BY PoolFacts DEF PoolInv, NoLeak
    <3> QED
      BY <3>1, <3>2
  <2>3. Cardinality(Surplus) <= Cardinality(Idle) + Cardinality(Lease!InUse) - MinSessions
    <3>1. /\ Cardinality(Idle) \in Nat /\ Cardinality(Lease!InUse) \in Nat
          /\ Cardinality(Surplus) \in Nat /\ MinSessions \in Nat
      <4>1. active = Lease!InUse
        BY HeldFacts DEF Lease!InUse
      <4> QED
        BY <1>4, <4>1, PoolFacts, SurplusSize, PoolAssumption, FS_CardinalityType
    <3> QED
      BY <2>1, <2>2, <3>1
  <2>4. /\ Lease!Cardinality(Surplus) = Cardinality(Surplus)
        /\ Lease!Cardinality(Idle) = Cardinality(Idle)
        /\ Lease!Cardinality(Lease!InUse) = Cardinality(Lease!InUse)
    BY DEF Cardinality, Lease!Cardinality
  <2>5. Lease!Cardinality(Surplus)
          <= Lease!Cardinality(Idle) + Lease!Cardinality(Lease!InUse) - MinSessions
    BY <2>3, <2>4
  <2>6. Surplus \in SUBSET Idle
    BY <1>1
  <2>7. UNCHANGED <<phase = "open", held>>
    BY <1>2
  <2> QED
    BY <1>2, <2>5, <2>6, <2>7, Zenon DEF Lease!Trim
<1> QED
  BY <1>3, <1>4

\* Every step of the pool is one of a lease, or changes nothing in it.
LEMMA LeaseStep == PoolInv /\ [Next]_poolVars => [Lease!Next]_Lease!vars
<1> SUFFICES ASSUME PoolInv, [Next]_poolVars
             PROVE  Lease!Next \/ UNCHANGED <<phase = "open", Idle, held, lost>>
  BY DEF Lease!vars
<1>1. ASSUME idle' = idle, held' = held, lost' = lost, phase' = phase \/ (phase # "open" /\ phase' # "open")
      PROVE  UNCHANGED <<phase = "open", Idle, held, lost>>
  BY <1>1 DEF Idle
<1>2. CASE UNCHANGED poolVars
  BY <1>1, <1>2 DEF poolVars
<1>3. CASE ConnectFails \/ JanitorWakes \/ ShutdownBegins \/ TimerEnds
  BY <1>1, <1>3 DEF ConnectFails, JanitorWakes, ShutdownBegins, TimerEnds
<1>4. CASE JanitorRuns
  <2>1. CASE Lease!Trim
    BY <2>1 DEF Lease!Next
  <2>2. CASE UNCHANGED <<Idle, held, lost, phase>>
    BY <2>2
  <2> QED
    BY <1>4, <2>1, <2>2, JanitorLease
<1>5. CASE ShutdownEnds
  <2>1. idle = <<>> /\ lost = {} /\ phase = "stopping"
    BY <1>5 DEF ShutdownEnds, PoolInv, Unused, PoolTypeOK, InPool, Idle
  <2> QED
    BY <1>1, <1>5, <2>1 DEF ShutdownEnds
<1>6. ASSUME NEW s \in Sessions, ConnectOk(s)
      PROVE  Lease!Next
  <2>1. idle' = <<s>> /\ idle = <<>>
    BY <1>6 DEF ConnectOk, PoolInv, Unused
  <2>2. Idle' = {s}
    BY <2>1 DEF Idle
  <2>3. Lease!Open
    BY <1>6, <2>2 DEF ConnectOk, Lease!Open
  <2> QED
    BY <2>3 DEF Lease!Next
<1>7. ASSUME NEW s \in Sessions, Drop(s)
      PROVE  Lease!Next
  <2>1. Idle' = Idle /\ s \in (Idle \cup UNION {held[v] : v \in Users}) \ lost
    BY <1>7, HeldFacts DEF Drop, InPool, Idle
  <2>2. Lease!Break
    BY <1>7, <2>1 DEF Drop, Lease!Break, Lease!InUse
  <2> QED
    BY <2>2 DEF Lease!Next
<1>8. ASSUME NEW s \in Sessions, GrowsOld(s)
      PROVE  UNCHANGED <<phase = "open", Idle, held, lost>>
  BY <1>1, <1>8 DEF GrowsOld
<1>9. ASSUME NEW u \in Users, GetFails(u)
      PROVE  Lease!Next
  BY <1>9, GetFailsLease DEF Lease!Next
<1>10. ASSUME NEW u \in Users, NEW s \in Sessions,
              GetIdle(u, s) \/ GetNew(u, s) \/ PutBackLive(u, s) \/ PutBackDead(u, s)
       PROVE  Lease!Next
  BY <1>10, GetIdleLease, GetNewLease, PutBackLease DEF Lease!Next
<1> QED
  BY <1>2, <1>3, <1>4, <1>5, <1>6, <1>7, <1>8, <1>9, <1>10 DEF Next

\* Alone, and under the calls of the protocols, the pool is a SessionLease:
\* no needless session, none lost that was given back, none closed below
\* the minimum.
THEOREM PoolIsLease == Spec => LeaseSpec
<1> QED
  BY PoolInit, PoolNext, LeaseInit, LeaseStep, PTL DEF Spec, LeaseSpec, Lease!Spec

\* The calls that keep statements in sessions use the pool as a SessionLease:
\* a step of a call on its session is no step of the lease.
THEOREM CallsLeaseSessions == CacheSpec => LeaseSpec
<1>1. CacheInit => Init
  BY DEF CacheInit
<1> QED
  BY <1>1, CacheStep, PoolInit, PoolNext, LeaseInit, LeaseStep, PTL DEF CacheSpec, LeaseSpec, Lease!Spec

-----------------------------------------------------------------------------
\* Forgetting the maps of some sessions leaves the others as they were.
LEMMA ForgetKeeps ==
    ASSUME statements_map \in [Sessions -> [Names -> Seq(Statements)]],
           NEW gone, Forget(gone)
    PROVE  /\ statements_map' \in [Sessions -> [Names -> Seq(Statements)]]
           /\ \A s \in Sessions \ gone : statements_map'[s] = statements_map[s]
           /\ \A s \in Sessions \cap gone : statements_map'[s] = NoStatements
           /\ \A s \in Sessions, n \in Names : Whole(s, n) => Whole(s, n)'
<1>1. NoStatements \in [Names -> Seq(Statements)] /\ \A n \in Names : NoStatements[n] = <<>>
  BY DEF NoStatements
<1>2. /\ statements_map' \in [Sessions -> [Names -> Seq(Statements)]]
      /\ \A s \in Sessions \ gone : statements_map'[s] = statements_map[s]
      /\ \A s \in Sessions \cap gone : statements_map'[s] = NoStatements
  BY <1>1 DEF Forget
<1>3. ASSUME NEW s \in Sessions, NEW n \in Names, Whole(s, n) PROVE Whole(s, n)'
  <2>1. CASE s \in gone
    BY <2>1, <1>1, <1>2 DEF Whole
  <2>2. CASE s \notin gone
    BY <2>2, <1>2, <1>3 DEF Whole
  <2> QED
    BY <2>1, <2>2
<1> QED
  BY <1>2, <1>3

\* A call whose record and whose session's map do not change goes on as it was.
LEMMA SameCall ==
    ASSUME NEW u, NEW s, Ran(u), Left(u, s), Others(u, s),
           call'[u] = call[u], statements_map'[s] = statements_map[s]
    PROVE  Ran(u)' /\ Left(u, s)' /\ Others(u, s)'
BY DEF Ran, Left, Others, Whole, Cached

\* Two users do not hold one session, and what is held is not idle.
LEMMA Apart ==
    ASSUME PoolInv, NEW u \in Users, NEW s, held[u] = {s}
    PROVE  /\ s \in Sessions /\ s \in active /\ s \notin Idle
           /\ \A v \in Users \ {u} : s \notin held[v]
BY HeldFacts

\* Calls and maps stay; a session may become idle that was not in the pool.
LEMMA StillCache ==
    ASSUME PoolInv, CacheInv, UNCHANGED <<statements_map, call, held>>,
           Idle' \subseteq Sessions, Idle' \cap InPool \subseteq Idle,
           InPool \subseteq InPool'
    PROVE  CacheInv'
<1>1. CacheTypes'
  BY DEF CacheInv, CacheTypes
<1>2. Progress'
  BY SameCall DEF CacheInv, Progress
<1>3. GoneLeaveNothing'
  BY DEF CacheInv, GoneLeaveNothing, NoStatements
<1>4. ASSUME NEW s \in Idle', NEW n \in Names PROVE Whole(s, n)'
  <2>1. CASE s \in Idle
    BY <2>1 DEF CacheInv, IdleWhole, Whole
  <2>2. CASE s \notin Idle
    <3>1. s \in Sessions \ InPool
      BY <2>2
    <3>2. statements_map[s][n] = <<>>
      BY <3>1 DEF CacheInv, GoneLeaveNothing, NoStatements
    <3> QED
      BY <3>2 DEF Whole
  <2> QED
    BY <2>1, <2>2
<1> QED
  BY <1>1, <1>2, <1>3, <1>4 DEF CacheInv, IdleWhole

\* Calls stay, and idle sessions go with their maps.
LEMMA GoneCache ==
    ASSUME PoolInv, CacheInv, NEW gone, gone \subseteq Idle, Forget(gone),
           idle' \in Rests(idle, Idle \ gone),
           UNCHANGED <<active, held, call>>
    PROVE  CacheInv'
<1>1. Idle' = Idle \ gone
  BY EraseIdle DEF In, Idle
<1>2. /\ statements_map' \in [Sessions -> [Names -> Seq(Statements)]]
      /\ \A s \in Sessions \ gone : statements_map'[s] = statements_map[s]
      /\ \A s \in Sessions \cap gone : statements_map'[s] = NoStatements
      /\ \A s \in Sessions, n \in Names : Whole(s, n) => Whole(s, n)'
  BY ForgetKeeps DEF CacheInv, CacheTypes
<1>3. CacheTypes'
  BY <1>2 DEF CacheInv, CacheTypes
<1>4. Progress'
  <2> SUFFICES ASSUME NEW u \in Users, NEW s \in Sessions, held[u] = {s}
               PROVE  Ran(u)' /\ Left(u, s)' /\ Others(u, s)'
    BY DEF Progress
  <2>1. Ran(u) /\ Left(u, s) /\ Others(u, s)
    BY DEF CacheInv, Progress
  <2>2. statements_map'[s] = statements_map[s]
    BY Apart, <1>2
  <2> QED
    BY <2>1, <2>2, SameCall
<1>5. IdleWhole'
  BY <1>1, <1>2, PoolFacts DEF CacheInv, IdleWhole
<1>6. NoStatements' = NoStatements
  BY DEF NoStatements
<1>7. GoneLeaveNothing'
  BY <1>1, <1>2, <1>6 DEF CacheInv, GoneLeaveNothing, InPool
<1> QED
  BY <1>3, <1>4, <1>5, <1>7 DEF CacheInv

LEMMA PoolOnlyCache == ASSUME PoolInv, CacheInv, PoolOnly PROVE CacheInv'
<1>0. UNCHANGED <<statements_map, call>>
  BY DEF PoolOnly
<1>1. ASSUME UNCHANGED <<idle, active, held>> PROVE CacheInv'
  <2>1. Idle' = Idle /\ InPool' = InPool /\ Idle \subseteq Sessions
    BY <1>1, PoolFacts DEF Idle, InPool
  <2> QED
    BY <1>0, <1>1, <2>1, StillCache
<1>2. CASE ConnectFails \/ JanitorWakes \/ ShutdownBegins \/ TimerEnds
  BY <1>1, <1>2 DEF ConnectFails, JanitorWakes, ShutdownBegins, TimerEnds
<1>3. ASSUME NEW s \in Sessions, Drop(s) \/ GrowsOld(s) PROVE CacheInv'
  BY <1>1, <1>3 DEF Drop, GrowsOld
<1>4. CASE ShutdownEnds
  <2>1. idle = <<>> /\ active = {}
    BY <1>4 DEF ShutdownEnds, PoolInv, Unused
  <2> QED
    BY <1>1, <1>4, <2>1 DEF ShutdownEnds
<1>5. ASSUME NEW s \in Sessions, ConnectOk(s) PROVE CacheInv'
  <2>1. idle = <<>> /\ active = {} /\ idle' = <<s>> /\ UNCHANGED <<active, held>>
    BY <1>5 DEF ConnectOk, PoolInv, Unused
  <2>2. Idle = {} /\ Idle' = {s} /\ InPool = {}
    BY <2>1 DEF Idle, InPool
  <2> QED
    BY <1>0, <2>1, <2>2, StillCache
<1> QED
  BY <1>2, <1>3, <1>4, <1>5 DEF PoolOnly

LEMMA ClosingCache ==
    ASSUME PoolInv, CacheInv, JanitorCloses \/ \E u \in Users : BeginFails(u)
    PROVE  CacheInv'
<1>1. CASE JanitorCloses
  <2>1. Surplus \subseteq Idle
    BY DEF Surplus, Closable
  <2> QED
    BY <1>1, <2>1, GoneCache DEF JanitorCloses, JanitorRuns
<1>2. ASSUME NEW u \in Users, BeginFails(u) PROVE CacheInv'
  <2>1. Dead \subseteq Idle
    BY DEF Dead
  <2> QED
    BY <1>2, <2>1, GoneCache DEF BeginFails, GetFails
<1> QED
  BY <1>1, <1>2

-----------------------------------------------------------------------------
\* A call starts: if its name is in the map, the entry is its own template.
LEMMA BeginCache ==
    ASSUME NamesApart, PoolInv, CacheInv,
           NEW u \in Users, NEW s \in Sessions, NEW t \in Templates, NEW in \in Inputs,
           Begin(u, s, t, in)
    PROVE  CacheInv'
<1> DEFINE new == [template |-> t, input |-> in, from_cache |-> Found(s, t.name),
                   ran |-> <<>>, status |-> TRUE]
<1>1. /\ held[u] = {} /\ held' = [held EXCEPT ![u] = {s}]
      /\ s \notin active /\ s \notin Dead
      /\ Idle' \subseteq Idle /\ InPool' = (InPool \ Dead) \cup {s}
      /\ s \in Idle \/ s \notin InPool
  BY GetFacts DEF Begin
<1>2. call' = [call EXCEPT ![u] = new] /\ Forget(Dead)
  BY DEF Begin
<1>3. /\ statements_map' \in [Sessions -> [Names -> Seq(Statements)]]
      /\ \A x \in Sessions \ Dead : statements_map'[x] = statements_map[x]
      /\ \A x \in Sessions \cap Dead : statements_map'[x] = NoStatements
      /\ \A x \in Sessions, n \in Names : Whole(x, n) => Whole(x, n)'
  BY <1>2, ForgetKeeps DEF CacheInv, CacheTypes
<1>4. /\ held \in [Users -> SUBSET Sessions] /\ DOMAIN call = Users
      /\ held'[u] = {s} /\ call'[u] = new
      /\ \A v \in Users \ {u} : held'[v] = held[v] /\ call'[v] = call[v]
  BY <1>1, <1>2, HeldFacts DEF CacheInv, CacheTypes
<1>5. new \in CallRecord
  BY DEF CallRecord, Found
<1>6. CacheTypes'
  <2>1. DOMAIN call' = Users
    BY <1>2, <1>4
  <2>2. ASSUME NEW v \in Users, held'[v] # {} PROVE call'[v] \in CallRecord
    BY <2>2, <1>4, <1>5 DEF CacheInv, CacheTypes
  <2> QED
    BY <1>3, <2>1, <2>2 DEF CacheTypes
<1>7. \A n \in Names : Whole(s, n)
  <2>1. CASE s \in Idle
    BY <2>1 DEF CacheInv, IdleWhole
  <2>2. CASE s \notin InPool
    BY <2>2 DEF CacheInv, GoneLeaveNothing, NoStatements, Whole
  <2> QED
    BY <1>1, <2>1, <2>2
<1>8. statements_map'[s] = statements_map[s] /\ \A n \in Names : Whole(s, n)'
  BY <1>1, <1>3, <1>7
<1>9. /\ call'[u].template = t /\ call'[u].ran = <<>> /\ call'[u].status = TRUE
      /\ call'[u].from_cache = Found(s, t.name)
  BY <1>4
<1>10. t.name \in Names /\ t.size \in Nat
  BY TemplatesAssumption
<1>11. Ran(u)'
  BY <1>9, <1>10 DEF Ran
<1>12. Left(u, s)'
  <2>1. CASE Found(s, t.name)
    <3>1. PICK v \in Templates :
             v.name = t.name /\ Holds(statements_map[s][t.name], v, v.size)
      BY <2>1, <1>7, <1>10 DEF Whole, Found
    <3>2. v = t
      BY <3>1 DEF NamesApart
    <3>3. Holds(statements_map[s][t.name], t, t.size)
      BY <3>1, <3>2
    <3>4. Holds(Cached(u, s), call[u].template, call[u].template.size)'
      BY <3>3, <1>8, <1>9 DEF Cached, Holds
    <3> QED
      BY <3>4, <2>1, <1>9 DEF Left
  <2>2. CASE ~Found(s, t.name)
    <3>1. statements_map'[s][t.name] = <<>>
      BY <2>2, <1>8 DEF Found
    <3>2. Cached(u, s)' = <<>>
      BY <3>1, <1>9 DEF Cached
    <3>3. Holds(Cached(u, s), call[u].template, Len(call[u].ran))'
      BY <3>2, <1>9 DEF Holds
    <3> QED
      BY <3>2, <3>3, <2>2, <1>9 DEF Left
  <2> QED
    BY <2>1, <2>2
<1>13. Others(u, s)'
  BY <1>8 DEF Others
<1>14. Progress'
  <2> SUFFICES ASSUME NEW v \in Users, NEW x \in Sessions, held'[v] = {x}
               PROVE  Ran(v)' /\ Left(v, x)' /\ Others(v, x)'
    BY DEF Progress
  <2>1. CASE v = u
    <3>1. x = s
      BY <2>1, <1>4
    <3> QED
      BY <2>1, <3>1, <1>11, <1>12, <1>13
  <2>2. CASE v # u
    <3>1. held[v] = {x} /\ call'[v] = call[v]
      BY <2>2, <1>4
    <3>2. x \notin Dead
      BY <3>1, Apart DEF Dead
    <3>3. statements_map'[x] = statements_map[x]
      BY <3>2, <1>3
    <3>4. Ran(v) /\ Left(v, x) /\ Others(v, x)
      BY <3>1 DEF CacheInv, Progress
    <3> QED
      BY <3>1, <3>3, <3>4, SameCall
  <2> QED
    BY <2>1, <2>2
<1>15. IdleWhole'
  BY <1>1, <1>3, PoolFacts DEF CacheInv, IdleWhole
<1>16. GoneLeaveNothing'
  <2>1. NoStatements' = NoStatements
    BY DEF NoStatements
  <2> QED
    BY <1>1, <1>3, <2>1 DEF CacheInv, GoneLeaveNothing
<1> QED
  BY <1>6, <1>14, <1>15, <1>16 DEF CacheInv
-----------------------------------------------------------------------------
\* A call's own record and entry change, and nothing else: other users hold
\* other sessions, and the session of the call is not idle.
LEMMA OneCall ==
    ASSUME PoolInv, CacheInv, NEW u \in Users, NEW s \in Sessions, held[u] = {s},
           UNCHANGED poolVars,
           NEW entry \in Seq(Statements),
           statements_map' = [statements_map EXCEPT ![s][call[u].template.name] = entry],
           NEW record \in CallRecord, call' = [call EXCEPT ![u] = record],
           record.template = call[u].template,
           Ran(u)', Left(u, s)'
    PROVE  CacheInv'
<1>1. /\ statements_map \in [Sessions -> [Names -> Seq(Statements)]]
      /\ DOMAIN call = Users /\ call[u] \in CallRecord
  BY DEF CacheInv, CacheTypes
<1>2. call[u].template \in Templates /\ call[u].template.name \in Names
  BY <1>1, TemplatesAssumption DEF CallRecord
<1>3. /\ statements_map' \in [Sessions -> [Names -> Seq(Statements)]]
      /\ \A x \in Sessions \ {s} : statements_map'[x] = statements_map[x]
      /\ \A n \in Names : n # call[u].template.name =>
            statements_map'[s][n] = statements_map[s][n]
  BY <1>1, <1>2
<1>4. /\ DOMAIN call' = Users /\ call'[u] = record
      /\ \A v \in Users \ {u} : call'[v] = call[v]
  BY <1>1
<1>5. UNCHANGED <<idle, active, held>>
  BY DEF poolVars
<1>6. CacheTypes'
  <2>1. ASSUME NEW v \in Users, held'[v] # {} PROVE call'[v] \in CallRecord
    BY <2>1, <1>4, <1>5 DEF CacheInv, CacheTypes
  <2> QED
    BY <1>3, <1>4, <2>1 DEF CacheTypes
<1>7. Others(u, s)'
  BY <1>3, <1>4 DEF CacheInv, Progress, Others, Whole
<1>8. Progress'
  <2> SUFFICES ASSUME NEW v \in Users, NEW x \in Sessions, held'[v] = {x}
               PROVE  Ran(v)' /\ Left(v, x)' /\ Others(v, x)'
    BY DEF Progress
  <2>1. CASE v = u
    BY <2>1, <1>5, <1>7
  <2>2. CASE v # u
    <3>1. held[v] = {x} /\ call'[v] = call[v]
      BY <2>2, <1>4, <1>5
    <3>2. x # s
      BY <2>2, <3>1, Apart
    <3>3. Ran(v) /\ Left(v, x) /\ Others(v, x)
      BY <3>1 DEF CacheInv, Progress
    <3> QED
      BY <1>3, <3>1, <3>2, <3>3, SameCall
  <2> QED
    BY <2>1, <2>2
<1>9. Idle' = Idle /\ InPool' = InPool
  BY <1>5 DEF Idle, InPool
<1>10. s \notin Idle /\ s \in InPool
  BY Apart DEF InPool
<1>11. IdleWhole'
  BY <1>3, <1>9, <1>10, PoolFacts DEF CacheInv, IdleWhole, Whole
<1>12. NoStatements' = NoStatements
  BY DEF NoStatements
<1>13. GoneLeaveNothing'
  BY <1>3, <1>9, <1>10, <1>12 DEF CacheInv, GoneLeaveNothing
<1> QED
  BY <1>6, <1>8, <1>11, <1>13 DEF CacheInv

\* What holds of a call that is in its loop.
LEMMA LoopFacts ==
    ASSUME PoolInv, CacheInv, NEW u \in Users, NEW s \in Sessions, held[u] = {s}
    PROVE  /\ call[u] \in CallRecord
           /\ call[u].template \in Templates
           /\ call[u].template.name \in Names /\ call[u].template.size \in Nat
           /\ call[u].input \in Inputs /\ call[u].from_cache \in BOOLEAN
           /\ call[u].ran \in Seq(Statements) /\ call[u].status \in BOOLEAN
           /\ Cached(u, s) \in Seq(Statements)
           /\ Ran(u) /\ Left(u, s) /\ Others(u, s)
<1>1. call[u] \in CallRecord
  BY DEF CacheInv, CacheTypes
<1>2. /\ call[u].template \in Templates
      /\ call[u].input \in Inputs /\ call[u].from_cache \in BOOLEAN
      /\ call[u].ran \in Seq(Statements) /\ call[u].status \in BOOLEAN
  BY <1>1 DEF CallRecord
<1>3. call[u].template.name \in Names /\ call[u].template.size \in Nat
  BY <1>2, TemplatesAssumption
<1>4. statements_map \in [Sessions -> [Names -> Seq(Statements)]]
  BY DEF CacheInv, CacheTypes
<1>5. Cached(u, s) \in Seq(Statements)
  BY <1>3, <1>4 DEF Cached
<1> QED
  BY <1>1, <1>2, <1>3, <1>5 DEF CacheInv, Progress

\* A statement fails: the entry goes.
LEMMA ExecuteFailsCache ==
    ASSUME PoolInv, CacheInv, NEW u \in Users, NEW s \in Sessions, ExecuteFails(u, s)
    PROVE  CacheInv'
<1> DEFINE record == [call[u] EXCEPT !.status = FALSE]
<1>1. /\ held[u] = {s} /\ UNCHANGED poolVars
      /\ call' = [call EXCEPT ![u] = record]
      /\ statements_map' = [statements_map EXCEPT ![s][call[u].template.name] = <<>>]
  BY DEF ExecuteFails, InLoop, OnFailure
<1>2. /\ call[u] \in CallRecord /\ call[u].template.name \in Names /\ Ran(u)
      /\ DOMAIN call = Users
      /\ statements_map \in [Sessions -> [Names -> Seq(Statements)]]
  BY <1>1, LoopFacts DEF CacheInv, CacheTypes
<1>3. /\ record \in CallRecord /\ record.status = FALSE
      /\ record.template = call[u].template /\ record.ran = call[u].ran
      /\ record.input = call[u].input
  BY <1>2 DEF CallRecord
<1> HIDE DEF record
<1>4. call'[u] = record /\ <<>> \in Seq(Statements)
  BY <1>1, <1>2
<1>5. Ran(u)'
  BY <1>2, <1>3, <1>4 DEF Ran
<1>6. statements_map'[s][call[u].template.name] = <<>>
  BY <1>1, <1>2
<1>7. Left(u, s)'
  BY <1>3, <1>4, <1>6 DEF Left, Cached
<1> QED
  BY <1>1, <1>3, <1>4, <1>5, <1>7, OneCall

\* A statement is executed: it is the next of the call's own, bound to its own
\* inputs, whether it was in the map or not.
LEMMA ExecuteCache ==
    ASSUME PoolInv, CacheInv, NEW u \in Users, NEW s \in Sessions, Execute(u, s)
    PROVE  CacheInv'
<1> DEFINE statement == Statement(u, s)
           record == [call[u] EXCEPT !.ran = Append(@, statement)]
           entry == Kept(u, s, statement)
           t == call[u].template
           k == Len(call[u].ran)
<1>1. /\ held[u] = {s} /\ call[u].status /\ k + 1 <= LoopEnd(u, s)
      /\ UNCHANGED poolVars
      /\ call' = [call EXCEPT ![u] = record]
      /\ statements_map' = [statements_map EXCEPT ![s][t.name] = entry]
  BY DEF Execute, InLoop, Line
<1>2. /\ call[u] \in CallRecord /\ t \in Templates
      /\ t.name \in Names /\ t.size \in Nat
      /\ call[u].input \in Inputs /\ call[u].from_cache \in BOOLEAN
      /\ call[u].ran \in Seq(Statements)
      /\ Cached(u, s) \in Seq(Statements)
      /\ Ran(u) /\ Left(u, s)
  BY <1>1, LoopFacts
<1>3. /\ DOMAIN call = Users
      /\ statements_map \in [Sessions -> [Names -> Seq(Statements)]]
  BY DEF CacheInv, CacheTypes
<1>4. k \in Nat
  BY <1>2
<1>5. k + 1 <= t.size
  BY <1>1, <1>2 DEF LoopEnd, Left, Holds
<1>6. statement = [sql |-> Sql(t, k + 1), inputs |-> <<call[u].input>>]
  <2>1. CASE call[u].from_cache
    <3>1. Holds(Cached(u, s), t, t.size)
      BY <1>1, <1>2, <2>1 DEF Left
    <3>2. Cached(u, s)[k + 1].sql = Sql(t, k + 1) /\ Cached(u, s)[k + 1] \in Statements
      BY <1>2, <1>4, <1>5, <3>1 DEF Holds
    <3>3. Rebind(Cached(u, s)[k + 1], call[u].input)
            = [sql |-> Sql(t, k + 1), inputs |-> <<call[u].input>>]
      BY <3>2 DEF Rebind, Statements
    <3> QED
      BY <2>1, <3>3 DEF Statement, Line
  <2>2. CASE ~call[u].from_cache
    BY <2>2 DEF Statement, Line
  <2> QED
    BY <2>1, <2>2
<1>7. statement \in Statements /\ statement.sql = Sql(t, k + 1)
  <2>1. Sql(t, k + 1) \in {Sql(v, i) : v \in Templates, i \in Nat}
    BY <1>2, <1>4
  <2>2. <<call[u].input>> \in Seq(Inputs)
    BY <1>2
  <2> QED
    BY <1>6, <2>1, <2>2 DEF Statements
<1> HIDE DEF statement
<1>8. /\ Append(call[u].ran, statement) \in Seq(Statements)
      /\ Len(Append(call[u].ran, statement)) = k + 1
      /\ Append(call[u].ran, statement)[k + 1] = statement
      /\ \A i \in 1..k : Append(call[u].ran, statement)[i] = call[u].ran[i]
  BY <1>2, <1>7
<1>9. /\ record \in CallRecord /\ record.template = t
      /\ record.ran = Append(call[u].ran, statement)
      /\ record.input = call[u].input /\ record.from_cache = call[u].from_cache
      /\ record.status = call[u].status
  BY <1>2, <1>8 DEF CallRecord
<1> HIDE DEF record
<1>10. call'[u] = record
  BY <1>1, <1>3
<1>11. Ran(u)'
  <2>1. Len(record.ran) <= record.template.size
    BY <1>5, <1>8, <1>9
  <2>2. ASSUME NEW i \in 1..(k + 1)
        PROVE  record.ran[i]
                 = [sql |-> Sql(record.template, i), inputs |-> <<record.input>>]
    <3>1. CASE i = k + 1
      BY <1>6, <1>8, <1>9, <3>1
    <3>2. CASE i # k + 1
      <4>1. i \in 1..k
        BY <1>4, <3>2
      <4> QED
        BY <1>2, <1>8, <1>9, <4>1 DEF Ran
    <3> QED
      BY <3>1, <3>2
  <2> QED
    BY <1>8, <1>9, <1>10, <2>1, <2>2 DEF Ran
<1>12. /\ entry \in Seq(Statements)
       /\ IF call[u].from_cache THEN Holds(entry, t, t.size)
          ELSE IF t.cached THEN Holds(entry, t, k + 1)
          ELSE entry = <<>>
  <2>1. CASE call[u].from_cache
    <3>1. Holds(Cached(u, s), t, t.size)
      BY <1>1, <1>2, <2>1 DEF Left
    <3>2. entry = [Cached(u, s) EXCEPT ![k + 1] = statement]
      BY <2>1 DEF Kept, Line
    <3>3. entry \in Seq(Statements) /\ Len(entry) = Len(Cached(u, s))
      <4>1. k + 1 \in 1..Len(Cached(u, s))
        BY <1>4, <1>5, <3>1 DEF Holds
      <4> QED
        BY <1>2, <1>7, <3>2, <4>1, ExceptSeq
    <3>4. ASSUME NEW i \in 1..t.size PROVE entry[i].sql = Sql(t, i)
      <4>1. i \in DOMAIN Cached(u, s) /\ Cached(u, s)[i].sql = Sql(t, i)
        BY <1>2, <3>1 DEF Holds
      <4> QED
        BY <1>7, <3>2, <4>1
    <3> QED
      BY <2>1, <3>1, <3>3, <3>4 DEF Holds
  <2>2. CASE ~call[u].from_cache /\ t.cached
    <3>1. Holds(Cached(u, s), t, k)
      BY <1>1, <1>2, <2>2 DEF Left
    <3>2. entry = Append(Cached(u, s), statement)
      BY <2>2 DEF Kept
    <3>3. entry \in Seq(Statements) /\ Len(entry) = k + 1 /\ entry[k + 1] = statement
      BY <1>2, <1>7, <3>1, <3>2 DEF Holds
    <3>4. ASSUME NEW i \in 1..(k + 1) PROVE entry[i].sql = Sql(t, i)
      <4>1. CASE i = k + 1
        BY <1>7, <3>3, <4>1
      <4>2. CASE i # k + 1
        <5>1. i \in 1..k
          BY <1>4, <4>2
        <5>2. entry[i] = Cached(u, s)[i] /\ Cached(u, s)[i].sql = Sql(t, i)
          BY <1>2, <1>7, <3>1, <3>2, <5>1 DEF Holds
        <5> QED
          BY <5>2
      <4> QED
        BY <4>1, <4>2
    <3> QED
      BY <2>2, <3>3, <3>4 DEF Holds
  <2>3. CASE ~call[u].from_cache /\ ~t.cached
    BY <1>1, <1>2, <2>3 DEF Kept, Left
  <2> QED
    BY <1>2, <2>1, <2>2, <2>3
<1> HIDE DEF entry
<1>13. statements_map'[s][t.name] = entry
  BY <1>1, <1>2, <1>3
<1>14. Cached(u, s)' = entry
  BY <1>9, <1>10, <1>13 DEF Cached
<1>15. Left(u, s)'
  BY <1>1, <1>8, <1>9, <1>10, <1>12, <1>14 DEF Left
<1> QED
  BY <1>1, <1>9, <1>11, <1>12, <1>15, OneCall
-----------------------------------------------------------------------------
\* A call that is over leaves every entry of its session absent or whole.
LEMMA OverIsWhole ==
    ASSUME PoolInv, CacheInv, NEW u \in Users, NEW s \in Sessions, LoopOver(u, s),
           NEW n \in Names
    PROVE  Whole(s, n)
<1> DEFINE t == call[u].template
<1>1. /\ held[u] = {s}
      /\ ~call[u].status \/ Line(u) > LoopEnd(u, s)
  BY DEF LoopOver
<1>2. /\ t \in Templates /\ t.size \in Nat
      /\ call[u].ran \in Seq(Statements)
      /\ Ran(u) /\ Left(u, s) /\ Others(u, s)
  BY <1>1, LoopFacts
<1>3. CASE n # t.name
  BY <1>2, <1>3 DEF Others
<1>4. CASE n = t.name
  <2>1. statements_map[s][n] = Cached(u, s)
    BY <1>4 DEF Cached
  <2>2. Cached(u, s) = <<>> \/ Holds(Cached(u, s), t, t.size)
    <3>1. CASE ~call[u].status \/ call[u].from_cache \/ ~t.cached
      BY <1>2, <3>1 DEF Left
    <3>2. CASE call[u].status /\ ~call[u].from_cache /\ t.cached
      <4>1. Len(call[u].ran) + 1 > t.size /\ Len(call[u].ran) <= t.size
        BY <1>1, <1>2, <3>2 DEF Line, LoopEnd, Ran
      <4>2. Len(call[u].ran) = t.size
        BY <1>2, <4>1
      <4> QED
        BY <1>2, <3>2, <4>2 DEF Left
    <3> QED
      BY <3>1, <3>2
  <2> QED
    BY <1>2, <1>4, <2>1, <2>2 DEF Whole
<1> QED
  BY <1>3, <1>4

\* A call returns: its session is idle, or gone with its map.
LEMMA FinishCache ==
    ASSUME PoolInv, CacheInv, NEW u \in Users, NEW s \in Sessions, Finish(u, s)
    PROVE  CacheInv'
<1> DEFINE gone == {s} \cap lost
<1>1. /\ held[u] = {s} /\ held' = [held EXCEPT ![u] = {}]
      /\ active' = active \ {s} /\ Forget(gone)
      /\ call' = [call EXCEPT ![u] = NoCall]
  BY DEF Finish, PutBackLive, PutBackDead, Drops
<1>2. /\ s \in active /\ s \notin Idle /\ Idle \subseteq Sessions
      /\ \A n \in Names : Whole(s, n)
  BY <1>1, Apart, OverIsWhole, PoolFacts DEF Finish
<1>3. /\ statements_map' \in [Sessions -> [Names -> Seq(Statements)]]
      /\ \A x \in Sessions \ gone : statements_map'[x] = statements_map[x]
      /\ \A x \in Sessions \cap gone : statements_map'[x] = NoStatements
      /\ \A x \in Sessions, n \in Names : Whole(x, n) => Whole(x, n)'
  BY <1>1, ForgetKeeps DEF CacheInv, CacheTypes
<1>4. /\ held'[u] = {}
      /\ \A v \in Users \ {u} : held'[v] = held[v] /\ call'[v] = call[v]
      /\ DOMAIN call' = Users
  BY <1>1, HeldFacts DEF CacheInv, CacheTypes
<1>5. \/ s \notin lost /\ Idle' = Idle \cup {s} /\ InPool' = InPool
      \/ s \in lost /\ Idle' = Idle /\ InPool' = InPool \ {s}
  <2>1. CASE PutBackLive(u, s)
    <3>1. idle \in Seq(Sessions) /\ idle' = <<s>> \o idle /\ s \notin lost
      BY <2>1 DEF PutBackLive, PoolInv, PoolTypeOK
    <3>2. /\ \A i \in 1..Len(idle) : idle'[i + 1] = idle[i]
          /\ idle'[1] = s /\ DOMAIN idle' = 1..(Len(idle) + 1)
          /\ DOMAIN idle = 1..Len(idle) /\ Len(idle) \in Nat
      BY <3>1
    <3>3. Idle' = Idle \cup {s}
      <4>1. ASSUME NEW x \in Idle' PROVE x \in Idle \cup {s}
        <5>1. PICK i \in 1..(Len(idle) + 1) : x = idle'[i]
          BY <3>2 DEF Idle
        <5>2. CASE i = 1
          BY <3>2, <5>1, <5>2
        <5>3. CASE i # 1
          <6>1. i - 1 \in 1..Len(idle) /\ idle'[(i - 1) + 1] = idle[i - 1]
            BY <3>2, <5>1, <5>3
          <6>2. x = idle[i - 1]
            BY <3>2, <5>1, <6>1
          <6> QED
            BY <3>2, <6>1, <6>2 DEF Idle
        <5> QED
          BY <5>2, <5>3
      <4>2. ASSUME NEW x \in Idle PROVE x \in Idle'
        <5>1. PICK i \in 1..Len(idle) : x = idle[i]
          BY <3>2 DEF Idle
        <5>2. i + 1 \in DOMAIN idle' /\ x = idle'[i + 1]
          BY <3>2, <5>1
        <5> QED
          BY <5>2 DEF Idle
      <4>3. s \in Idle'
        BY <3>2 DEF Idle
      <4> QED
        BY <4>1, <4>2, <4>3
    <3>4. InPool' = InPool
      BY <1>1, <1>2, <3>3 DEF InPool
    <3> QED
      BY <3>1, <3>3, <3>4
  <2>2. CASE PutBackDead(u, s)
    <3>1. s \in lost /\ idle' = idle
      BY <2>2 DEF PutBackDead
    <3>2. Idle' = Idle
      BY <3>1 DEF Idle
    <3> QED
      BY <1>1, <1>2, <3>1, <3>2 DEF InPool
  <2> QED
    BY <2>1, <2>2 DEF Finish
<1>6. CacheTypes'
  <2>1. ASSUME NEW v \in Users, held'[v] # {} PROVE call'[v] \in CallRecord
    BY <2>1, <1>4 DEF CacheInv, CacheTypes
  <2> QED
    BY <1>3, <1>4, <2>1 DEF CacheTypes
<1>7. Progress'
  <2> SUFFICES ASSUME NEW v \in Users, NEW x \in Sessions, held'[v] = {x}
               PROVE  Ran(v)' /\ Left(v, x)' /\ Others(v, x)'
    BY DEF Progress
  <2>1. v # u
    BY <1>4
  <2>2. held[v] = {x} /\ call'[v] = call[v]
    BY <1>4, <2>1
  <2>3. x # s
    BY <1>1, <2>1, <2>2, Apart
  <2>4. statements_map'[x] = statements_map[x]
    BY <1>3, <2>3
  <2>5. Ran(v) /\ Left(v, x) /\ Others(v, x)
    BY <2>2 DEF CacheInv, Progress
  <2> QED
    BY <2>2, <2>4, <2>5, SameCall
<1>8. IdleWhole'
  BY <1>2, <1>3, <1>5 DEF CacheInv, IdleWhole
<1>9. NoStatements' = NoStatements
  BY DEF NoStatements
<1>10. GoneLeaveNothing'
  BY <1>3, <1>5, <1>9 DEF CacheInv, GoneLeaveNothing
<1> QED
  BY <1>6, <1>7, <1>8, <1>10 DEF CacheInv

-----------------------------------------------------------------------------
LEMMA CacheInitial == CacheInit => CacheInv
<1> SUFFICES ASSUME CacheInit PROVE CacheInv
  OBVIOUS
<1>1. /\ idle = <<>> /\ held = [u \in Users |-> {}]
      /\ statements_map = [s \in Sessions |-> NoStatements]
      /\ call = [u \in Users |-> NoCall]
  BY DEF CacheInit, Init
<1>2. NoStatements \in [Names -> Seq(Statements)]
  BY DEF NoStatements
<1>3. CacheTypes
  BY <1>1, <1>2 DEF CacheTypes
<1>4. Progress
  BY <1>1 DEF Progress
<1>5. Idle = {}
  BY <1>1 DEF Idle
<1>6. GoneLeaveNothing
  BY <1>1 DEF GoneLeaveNothing
<1> QED
  BY <1>3, <1>4, <1>5, <1>6 DEF CacheInv, IdleWhole

LEMMA CacheKept ==
    NamesApart /\ PoolInv /\ CacheInv /\ [CacheNext]_cacheVars => CacheInv'
<1> SUFFICES ASSUME NamesApart, PoolInv, CacheInv, [CacheNext]_cacheVars
             PROVE  CacheInv'
  OBVIOUS
<1>1. CASE PoolOnly
  BY <1>1, PoolOnlyCache
<1>2. CASE JanitorCloses \/ \E u \in Users : BeginFails(u)
  BY <1>2, ClosingCache
<1>3. ASSUME NEW u \in Users, NEW s \in Sessions, NEW t \in Templates, NEW in \in Inputs,
             Begin(u, s, t, in)
      PROVE  CacheInv'
  BY <1>3, BeginCache
<1>4. ASSUME NEW u \in Users, NEW s \in Sessions, Execute(u, s) PROVE CacheInv'
  BY <1>4, ExecuteCache
<1>5. ASSUME NEW u \in Users, NEW s \in Sessions, ExecuteFails(u, s) PROVE CacheInv'
  BY <1>5, ExecuteFailsCache
<1>6. ASSUME NEW u \in Users, NEW s \in Sessions, Finish(u, s) PROVE CacheInv'
  BY <1>6, FinishCache
<1>7. CASE UNCHANGED cacheVars
  <2>1. UNCHANGED <<statements_map, call, idle, active, held>>
    BY <1>7 DEF cacheVars, poolVars
  <2>2. Idle' = Idle /\ InPool' = InPool /\ Idle \subseteq Sessions
    BY <2>1, PoolFacts DEF Idle, InPool
  <2> QED
    BY <2>1, <2>2, StillCache
<1> QED
  BY <1>1, <1>2, <1>3, <1>4, <1>5, <1>6, <1>7 DEF CacheNext

\* What a call has executed is its own; when it is over, it is all of its own.
LEMMA RunsOwn == PoolInv /\ CacheInv => RunsOwnStatements
<1> SUFFICES ASSUME PoolInv, CacheInv, NEW u \in Users, NEW s \in Sessions, held[u] = {s}
             PROVE  /\ Len(call[u].ran) <= call[u].template.size
                    /\ \A i \in DOMAIN call[u].ran : call[u].ran[i] = Own(u)[i]
                    /\ LoopOver(u, s) /\ call[u].status => call[u].ran = Own(u)
  BY DEF RunsOwnStatements
<1> DEFINE t == call[u].template
<1>1. /\ t.size \in Nat /\ call[u].ran \in Seq(Statements)
      /\ Ran(u) /\ Left(u, s)
  BY LoopFacts
<1>2. /\ DOMAIN call[u].ran = 1..Len(call[u].ran) /\ Len(call[u].ran) \in Nat
      /\ Len(call[u].ran) <= t.size
  BY <1>1 DEF Ran
<1>3. ASSUME NEW i \in DOMAIN call[u].ran PROVE call[u].ran[i] = Own(u)[i]
  <2>1. i \in 1..t.size /\ i \in 1..Len(call[u].ran)
    BY <1>1, <1>2
  <2> QED
    BY <1>1, <2>1 DEF Ran, Own
<1>4. ASSUME LoopOver(u, s), call[u].status PROVE call[u].ran = Own(u)
  <2>1. Line(u) > LoopEnd(u, s)
    BY <1>4 DEF LoopOver
  <2>2. LoopEnd(u, s) = t.size
    BY <1>1, <1>4 DEF LoopEnd, Left, Holds
  <2>3. Len(call[u].ran) = t.size
    BY <1>1, <1>2, <2>1, <2>2 DEF Line
  <2>4. /\ DOMAIN Own(u) = 1..t.size /\ DOMAIN call[u].ran = 1..t.size
        /\ Own(u) = [i \in 1..t.size |-> Own(u)[i]]
        /\ call[u].ran = [i \in 1..t.size |-> call[u].ran[i]]
    BY <1>1, <1>2, <2>3 DEF Own
  <2> QED
    BY <1>3, <2>4
<1> QED
  BY <1>2, <1>3, <1>4

\* Entries of idle sessions are absent or whole.
LEMMA WholeEntries == PoolInv /\ CacheInv => EntriesWhole
<1> SUFFICES ASSUME PoolInv, CacheInv, NEW s \in Idle, NEW n \in Names,
                    statements_map[s][n] # <<>>
             PROVE  \E t \in Templates :
                       /\ t.name = n
                       /\ SqlOf(statements_map[s][n]) = [i \in 1..t.size |-> Sql(t, i)]
  BY DEF EntriesWhole
<1> DEFINE entry == statements_map[s][n]
<1>1. PICK t \in Templates : t.name = n /\ Holds(entry, t, t.size)
  BY DEF CacheInv, IdleWhole, Whole
<1>2. entry \in Seq(Statements)
  BY PoolFacts DEF CacheInv, CacheTypes
<1>3. DOMAIN entry = 1..t.size /\ \A i \in 1..t.size : entry[i].sql = Sql(t, i)
  BY <1>1, <1>2 DEF Holds
<1>4. SqlOf(entry) = [i \in 1..t.size |-> Sql(t, i)]
  BY <1>3 DEF SqlOf
<1> QED
  BY <1>1, <1>4

\* For every set of users, sessions, templates and inputs: if no two templates
\* have a name in common, a call executes its own statements with its own
\* inputs, all of them when it ends well, whatever the caches held.
THEOREM CallsRunOwnStatements == ASSUME NamesApart PROVE CacheSpec => []RunsOwnStatements
<1>1. CacheInit => PoolInv /\ CacheInv
  BY PoolInit, CacheInitial DEF CacheInit
<1>2. PoolInv /\ CacheInv /\ [CacheNext]_cacheVars => (PoolInv /\ CacheInv)'
  BY CacheStep, PoolNext, CacheKept
<1> QED
  BY <1>1, <1>2, RunsOwn, PTL DEF CacheSpec

\* Under the same condition the cache of an idle session has whole entries
\* only, and a session that is gone has left none.
THEOREM CachesStayWhole ==
    ASSUME NamesApart PROVE CacheSpec => [](EntriesWhole /\ GoneLeaveNothing)
<1>1. CacheInit => PoolInv /\ CacheInv
  BY PoolInit, CacheInitial DEF CacheInit
<1>2. PoolInv /\ CacheInv /\ [CacheNext]_cacheVars => (PoolInv /\ CacheInv)'
  BY CacheStep, PoolNext, CacheKept
<1>3. PoolInv /\ CacheInv => EntriesWhole /\ GoneLeaveNothing
  BY WholeEntries DEF CacheInv
<1> QED
  BY <1>1, <1>2, <1>3, PTL DEF CacheSpec
=============================================================================
