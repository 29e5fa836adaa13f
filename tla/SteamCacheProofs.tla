-------------------------- MODULE SteamCacheProofs --------------------------
(***************************************************************************)
(* Proofs about the Steam thread's rounds.  First, what the lists are that *)
(* a round asks Steam for: an ordered list names every id of its set once, *)
(* and the requests for bans made from it name no id twice and miss none   *)
(* but the first ones of the full requests.  From that, the two properties *)
(* of SteamCache: a player is banned once for every time its entry is      *)
(* fetched, and the answers of rounds with one request for bans are true.  *)
(***************************************************************************)
EXTENDS SteamCache, FiniteSetTheorems, SequenceTheorems, TLAPS

-----------------------------------------------------------------------------
(* Numbers *)

LEMMA Product ==
    ASSUME NEW B \in Nat \ {0}, NEW a \in Int, NEW b \in Int
    PROVE  /\ a * B \in Int
           /\ (a - 1) * B = a * B - B
           /\ a < b => a * B <= b * B - B
  <1>1. a * B \in Int /\ (a - 1) * B = a * B - B
    OBVIOUS
  <1>2. ASSUME a < b PROVE a * B <= b * B - B
    <2>1. PICK d \in Nat : b = a + 1 + d
      <3>1. b - a - 1 \in Nat /\ b = a + 1 + (b - a - 1)
        BY <1>2
      <3> QED
        BY <3>1
    <2>2. b * B = a * B + B + d * B
      BY <2>1
    <2>3. d * B \in Nat
      OBVIOUS
    <2> QED
      BY <2>2, <2>3
  <1> QED
    BY <1>1, <1>2

\* Requests: so many of them are needed for n ids.
LEMMA CountIs ==
    ASSUME NEW B \in Nat \ {0}, NEW n \in Nat, NEW c, c = (n + B - 1) \div B
    PROVE  c \in Nat /\ n <= c * B /\ c * B < n + B
  OBVIOUS

\* The request an id belongs to.
LEMMA BlockIs ==
    ASSUME NEW B \in Nat \ {0}, NEW i \in Nat \ {0}
    PROVE  \E k \in Nat \ {0} : (k - 1) * B < i /\ i <= k * B
  <1> DEFINE d == (i - 1) \div B
  <1>1. d \in Nat /\ d * B <= i - 1 /\ i - 1 < d * B + B
    OBVIOUS
  <1>2. (d + 1) * B = d * B + B /\ (d + 1) - 1 = d /\ d + 1 \in Nat \ {0}
    BY <1>1
  <1>3. ((d + 1) - 1) * B < i /\ i <= (d + 1) * B
    BY <1>1, <1>2
  <1> HIDE DEF d
  <1> QED
    BY <1>2, <1>3

LEMMA NoRest ==
    ASSUME NEW B \in Nat \ {0}, NEW a \in Nat
    PROVE  (a * B) % B = 0
  OBVIOUS

-----------------------------------------------------------------------------
(* An ordered list *)

\* How many of a set are smaller than one of its members.
Smaller(ids, id) == {i \in ids : i < id}

LEMMA SmallerCount ==
    ASSUME NEW ids, ids \subseteq SteamIDs
    PROVE  /\ IsFiniteSet(ids)
           /\ Cardinality(ids) \in Nat
           /\ \A id \in ids : Cardinality(Smaller(ids, id)) \in 0..(Cardinality(ids) - 1)
           /\ \A a, b \in ids : a < b => Cardinality(Smaller(ids, a)) < Cardinality(Smaller(ids, b))
  <1>1. IsFiniteSet(ids) /\ ids \subseteq Nat
    BY SteamAssumption, FS_Subset
  <1>2. Cardinality(ids) \in Nat
    BY <1>1, FS_CardinalityType
  <1>3. ASSUME NEW S, NEW T, T \subseteq ids, S \subseteq T, S # T
        PROVE  Cardinality(S) \in Nat /\ Cardinality(T) \in Nat
               /\ Cardinality(S) < Cardinality(T)
    <2>1. IsFiniteSet(T)
      BY <1>1, <1>3, FS_Subset
    <2>2. IsFiniteSet(S) /\ Cardinality(S) <= Cardinality(T) /\ Cardinality(S) # Cardinality(T)
      BY <2>1, <1>3, FS_Subset
    <2> QED
      BY <2>1, <2>2, FS_CardinalityType
  <1>4. ASSUME NEW id \in ids
        PROVE  Cardinality(Smaller(ids, id)) \in 0..(Cardinality(ids) - 1)
    <2>1. Smaller(ids, id) \subseteq ids /\ id \notin Smaller(ids, id)
      BY <1>1 DEF Smaller
    <2>2. Smaller(ids, id) # ids
      BY <2>1
    <2> QED
      BY <1>2, <1>3, <2>1, <2>2
  <1>5. ASSUME NEW a \in ids, NEW b \in ids, a < b
        PROVE  Cardinality(Smaller(ids, a)) < Cardinality(Smaller(ids, b))
    <2>1. a \in Nat /\ b \in Nat
      BY <1>1
    <2>2. /\ Smaller(ids, b) \subseteq ids
          /\ Smaller(ids, a) \subseteq Smaller(ids, b)
      <3>1. \A i \in ids : i < a => i < b
        BY <1>1, <2>1, <1>5
      <3> QED
        BY <3>1 DEF Smaller
    <2>3. a \in Smaller(ids, b) /\ a \notin Smaller(ids, a)
      BY <2>1, <1>5 DEF Smaller
    <2> QED
      BY <1>3, <2>2, <2>3
  <1> QED
    BY <1>1, <1>2, <1>4, <1>5

\* Sorted names every id of the set, and each once.
LEMMA SortedIs ==
    ASSUME NEW ids, ids \subseteq SteamIDs
    PROVE  /\ Sorted(ids) \in Seq(SteamIDs)
           /\ ToSet(Sorted(ids)) = ids
           /\ \A i, j \in DOMAIN Sorted(ids) : Sorted(ids)[i] = Sorted(ids)[j] => i = j
  <1> DEFINE n == Cardinality(ids)
             Rank == [id \in ids |-> Cardinality(Smaller(ids, id))]
             s == Sorted(ids)
  <1>1. /\ IsFiniteSet(ids) /\ n \in Nat
        /\ \A id \in ids : Rank[id] \in 0..(n - 1)
        /\ \A a, b \in ids : a < b => Rank[a] < Rank[b]
    BY SmallerCount
  <1>2. Rank \in Injection(ids, 0..(n - 1))
    <2>1. Rank \in [ids -> 0..(n - 1)]
      BY <1>1
    <2>2. ASSUME NEW a \in ids, NEW b \in ids, Rank[a] = Rank[b] PROVE a = b
      <3>1. a \in Nat /\ b \in Nat
        BY SteamAssumption
      <3>2. Rank[a] \in Int /\ Rank[b] \in Int
        BY <1>1
      <3>3. ~ a < b /\ ~ b < a
        BY <1>1, <2>2, <3>2
      <3> QED
        BY <3>1, <3>3
    <2> HIDE DEF Rank
    <2> QED
      BY <2>1, <2>2 DEF Injection, IsInjective
  <1>3. IsFiniteSet(0..(n - 1)) /\ Cardinality(0..(n - 1)) = n
    <2>1. n - 1 \in Int /\ 0 \in Int
      BY <1>1
    <2>2. /\ IsFiniteSet(0..(n - 1))
          /\ Cardinality(0..(n - 1)) = IF 0 > n - 1 THEN 0 ELSE (n - 1) - 0 + 1
      BY <2>1, FS_Interval
    <2> HIDE DEF n
    <2> QED
      BY <1>1, <2>2
  <1>4. Rank \in Surjection(ids, 0..(n - 1))
    <2> HIDE DEF Rank
    <2> QED
      BY <1>2, <1>3, FS_Injection
  <1>5. \A r \in 0..(n - 1) : \E id \in ids : Rank[id] = r
    <2> HIDE DEF Rank, n
    <2> QED
      BY <1>4 DEF Surjection
  <1>6. s = [k \in 1..n |-> CHOOSE id \in ids : Cardinality({i \in ids : i < id}) = k - 1]
    BY DEF Sorted
  <1>7. \A k \in 1..n : s[k] \in ids /\ Rank[s[k]] = k - 1
    <2> TAKE k \in 1..n
    <2>1. k - 1 \in 0..(n - 1)
      BY <1>1
    <2>2. \E id \in ids : Rank[id] = k - 1
      BY <1>5, <2>1
    <2>3. \E id \in ids : Cardinality({i \in ids : i < id}) = k - 1
      BY <2>2 DEF Smaller
    <2>4. s[k] = CHOOSE id \in ids : Cardinality({i \in ids : i < id}) = k - 1
      BY <1>6
    <2>5. s[k] \in ids /\ Cardinality({i \in ids : i < s[k]}) = k - 1
      <3> HIDE DEF s
      <3> QED
        BY <2>3, <2>4
    <2> HIDE DEF s, n
    <2> QED
      BY <2>5 DEF Smaller
  <1>8. s \in Seq(SteamIDs) /\ DOMAIN s = 1..n
    <2>1. DOMAIN s = 1..n
      BY <1>6
    <2>2. s \in [1..n -> SteamIDs]
      BY <1>6, <1>7
    <2> HIDE DEF s, n
    <2> QED
      BY <1>1, <2>1, <2>2, SeqDef
  <1>9. \A i, j \in DOMAIN s : s[i] = s[j] => i = j
    <2> TAKE i, j \in DOMAIN s
    <2> HAVE s[i] = s[j]
    <2>1. i \in 1..n /\ j \in 1..n
      BY <1>8
    <2>2. Rank[s[i]] = i - 1 /\ Rank[s[j]] = j - 1
      BY <1>7, <2>1
    <2>3. i - 1 = j - 1
      BY <2>2
    <2> HIDE DEF n
    <2> QED
      BY <1>1, <2>1, <2>3
  <1>10. ToSet(s) = ids
    <2>1. ToSet(s) \subseteq ids
      BY <1>7, <1>8 DEF ToSet
    <2>2. ASSUME NEW id \in ids PROVE id \in ToSet(s)
      <3>1. Rank[id] + 1 \in 1..n
        BY <1>1
      <3> DEFINE k == Rank[id] + 1
      <3>2. s[k] \in ids /\ Rank[s[k]] = k - 1
        BY <1>7, <3>1
      <3>3. Rank[s[k]] = Rank[id]
        <4>1. Rank[id] \in Int
          BY <1>1
        <4> HIDE DEF Rank, s
        <4> QED
          BY <3>2, <4>1
      <3>4. s[k] = id
        <4> HIDE DEF Rank, s, k
        <4> QED
          BY <3>2, <3>3, <1>2 DEF Injection, IsInjective
      <3> HIDE DEF s, k
      <3> QED
        BY <1>8, <3>1, <3>4 DEF ToSet, k
    <2> QED
      BY <2>1, <2>2
  <1> QED
    BY <1>8, <1>9, <1>10

-----------------------------------------------------------------------------
(* The requests for bans *)

RequestCount(ids) == (Len(ids) + BatchSize - 1) \div BatchSize

\* Where the ids of the k-th request begin and end.
From(k) == (k - 1) * BatchSize + 1
UpTo(ids, k) == IF k = RequestCount(ids) THEN Len(ids) ELSE k * BatchSize

\* The players a request names.
Players(request) == ToSet(request) \ {Cut}

LEMMA RequestBounds ==
    ASSUME NEW ids \in Seq(SteamIDs), NEW k \in 1..RequestCount(ids)
    PROVE  /\ RequestCount(ids) \in Nat
           /\ k \in Nat \ {0}
           /\ From(k) \in 1..Len(ids) /\ UpTo(ids, k) \in From(k)..Len(ids)
           /\ UpTo(ids, k) <= k * BatchSize
           /\ k # RequestCount(ids) =>
                 /\ UpTo(ids, k) = k * BatchSize
                 /\ From(k) + BatchSize <= Len(ids)
           /\ (From(k) - 1) % BatchSize = 0
  <1> DEFINE B == BatchSize
             c == RequestCount(ids)
             n == Len(ids)
  <1>1. B \in Nat \ {0} /\ n \in Nat
    BY SteamAssumption, LenProperties
  <1>2. c \in Nat /\ n <= c * B /\ c * B < n + B
    BY <1>1, CountIs DEF RequestCount
  <1>3. k \in Nat \ {0} /\ k <= c
    BY <1>2
  <1>4. (k - 1) * B = k * B - B /\ (k - 1) * B \in Int /\ k * B \in Int
    BY <1>1, <1>3, Product
  <1>5. (k - 1) * B >= 0 /\ ((k - 1) * B) % B = 0
    <2>1. k - 1 \in Nat
      BY <1>3
    <2>2. (k - 1) * B \in Nat
      BY <2>1, <1>1
    <2>3. ((k - 1) * B) % B = 0
      BY <2>1, <1>1, NoRest
    <2> QED
      BY <2>2, <2>3
  <1>6. k < c => k * B <= c * B - B
    BY <1>1, <1>2, <1>3, Product
  <1>7. UpTo(ids, k) = (IF k = c THEN n ELSE k * B) /\ From(k) = (k - 1) * B + 1
    BY DEF UpTo, From
  <1>8. CASE k = c
    <2> HIDE DEF B, c, n
    <2>1. (k - 1) * B < n /\ n <= k * B
      BY <1>1, <1>2, <1>3, <1>4, <1>8
    <2>2. UpTo(ids, k) = n
      BY <1>7, <1>8
    <2>3. From(k) \in 1..n
      BY <1>1, <1>4, <1>5, <1>7, <2>1
    <2>4. From(k) \in 1..n /\ n \in From(k)..n
      BY <1>1, <2>3
    <2>5. From(k) - 1 = (k - 1) * B
      BY <1>4, <1>7
    <2>6. (From(k) - 1) % B = 0
      BY <1>5, <2>5
    <2> QED
      BY <1>2, <1>3, <1>8, <2>1, <2>2, <2>4, <2>6 DEF B, c, n
  <1>9. CASE k # c
    <2> HIDE DEF B, c, n
    <2>1. k * B <= c * B - B /\ c * B \in Int
      BY <1>1, <1>2, <1>3, <1>6, <1>9, Product
    <2>2. k * B < n
      BY <1>1, <1>2, <1>4, <2>1
    <2>3. UpTo(ids, k) = k * B
      BY <1>7, <1>9
    <2>4. From(k) \in 1..n /\ k * B \in From(k)..n /\ From(k) + B <= n
      BY <1>1, <1>4, <1>5, <1>7, <2>2
    <2>5. From(k) - 1 = (k - 1) * B
      BY <1>4, <1>7
    <2> QED
      BY <1>1, <1>2, <1>3, <1>4, <1>5, <2>3, <2>4, <2>5 DEF B, c, n
  <1> QED
    BY <1>8, <1>9

\* What the k-th request names: ids of its own part of the list, all of them
\* if it is the last request, and all but the first one otherwise.
LEMMA RequestIs ==
    ASSUME NEW ids \in Seq(SteamIDs), NEW k \in 1..RequestCount(ids)
    PROVE  /\ Requests(ids)[k] \in Seq(SteamIDs \cup {Cut})
           /\ \A id \in Players(Requests(ids)[k]) :
                 \E i \in From(k)..UpTo(ids, k) : id = ids[i]
           /\ \A i \in From(k)..UpTo(ids, k) :
                 \/ ids[i] \in Players(Requests(ids)[k])
                 \/ k # RequestCount(ids) /\ i = From(k)
  <1> DEFINE c == RequestCount(ids)
             a == From(k)
             z == UpTo(ids, k)
             r == Requests(ids)[k]
             s == SubSeq(ids, a, z)
  <1>1. /\ c \in Nat /\ a \in 1..Len(ids) /\ z \in a..Len(ids) /\ Len(ids) \in Nat
    BY RequestBounds, LenProperties
  <1>2. a \in Int /\ z \in Int /\ a <= z /\ \A i \in a..z : ids[i] \in SteamIDs
    <2>1. \A i \in a..z : i \in 1..Len(ids)
      <3> HIDE DEF a, z
      <3> QED
        BY <1>1
    <2>2. \A i \in a..z : ids[i] \in SteamIDs
      BY <2>1, ElementOfSeq
    <2> HIDE DEF a, z
    <2> QED
      BY <1>1, <2>2
  <1>3. /\ s \in Seq(SteamIDs)
        /\ Len(s) = z - a + 1
        /\ \A i \in 1..(z - a + 1) : s[i] = ids[a + i - 1]
    <2> HIDE DEF a, z
    <2> QED
      BY <1>2, SubSeqProperties
  <1>4. Cut \notin SteamIDs
    BY SteamAssumption DEF Cut
  <1>5. r = IF k = c THEN s ELSE <<Cut>> \o Tail(s)
    <2>1. Requests(ids) = [j \in 1..c |-> IF j = c THEN SubSeq(ids, From(j), UpTo(ids, j))
                                          ELSE <<Cut>> \o Tail(SubSeq(ids, From(j), UpTo(ids, j)))]
      BY DEF Requests, RequestCount, From, UpTo
    <2> QED
      BY <2>1
  <1>6. CASE k = c
    <2>1. r = s /\ DOMAIN s = 1..(z - a + 1)
      BY <1>3, <1>5, <1>6, LenProperties
    <2> HIDE DEF a, z, s, r, c
    <2>2. r \in Seq(SteamIDs \cup {Cut})
      BY <1>3, <2>1, SeqMonotonic
    <2>3. ASSUME NEW id \in Players(r) PROVE \E i \in a..z : id = ids[i]
      <3>1. PICK j \in 1..(z - a + 1) : id = s[j]
        BY <2>1, <2>3 DEF Players, ToSet
      <3>2. a + j - 1 \in a..z
        BY <1>2
      <3> QED
        BY <1>3, <3>1, <3>2
    <2>4. ASSUME NEW i \in a..z PROVE ids[i] \in Players(r)
      <3>1. i - a + 1 \in 1..(z - a + 1) /\ a + (i - a + 1) - 1 = i
        BY <1>2
      <3>2. s[i - a + 1] = ids[i]
        BY <1>3, <3>1
      <3>3. ids[i] \in ToSet(r)
        BY <2>1, <3>1, <3>2 DEF ToSet
      <3>4. ids[i] # Cut
        BY <1>2, <1>4
      <3> QED
        BY <3>3, <3>4 DEF Players
    <2> QED
      BY <2>2, <2>3, <2>4 DEF a, z, r
  <1>7. CASE k # c
    <2> DEFINE t == Tail(s)
    <2>1. s # <<>>
      <3> HIDE DEF a, z, s
      <3> QED
        BY <1>2, <1>3, EmptySeq
    <2>2. /\ t \in Seq(SteamIDs)
          /\ Len(t) = z - a
          /\ \A i \in 1..(z - a) : t[i] = ids[a + i]
      <3> HIDE DEF a, z, s
      <3>1. /\ t \in Seq(SteamIDs) /\ Len(t) = Len(s) - 1
            /\ \A i \in 1..Len(t) : t[i] = s[i + 1]
        BY <1>3, <2>1, HeadTailProperties
      <3> HIDE DEF t
      <3>2. Len(t) = z - a
        BY <1>2, <1>3, <3>1
      <3>3. ASSUME NEW i \in 1..(z - a) PROVE t[i] = ids[a + i]
        <4>1. i + 1 \in 1..(z - a + 1) /\ a + (i + 1) - 1 = a + i
          BY <1>2
        <4>2. t[i] = s[i + 1] /\ s[i + 1] = ids[a + (i + 1) - 1]
          BY <1>3, <3>1, <3>2, <4>1
        <4> QED
          BY <4>1, <4>2
      <3> QED
        BY <3>1, <3>2, <3>3
    <2>3. r = <<Cut>> \o t
      BY <1>5, <1>7
    <2> HIDE DEF a, z, s, t, r, c
    <2>4. <<Cut>> \in Seq(SteamIDs \cup {Cut}) /\ Len(<<Cut>>) = 1 /\ <<Cut>>[1] = Cut
      OBVIOUS
    <2>5. t \in Seq(SteamIDs \cup {Cut})
      BY <2>2, SeqMonotonic
    <2>6. /\ r \in Seq(SteamIDs \cup {Cut})
          /\ Len(r) = 1 + (z - a)
          /\ \A i \in 1..(1 + (z - a)) : r[i] = IF i <= 1 THEN Cut ELSE t[i - 1]
      <3>1. /\ r \in Seq(SteamIDs \cup {Cut})
            /\ Len(r) = Len(<<Cut>>) + Len(t)
            /\ \A i \in 1..(Len(<<Cut>>) + Len(t)) :
                  r[i] = IF i <= Len(<<Cut>>) THEN <<Cut>>[i] ELSE t[i - Len(<<Cut>>)]
        BY <2>3, <2>4, <2>5, ConcatProperties
      <3>2. Len(<<Cut>>) = 1 /\ Len(t) = z - a
        BY <2>2, <2>4
      <3>3. ASSUME NEW i \in 1..(1 + (z - a)) PROVE r[i] = IF i <= 1 THEN Cut ELSE t[i - 1]
        <4>1. r[i] = IF i <= 1 THEN <<Cut>>[i] ELSE t[i - 1]
          BY <3>1, <3>2
        <4>2. i <= 1 => i = 1
          BY <1>2
        <4> QED
          BY <2>4, <4>1, <4>2
      <3> QED
        BY <3>1, <3>2, <3>3
    <2>7. DOMAIN r = 1..(1 + (z - a))
      BY <2>6, LenProperties
    <2>8. ASSUME NEW id \in Players(r) PROVE \E i \in a..z : id = ids[i]
      <3>1. PICK j \in 1..(1 + (z - a)) : id = r[j] /\ id # Cut
        BY <2>7, <2>8 DEF Players, ToSet
      <3>2. id = t[j - 1] /\ ~ j <= 1
        BY <2>6, <3>1
      <3>3. j - 1 \in 1..(z - a) /\ a + (j - 1) \in a..z
        BY <1>2, <3>2
      <3> QED
        BY <2>2, <3>2, <3>3
    <2>9. ASSUME NEW i \in a..z, i # a PROVE ids[i] \in Players(r)
      <3>1. i - a \in 1..(z - a) /\ a + (i - a) = i
        BY <1>2, <2>9
      <3>2. (i - a) + 1 \in 1..(1 + (z - a)) /\ ~ (i - a) + 1 <= 1 /\ ((i - a) + 1) - 1 = i - a
        BY <1>2, <3>1
      <3>3. r[(i - a) + 1] = t[i - a] /\ t[i - a] = ids[i]
        BY <2>2, <2>6, <3>1, <3>2
      <3>4. ids[i] \in ToSet(r)
        BY <2>7, <3>2, <3>3 DEF ToSet
      <3>5. ids[i] # Cut
        BY <1>2, <1>4
      <3> QED
        BY <3>4, <3>5 DEF Players
    <2> QED
      BY <1>7, <2>6, <2>8, <2>9 DEF a, z, r, c
  <1> QED
    BY <1>6, <1>7

LEMMA RequestsAre ==
    ASSUME NEW ids \in Seq(SteamIDs)
    PROVE  /\ Requests(ids) \in Seq(Seq(SteamIDs \cup {Cut}))
           /\ DOMAIN Requests(ids) = 1..RequestCount(ids)
           /\ RequestCount(ids) \in Nat
  <1> DEFINE c == RequestCount(ids)
  <1>1. c \in Nat
    BY SteamAssumption, LenProperties, CountIs DEF RequestCount
  <1>2. Requests(ids) = [j \in 1..c |-> Requests(ids)[j]]
    BY DEF Requests, RequestCount
  <1>3. \A j \in 1..c : Requests(ids)[j] \in Seq(SteamIDs \cup {Cut})
    BY RequestIs
  <1>4. Requests(ids) \in [1..c -> Seq(SteamIDs \cup {Cut})]
    BY <1>2, <1>3
  <1> QED
    BY <1>1, <1>2, <1>4, SeqDef

\* The requests name only ids of the list, and when the list names no id twice,
\* nor do the requests together.
LEMMA RequestsApart ==
    ASSUME NEW ids \in Seq(SteamIDs),
           \A i, j \in DOMAIN ids : ids[i] = ids[j] => i = j
    PROVE  /\ \A k \in DOMAIN Requests(ids) : Players(Requests(ids)[k]) \subseteq ToSet(ids)
           /\ \A k, l \in DOMAIN Requests(ids) :
                 k # l => Players(Requests(ids)[k]) \cap Players(Requests(ids)[l]) = {}
  <1> DEFINE c == RequestCount(ids)
             n == Len(ids)
  <1>1. DOMAIN Requests(ids) = 1..c /\ c \in Nat /\ DOMAIN ids = 1..n /\ n \in Nat
    BY RequestsAre, LenProperties
  <1>2. ASSUME NEW k \in 1..c, NEW id \in Players(Requests(ids)[k])
        PROVE  \E i \in 1..n : id = ids[i] /\ From(k) <= i /\ i <= k * BatchSize
    <2>1. /\ From(k) \in 1..n /\ UpTo(ids, k) \in From(k)..n
          /\ UpTo(ids, k) <= k * BatchSize
      BY RequestBounds
    <2>2. PICK i \in From(k)..UpTo(ids, k) : id = ids[i]
      BY <1>2, RequestIs
    <2>3. k * BatchSize \in Int
      BY SteamAssumption, <1>1, Product
    <2>4. i \in 1..n /\ From(k) <= i /\ i <= k * BatchSize
      <3> HIDE DEF n
      <3> QED
        BY <1>1, <2>1, <2>2, <2>3
    <2> QED
      BY <2>2, <2>4
  <1>3. ASSUME NEW k \in 1..c, NEW l \in 1..c, k < l
        PROVE  Players(Requests(ids)[k]) \cap Players(Requests(ids)[l]) = {}
    <2> SUFFICES ASSUME NEW id, id \in Players(Requests(ids)[k]), id \in Players(Requests(ids)[l])
                 PROVE  FALSE
      OBVIOUS
    <2>1. PICK i \in 1..n : id = ids[i] /\ From(k) <= i /\ i <= k * BatchSize
      BY <1>2
    <2>2. PICK j \in 1..n : id = ids[j] /\ From(l) <= j /\ j <= l * BatchSize
      BY <1>2
    <2>3. i = j
      BY <1>1, <2>1, <2>2
    <2>4. /\ k * BatchSize \in Int /\ l * BatchSize \in Int
          /\ k * BatchSize <= l * BatchSize - BatchSize
          /\ (l - 1) * BatchSize = l * BatchSize - BatchSize
      BY <1>1, <1>3, SteamAssumption, Product
    <2>5. k * BatchSize < From(l)
      BY <2>4, SteamAssumption DEF From
    <2>6. From(l) \in Int
      BY <2>4, SteamAssumption DEF From
    <2> HIDE DEF n
    <2> QED
      BY <1>1, <2>1, <2>2, <2>3, <2>4, <2>5, <2>6
  <1>4. ASSUME NEW k \in 1..c PROVE Players(Requests(ids)[k]) \subseteq ToSet(ids)
    BY <1>1, <1>2 DEF ToSet
  <1>5. ASSUME NEW k \in 1..c, NEW l \in 1..c, k # l
        PROVE  Players(Requests(ids)[k]) \cap Players(Requests(ids)[l]) = {}
    <2>1. k < l \/ l < k
      BY <1>1, <1>5
    <2> QED
      BY <1>3, <2>1
  <1> QED
    BY <1>1, <1>4, <1>5

\* The first ids of the full requests.
CutOff(ids) ==
    {ids[i] : i \in {j \in DOMAIN ids : (j - 1) % BatchSize = 0 /\ j + BatchSize <= Len(ids)}}

\* An id of the list that no request names was the first of a full one.
LEMMA RequestsCover ==
    ASSUME NEW ids \in Seq(SteamIDs), NEW id \in ToSet(ids)
    PROVE  \/ id \in CutOff(ids)
           \/ \E k \in DOMAIN Requests(ids) : id \in Players(Requests(ids)[k])
  <1> DEFINE c == RequestCount(ids)
             n == Len(ids)
  <1>1. DOMAIN Requests(ids) = 1..c /\ c \in Nat /\ DOMAIN ids = 1..n /\ n \in Nat
    BY RequestsAre, LenProperties
  <1>2. PICK i \in 1..n : id = ids[i]
    BY <1>1 DEF ToSet
  <1>3. PICK k \in Nat \ {0} : (k - 1) * BatchSize < i /\ i <= k * BatchSize
    <2>1. i \in Nat \ {0}
      BY <1>1
    <2> QED
      BY <2>1, SteamAssumption, BlockIs
  <1>4. k * BatchSize \in Int /\ c * BatchSize \in Int /\ (k - 1) * BatchSize = k * BatchSize - BatchSize
    BY <1>1, <1>3, SteamAssumption, Product
  <1>5. k \in 1..c
    <2>1. n <= c * BatchSize
      BY <1>1, SteamAssumption, CountIs DEF RequestCount
    <2> HIDE DEF c, n
    <2>2. c < k => c * BatchSize <= k * BatchSize - BatchSize
      <3>1. c \in Int /\ k \in Int /\ BatchSize \in Nat \ {0}
        BY <1>1, SteamAssumption
      <3> QED
        BY <3>1, Product
    <2>3. ~ c < k
      <3>1. i \in Int /\ n \in Int /\ i <= n
        BY <1>1
      <3> QED
        <4> SUFFICES ASSUME c < k PROVE FALSE
          OBVIOUS
        <4> DEFINE p == c * BatchSize
                   q == (k - 1) * BatchSize
        <4>1. p <= q
          BY <1>4, <2>2
        <4>2. q < i /\ n <= p /\ p \in Int /\ q \in Int
          <5>1. k * BatchSize - BatchSize \in Int
            BY <1>4, SteamAssumption
          <5> QED
            BY <1>3, <1>4, <2>1, <5>1
        <4> HIDE DEF p, q
        <4> QED
          BY <3>1, <4>1, <4>2
    <2> QED
      BY <1>1, <1>3, <2>3
  <1>6. i \in From(k)..UpTo(ids, k)
    <2>1. From(k) <= i /\ From(k) \in Int
      BY <1>1, <1>3, <1>4, SteamAssumption DEF From
    <2>2. i <= UpTo(ids, k) /\ UpTo(ids, k) \in Int
      BY <1>1, <1>2, <1>3, <1>4 DEF UpTo
    <2> HIDE DEF c, n
    <2> QED
      BY <1>1, <1>2, <2>1, <2>2
  <1>7. \/ ids[i] \in Players(Requests(ids)[k])
        \/ k # c /\ i = From(k)
    BY <1>5, <1>6, RequestIs
  <1>8. ASSUME k # c, i = From(k) PROVE id \in CutOff(ids)
    <2>1. (i - 1) % BatchSize = 0 /\ i + BatchSize <= n
      BY <1>5, <1>8, RequestBounds
    <2> QED
      BY <1>1, <1>2, <2>1 DEF CutOff
  <1> QED
    BY <1>1, <1>2, <1>5, <1>7, <1>8

LEMMA SmallRequestsCover ==
    ASSUME NEW ids \in Seq(SteamIDs), NEW id \in ToSet(ids), ~ Len(ids) > BatchSize
    PROVE  \E k \in DOMAIN Requests(ids) : id \in Players(Requests(ids)[k])
  <1>1. DOMAIN ids = 1..Len(ids) /\ Len(ids) \in Nat /\ BatchSize \in Nat
    BY LenProperties, SteamAssumption
  <1>2. ~\E j \in DOMAIN ids : j + BatchSize <= Len(ids)
    BY <1>1
  <1>3. id \notin CutOff(ids)
    BY <1>2 DEF CutOff
  <1> QED
    BY <1>3, RequestsCover

-----------------------------------------------------------------------------
(* The invariants *)

Query == [friends : BOOLEAN, oneway : BOOLEAN, steamIDs : Seq(SteamIDs)]

SteamTypes ==
    /\ steam_run_flag \in BOOLEAN /\ rcon \in BOOLEAN
    /\ query_queue \in Seq(Query) /\ batch \in Seq(Query)
    /\ thread \in {"down", "asleep", "copied", "friends", "bans", "answers", "dead"}
    /\ friendsTodo \in Seq(SteamIDs)
    /\ bansTodo \in Seq(Seq(SteamIDs \cup {Cut}))
    /\ SteamVacBans_Cache \subseteq SteamIDs /\ SteamFriends_Cache \subseteq SteamIDs
    /\ addBan \in [SteamIDs -> Nat] /\ expired \in [SteamIDs -> Nat]
    /\ excused \in [bans : SUBSET SteamIDs, friends : SUBSET SteamIDs]
    /\ round \in [large : BOOLEAN, banKnown : SUBSET SteamIDs]

\* Whoever was banned is still in the cache, or has expired since: an id is
\* asked for only while the cache does not have it, by one request of a round.
BansCounted ==
    \A id \in SteamIDs : addBan[id] <= expired[id] + IF id \in SteamVacBans_Cache THEN 1 ELSE 0

BansApart ==
    thread = "bans" =>
        /\ \A k \in DOMAIN bansTodo : Players(bansTodo[k]) \cap SteamVacBans_Cache = {}
        /\ \A k, l \in DOMAIN bansTodo :
              k # l => Players(bansTodo[k]) \cap Players(bansTodo[l]) = {}

BansInv == SteamTypes /\ BansCounted /\ BansApart

\* Once its phase has begun, an id of the batch is known, excused or still to
\* be asked for; a large round may leave ids out, and the friends of an id whose
\* ban is known are not asked for.
FriendsCovered ==
    thread \in {"friends", "bans", "answers"} =>
        \A id \in Wanted(TRUE) : \/ id \in SteamFriends_Cache \cup excused.friends
                                 \/ id \in round.banKnown
                                 \/ thread = "friends" /\ id \in ToSet(friendsTodo)

BansCovered ==
    thread \in {"bans", "answers"} /\ ~round.large =>
        \A id \in Wanted(FALSE) :
            \/ id \in SteamVacBans_Cache \cup excused.bans
            \/ thread = "bans" /\ \E k \in DOMAIN bansTodo : id \in Players(bansTodo[k])

\* Nothing has been answered yet in a round that still asks.
NotYetAnswered == thread \in {"copied", "friends", "bans"} => answer = NoAnswer

AnswersInv == SteamTypes /\ FriendsCovered /\ BansCovered /\ NotYetAnswered /\ SmallRoundsRight

-----------------------------------------------------------------------------
(* Types *)

LEMMA QueryTyped ==
    ASSUME NEW c \in Calls, Accepts(c)
    PROVE  QueryOf(c) \in Query
  <1>1. c.fields \in Seq(SteamIDs \cup {NotNumber})
    BY SteamAssumption
  <1>2. DOMAIN c.fields = 1..Len(c.fields) /\ Len(c.fields) \in Nat
        /\ \A i \in 1..Len(c.fields) : c.fields[i] \in SteamIDs \cup {NotNumber}
    BY <1>1, LenProperties, ElementOfSeq
  <1>3. \A i \in 1..Len(c.fields) : c.fields[i] \in SteamIDs
    BY <1>2 DEF Accepts, IsNumber
  <1>4. c.fields \in [1..Len(c.fields) -> SteamIDs]
    BY <1>1, <1>2, <1>3, LenProperties
  <1>5. c.fields \in Seq(SteamIDs)
    BY <1>2, <1>4, SeqDef
  <1> QED
    BY <1>5 DEF QueryOf, Query

LEMMA WantedIds ==
    ASSUME SteamTypes, NEW f \in BOOLEAN
    PROVE  Wanted(f) \subseteq SteamIDs
  <1> SUFFICES ASSUME NEW i \in DOMAIN batch PROVE ToSet(batch[i].steamIDs) \subseteq SteamIDs
    BY DEF Wanted
  <1>1. batch \in Seq(Query)
    BY DEF SteamTypes
  <1>2. batch[i] \in Query
    BY <1>1, LenProperties, ElementOfSeq
  <1>3. batch[i].steamIDs \in Seq(SteamIDs)
    BY <1>2 DEF Query
  <1> QED
    BY <1>3, LenProperties, ElementOfSeq DEF ToSet

\* The lists a round begins its two phases with.
LEMMA FriendsAsked ==
    ASSUME SteamTypes
    PROVE  /\ Sorted(Unknown(Wanted(TRUE))) \in Seq(SteamIDs)
           /\ ToSet(Sorted(Unknown(Wanted(TRUE)))) = Wanted(TRUE) \ SteamVacBans_Cache
  <1>1. Unknown(Wanted(TRUE)) = Wanted(TRUE) \ SteamVacBans_Cache
    BY DEF Unknown
  <1>2. Unknown(Wanted(TRUE)) \subseteq SteamIDs
    BY <1>1, WantedIds
  <1> QED
    BY <1>1, <1>2, SortedIs

LEMMA BansAsked ==
    ASSUME SteamTypes, NEW ids, ids = Sorted(Unknown(Wanted(FALSE)))
    PROVE  /\ ids \in Seq(SteamIDs)
           /\ ToSet(ids) = Wanted(FALSE) \ SteamVacBans_Cache
           /\ \A i, j \in DOMAIN ids : ids[i] = ids[j] => i = j
           /\ Requests(ids) \in Seq(Seq(SteamIDs \cup {Cut}))
  <1>1. Unknown(Wanted(FALSE)) = Wanted(FALSE) \ SteamVacBans_Cache
    BY DEF Unknown
  <1>2. Unknown(Wanted(FALSE)) \subseteq SteamIDs
    BY <1>1, WantedIds
  <1>3. /\ ids \in Seq(SteamIDs)
        /\ ToSet(ids) = Wanted(FALSE) \ SteamVacBans_Cache
        /\ \A i, j \in DOMAIN ids : ids[i] = ids[j] => i = j
    BY <1>1, <1>2, SortedIs
  <1> QED
    BY <1>3, RequestsAre

LEMMA PlayersIds ==
    ASSUME NEW request \in Seq(SteamIDs \cup {Cut})
    PROVE  Players(request) \subseteq SteamIDs
  BY LenProperties, ElementOfSeq DEF Players, ToSet

LEMMA SteamTypesInit == Init => SteamTypes
  <1> SUFFICES ASSUME Init PROVE SteamTypes
    OBVIOUS
  <1>1. steam_run_flag \in BOOLEAN /\ rcon \in BOOLEAN
    BY Zenon DEF Init
  <1>2. /\ query_queue \in Seq(Query) /\ batch \in Seq(Query)
        /\ friendsTodo \in Seq(SteamIDs)
        /\ bansTodo \in Seq(Seq(SteamIDs \cup {Cut}))
    BY EmptySeq, Zenon DEF Init
  <1>3. addBan \in [SteamIDs -> Nat] /\ expired \in [SteamIDs -> Nat]
    BY DEF Init
  <1>4. excused \in [bans : SUBSET SteamIDs, friends : SUBSET SteamIDs]
    BY DEF Init, Nobody
  <1>6. round \in [large : BOOLEAN, banKnown : SUBSET SteamIDs]
    BY DEF Init, NoRound
  <1>5. /\ thread \in {"down", "asleep", "copied", "friends", "bans", "answers", "dead"}
        /\ SteamVacBans_Cache \subseteq SteamIDs /\ SteamFriends_Cache \subseteq SteamIDs
    BY DEF Init
  <1> QED
    BY <1>1, <1>2, <1>3, <1>4, <1>5, <1>6 DEF SteamTypes

LEMMA SteamTypesStep == SteamTypes /\ [Next]_vars => SteamTypes'
  <1> SUFFICES ASSUME SteamTypes, [Next]_vars PROVE SteamTypes'
    OBVIOUS
  <1>1. ASSUME NEW c \in Calls, AddQuery(c) PROVE SteamTypes'
    <2>1. query_queue' \in Seq(Query)
      <3>1. query_queue \in Seq(Query)
        BY DEF SteamTypes
      <3>2. Accepts(c) => Append(query_queue, QueryOf(c)) \in Seq(Query)
        BY <3>1, QueryTyped, AppendProperties
      <3> QED
        BY <1>1, <3>1, <3>2 DEF AddQuery
    <2> QED
      BY <1>1, <2>1 DEF AddQuery, SteamTypes
  <1>2. CASE SteamUp
    BY <1>2 DEF SteamUp, SteamTypes
  <1>3. CASE Wake
    BY <1>3, EmptySeq DEF Wake, SteamTypes, Nobody, NoRound
  <1>4. CASE StartFriends
    <2>1. friendsTodo' \in Seq(SteamIDs)
      BY <1>4, FriendsAsked DEF StartFriends
    <2>2. Wanted(TRUE) \cap SteamVacBans_Cache \subseteq SteamIDs
      BY DEF SteamTypes
    <2> QED
      BY <1>4, <2>1, <2>2 DEF StartFriends, SteamTypes
  <1>5. CASE AskFriends
    <2>1. friendsTodo' \in Seq(SteamIDs) /\ Head(friendsTodo) \in SteamIDs
      BY <1>5, HeadTailProperties DEF AskFriends, SteamTypes
    <2>2. /\ SteamFriends_Cache' \subseteq SteamIDs
          /\ excused' \in [bans : SUBSET SteamIDs, friends : SUBSET SteamIDs]
      <3>1. CASE SteamFriends_Cache' = SteamFriends_Cache \cup {Head(friendsTodo)} /\ UNCHANGED excused
        BY <2>1, <3>1 DEF SteamTypes
      <3>2. CASE /\ excused' = [excused EXCEPT !.friends = @ \cup {Head(friendsTodo)}]
                 /\ UNCHANGED SteamFriends_Cache
        BY <2>1, <3>2 DEF SteamTypes
      <3> QED
        BY <1>5, <3>1, <3>2 DEF AskFriends
    <2> QED
      BY <1>5, <2>1, <2>2 DEF AskFriends, SteamTypes
  <1>6. CASE StartBans
    <2> DEFINE ids == Sorted(Unknown(Wanted(FALSE)))
    <2>1. Requests(ids) \in Seq(Seq(SteamIDs \cup {Cut}))
      BY BansAsked
    <2>2. bansTodo' = Requests(ids) /\ round' = [round EXCEPT !.large = Len(ids) > BatchSize]
      BY <1>6 DEF StartBans
    <2> DEFINE more == Len(ids) > BatchSize
    <2>3. more \in BOOLEAN
      OBVIOUS
    <2> HIDE DEF ids, more
    <2>4. round' \in [large : BOOLEAN, banKnown : SUBSET SteamIDs]
      <3>1. round' = [round EXCEPT !.large = more]
        BY <2>2 DEF more
      <3> QED
        BY <2>3, <3>1 DEF SteamTypes
    <2> QED
      BY <1>6, <2>1, <2>2, <2>4 DEF StartBans, SteamTypes
  <1>7. CASE AskBans
    <2> DEFINE p == Players(Head(bansTodo))
    <2>1. bansTodo' \in Seq(Seq(SteamIDs \cup {Cut})) /\ Head(bansTodo) \in Seq(SteamIDs \cup {Cut})
      BY <1>7, HeadTailProperties DEF AskBans, SteamTypes
    <2>2. p \subseteq SteamIDs
      BY <2>1, PlayersIds
    <2>3. \/ /\ SteamVacBans_Cache' = SteamVacBans_Cache \cup p
             /\ addBan' = [id \in SteamIDs |->
                              addBan[id] + IF id \in BansThroughRcon(p) THEN 1 ELSE 0]
             /\ UNCHANGED excused
          \/ /\ excused' = [excused EXCEPT !.bans = @ \cup p]
             /\ UNCHANGED <<SteamVacBans_Cache, addBan>>
      BY <1>7 DEF AskBans, Players
    <2> HIDE DEF p
    <2>4. /\ SteamVacBans_Cache' \subseteq SteamIDs /\ addBan' \in [SteamIDs -> Nat]
          /\ excused' \in [bans : SUBSET SteamIDs, friends : SUBSET SteamIDs]
      <3>1. CASE /\ SteamVacBans_Cache' = SteamVacBans_Cache \cup p
                 /\ addBan' = [id \in SteamIDs |->
                                  addBan[id] + IF id \in BansThroughRcon(p) THEN 1 ELSE 0]
                 /\ UNCHANGED excused
        BY <2>2, <3>1 DEF SteamTypes
      <3>2. CASE /\ excused' = [excused EXCEPT !.bans = @ \cup p]
                 /\ UNCHANGED <<SteamVacBans_Cache, addBan>>
        BY <2>2, <3>2 DEF SteamTypes
      <3> QED
        BY <2>3, <3>1, <3>2
    <2> QED
      BY <1>7, <2>1, <2>4 DEF AskBans, SteamTypes
  <1>8. CASE StartAnswers
    BY <1>8 DEF StartAnswers, SteamTypes
  <1>9. CASE Answer
    <2>1. batch' \in Seq(Query)
      BY <1>9, HeadTailProperties DEF Answer, SteamTypes
    <2> QED
      BY <1>9, <2>1 DEF Answer, SteamTypes
  <1>10. CASE Sleep
    BY <1>10 DEF Sleep, SteamTypes
  <1>11. CASE Throw
    BY <1>11 DEF Throw, SteamTypes
  <1>12. ASSUME NEW id \in SteamIDs, ExpireBan(id) PROVE SteamTypes'
    <2>1. expired' \in [SteamIDs -> Nat]
      BY <1>12 DEF ExpireBan, SteamTypes
    <2>2. excused' \in [bans : SUBSET SteamIDs, friends : SUBSET SteamIDs]
      BY <1>12 DEF ExpireBan, SteamTypes
    <2> QED
      BY <1>12, <2>1, <2>2 DEF ExpireBan, SteamTypes
  <1>13. ASSUME NEW id \in SteamIDs, ExpireFriends(id) PROVE SteamTypes'
    <2>1. excused' \in [bans : SUBSET SteamIDs, friends : SUBSET SteamIDs]
      BY <1>13 DEF ExpireFriends, SteamTypes
    <2> QED
      BY <1>13, <2>1 DEF ExpireFriends, SteamTypes
  <1>14. CASE UNCHANGED vars
    BY <1>14 DEF vars, SteamTypes
  <1> QED
    BY <1>1, <1>2, <1>3, <1>4, <1>5, <1>6, <1>7, <1>8, <1>9, <1>10, <1>11, <1>12, <1>13, <1>14
       DEF Next

LEMMA SteamTyped == Spec => []SteamTypes
  BY SteamTypesInit, SteamTypesStep, PTL DEF Spec

-----------------------------------------------------------------------------
(* Bans *)

LEMMA BansInit == Init => BansInv
  <1> SUFFICES ASSUME Init PROVE BansCounted /\ BansApart
    BY SteamTypesInit DEF BansInv
  <1>1. BansCounted
    BY DEF Init, BansCounted
  <1>2. BansApart
    BY DEF Init, BansApart
  <1> QED
    BY <1>1, <1>2

\* A step that leaves the cache, the bans and the requests alone.
LEMMA BansKept ==
    ASSUME BansInv, UNCHANGED <<SteamVacBans_Cache, addBan, expired>>,
           thread' = "bans" => thread = "bans" /\ bansTodo' = bansTodo
    PROVE  BansCounted' /\ BansApart'
  <1>1. BansCounted'
    BY DEF BansInv, BansCounted
  <1>2. BansApart'
    BY DEF BansInv, BansApart
  <1> QED
    BY <1>1, <1>2

LEMMA BansStartBans == BansInv /\ StartBans => BansCounted' /\ BansApart'
  <1> SUFFICES ASSUME BansInv, StartBans PROVE BansCounted' /\ BansApart'
    OBVIOUS
  <1> PICK ids : ids = Sorted(Unknown(Wanted(FALSE)))
    OBVIOUS
  <1>1. SteamTypes /\ bansTodo' = Requests(ids) /\ UNCHANGED <<SteamVacBans_Cache, addBan, expired>>
    BY DEF BansInv, StartBans
  <1>2. /\ ids \in Seq(SteamIDs)
        /\ ToSet(ids) \cap SteamVacBans_Cache = {}
        /\ \A i, j \in DOMAIN ids : ids[i] = ids[j] => i = j
    BY <1>1, BansAsked
  <1>3. BansCounted'
    BY <1>1 DEF BansInv, BansCounted
  <1>4. BansApart'
    BY <1>1, <1>2, RequestsApart DEF BansApart
  <1> QED
    BY <1>3, <1>4

LEMMA BansAskBans == BansInv /\ AskBans => BansCounted' /\ BansApart'
  <1> SUFFICES ASSUME BansInv, AskBans PROVE BansCounted' /\ BansApart'
    OBVIOUS
  <1> DEFINE p == Players(Head(bansTodo))
             n == Len(bansTodo)
  <1>1. /\ SteamTypes /\ BansCounted /\ BansApart /\ thread = "bans"
        /\ bansTodo # <<>> /\ bansTodo' = Tail(bansTodo)
        /\ bansTodo \in Seq(Seq(SteamIDs \cup {Cut}))
        /\ UNCHANGED <<expired, thread>>
    BY DEF BansInv, AskBans, SteamTypes
  <1>2. /\ DOMAIN bansTodo = 1..n /\ n \in Nat \ {0}
        /\ DOMAIN bansTodo' = 1..(n - 1)
        /\ \A k \in 1..(n - 1) : bansTodo'[k] = bansTodo[k + 1]
        /\ Head(bansTodo) = bansTodo[1]
    BY <1>1, HeadTailProperties, LenProperties, EmptySeq
  <1>3. p \cap SteamVacBans_Cache = {}
    <2>1. 1 \in DOMAIN bansTodo
      BY <1>2
    <2> QED
      BY <1>1, <1>2, <2>1 DEF BansApart
  <1>4. \A k \in 1..(n - 1) : k + 1 \in DOMAIN bansTodo /\ 1 \in DOMAIN bansTodo /\ k + 1 # 1
    BY <1>2
  <1>5. \A k \in 1..(n - 1) : /\ Players(bansTodo'[k]) \cap SteamVacBans_Cache = {}
                              /\ Players(bansTodo'[k]) \cap p = {}
    BY <1>1, <1>2, <1>4 DEF BansApart
  <1>6. \A k, l \in 1..(n - 1) :
            k # l => Players(bansTodo'[k]) \cap Players(bansTodo'[l]) = {}
    <2> TAKE k, l \in 1..(n - 1)
    <2> HAVE k # l
    <2>1. k + 1 # l + 1
      BY <1>2
    <2> HIDE DEF n
    <2> QED
      BY <1>1, <1>2, <1>4, <2>1 DEF BansApart
  <1>7. \/ /\ SteamVacBans_Cache' = SteamVacBans_Cache \cup p
           /\ addBan' = [id \in SteamIDs |->
                            addBan[id] + IF id \in BansThroughRcon(p) THEN 1 ELSE 0]
        \/ UNCHANGED <<SteamVacBans_Cache, addBan>>
    BY DEF AskBans, Players
  <1> HIDE DEF p, n
  <1>8. BansApart'
    <2>1. SteamVacBans_Cache' \subseteq SteamVacBans_Cache \cup p
      BY <1>7
    <2> QED
      BY <1>2, <1>5, <1>6, <2>1 DEF BansApart
  <1>9. BansCounted'
    <2>1. CASE /\ SteamVacBans_Cache' = SteamVacBans_Cache \cup p
               /\ addBan' = [id \in SteamIDs |->
                                addBan[id] + IF id \in BansThroughRcon(p) THEN 1 ELSE 0]
      <3> SUFFICES ASSUME NEW id \in SteamIDs
                   PROVE  addBan'[id] <= expired'[id] + IF id \in SteamVacBans_Cache' THEN 1 ELSE 0
        BY DEF BansCounted
      <3>1. /\ addBan[id] \in Nat /\ expired[id] \in Nat /\ expired' = expired
            /\ addBan[id] <= expired[id] + IF id \in SteamVacBans_Cache THEN 1 ELSE 0
        BY <1>1 DEF SteamTypes, BansCounted
      <3>2. addBan'[id] = addBan[id] + IF id \in BansThroughRcon(p) THEN 1 ELSE 0
        BY <2>1
      <3>3. id \in BansThroughRcon(p) => id \in p
        BY DEF BansThroughRcon
      <3>4. CASE id \in p
        BY <1>3, <2>1, <3>1, <3>2, <3>4
      <3>5. CASE id \notin p
        BY <2>1, <3>1, <3>2, <3>3, <3>5
      <3> QED
        BY <3>4, <3>5
    <2>2. CASE UNCHANGED <<SteamVacBans_Cache, addBan>>
      BY <1>1, <2>2 DEF BansCounted
    <2> QED
      BY <1>7, <2>1, <2>2
  <1> QED
    BY <1>8, <1>9

LEMMA BansExpire ==
    ASSUME BansInv, NEW id \in SteamIDs, ExpireBan(id)
    PROVE  BansCounted' /\ BansApart'
  <1>1. /\ SteamVacBans_Cache' = SteamVacBans_Cache \ {id} /\ id \in SteamVacBans_Cache
        /\ expired' = [expired EXCEPT ![id] = expired[id] + 1]
        /\ UNCHANGED <<thread, bansTodo, addBan>>
    BY DEF ExpireBan
  <1>2. BansApart'
    BY <1>1 DEF BansInv, BansApart
  <1>3. BansCounted'
    <2> SUFFICES ASSUME NEW i \in SteamIDs
                 PROVE  addBan[i] <= expired'[i] + IF i \in SteamVacBans_Cache' THEN 1 ELSE 0
      BY <1>1 DEF BansCounted
    <2>1. /\ addBan[i] \in Nat /\ expired[i] \in Nat /\ expired \in [SteamIDs -> Nat]
          /\ addBan[i] <= expired[i] + IF i \in SteamVacBans_Cache THEN 1 ELSE 0
      BY DEF BansInv, SteamTypes, BansCounted
    <2>2. CASE i = id
      <3>1. expired'[i] = expired[i] + 1
        BY <1>1, <2>1, <2>2
      <3> QED
        BY <1>1, <2>1, <2>2, <3>1
    <2>3. CASE i # id
      <3>1. expired'[i] = expired[i]
        BY <1>1, <2>1, <2>3
      <3> QED
        BY <1>1, <2>1, <2>3, <3>1
    <2> QED
      BY <2>2, <2>3
  <1> QED
    BY <1>2, <1>3

LEMMA BansStep == BansInv /\ [Next]_vars => BansInv'
  <1> SUFFICES ASSUME BansInv, [Next]_vars PROVE BansCounted' /\ BansApart'
    BY SteamTypesStep DEF BansInv
  <1>1. ASSUME NEW c \in Calls, AddQuery(c) PROVE BansCounted' /\ BansApart'
    BY <1>1, BansKept DEF AddQuery
  <1>2. CASE SteamUp
    BY <1>2, BansKept DEF SteamUp
  <1>3. CASE Wake
    BY <1>3, BansKept DEF Wake
  <1>4. CASE StartFriends
    BY <1>4, BansKept DEF StartFriends
  <1>5. CASE AskFriends
    BY <1>5, BansKept DEF AskFriends
  <1>6. CASE StartBans
    BY <1>6, BansStartBans
  <1>7. CASE AskBans
    BY <1>7, BansAskBans
  <1>8. CASE StartAnswers
    BY <1>8, BansKept DEF StartAnswers
  <1>9. CASE Answer
    BY <1>9, BansKept DEF Answer
  <1>10. CASE Sleep
    BY <1>10, BansKept DEF Sleep
  <1>11. CASE Throw
    BY <1>11, BansKept DEF Throw
  <1>12. ASSUME NEW id \in SteamIDs, ExpireBan(id) PROVE BansCounted' /\ BansApart'
    BY <1>12, BansExpire
  <1>13. ASSUME NEW id \in SteamIDs, ExpireFriends(id) PROVE BansCounted' /\ BansApart'
    BY <1>13, BansKept DEF ExpireFriends
  <1>14. CASE UNCHANGED vars
    BY <1>14, BansKept DEF vars
  <1> QED
    BY <1>1, <1>2, <1>3, <1>4, <1>5, <1>6, <1>7, <1>8, <1>9, <1>10, <1>11, <1>12, <1>13, <1>14
       DEF Next

\* A player is banned through RCon at most once for every time its entry is
\* fetched anew, whatever queries name it: updateSteamBans counts on the cache
\* and on the sorted list of ids for this, not on a memory of its bans.
THEOREM BansAreNotRepeated == Spec => []BannedOnce
  <1>1. BansInv => BannedOnce
    <2> SUFFICES ASSUME BansInv, NEW id \in SteamIDs PROVE addBan[id] <= 1 + expired[id]
      BY DEF BannedOnce
    <2>1. /\ addBan[id] \in Nat /\ expired[id] \in Nat
          /\ addBan[id] <= expired[id] + IF id \in SteamVacBans_Cache THEN 1 ELSE 0
      BY DEF BansInv, SteamTypes, BansCounted
    <2> QED
      BY <2>1
  <1> QED
    BY <1>1, BansInit, BansStep, PTL DEF Spec

-----------------------------------------------------------------------------
(* Answers *)

LEMMA AnswersInit == Init => AnswersInv
  <1> SUFFICES ASSUME Init
               PROVE  FriendsCovered /\ BansCovered /\ NotYetAnswered /\ SmallRoundsRight
    BY SteamTypesInit DEF AnswersInv
  <1>1. FriendsCovered /\ BansCovered /\ NotYetAnswered
    BY DEF Init, FriendsCovered, BansCovered, NotYetAnswered
  <1>2. SmallRoundsRight
    BY DEF Init, SmallRoundsRight, NoAnswer
  <1> QED
    BY <1>1, <1>2

\* Excusing more ids, with the answer as it was, keeps the answer right.
LEMMA RightKept ==
    ASSUME SmallRoundsRight, answer' = answer, round' = round,
           excused.friends \subseteq excused'.friends, excused.bans \subseteq excused'.bans
    PROVE  SmallRoundsRight'
  BY DEF SmallRoundsRight, TrueFor

LEMMA NobodyWrong ==
    ASSUME answer' = NoAnswer
    PROVE  SmallRoundsRight'
  BY DEF SmallRoundsRight, NoAnswer

\* A step that knows and excuses no fewer ids, for the same batch.
LEMMA CoveredKept ==
    ASSUME AnswersInv, batch' = batch, round' = round,
           SteamFriends_Cache \cup excused.friends
               \subseteq SteamFriends_Cache' \cup excused'.friends,
           SteamVacBans_Cache \cup excused.bans \subseteq SteamVacBans_Cache' \cup excused'.bans,
           thread' \in {"friends", "bans", "answers"} => thread' = thread,
           friendsTodo' = friendsTodo, bansTodo' = bansTodo
    PROVE  FriendsCovered' /\ BansCovered'
  <1>1. Wanted(TRUE)' = Wanted(TRUE) /\ Wanted(FALSE)' = Wanted(FALSE)
    BY DEF Wanted
  <1>2. FriendsCovered'
    BY <1>1 DEF AnswersInv, FriendsCovered
  <1>3. BansCovered'
    BY <1>1 DEF AnswersInv, BansCovered
  <1> QED
    BY <1>2, <1>3

\* A step that touches neither the round nor what is known.
LEMMA AnswersKept ==
    ASSUME AnswersInv,
           UNCHANGED <<batch, friendsTodo, bansTodo, SteamVacBans_Cache, SteamFriends_Cache,
                       excused, round, answer>>,
           thread' \in {"copied", "friends", "bans", "answers"} => thread' = thread
    PROVE  FriendsCovered' /\ BansCovered' /\ NotYetAnswered' /\ SmallRoundsRight'
  <1>1. FriendsCovered' /\ BansCovered'
    BY CoveredKept
  <1>2. NotYetAnswered'
    BY DEF AnswersInv, NotYetAnswered
  <1>3. SmallRoundsRight'
    BY RightKept DEF AnswersInv
  <1> QED
    BY <1>1, <1>2, <1>3

LEMMA AnswersStartFriends ==
    ASSUME AnswersInv, StartFriends
    PROVE  FriendsCovered' /\ BansCovered' /\ NotYetAnswered' /\ SmallRoundsRight'
  <1>1. /\ thread' = "friends" /\ answer = NoAnswer /\ answer' = answer /\ batch' = batch
        /\ SteamTypes /\ SteamFriends_Cache' = SteamFriends_Cache
        /\ friendsTodo' = Sorted(Unknown(Wanted(TRUE)))
        /\ round'.banKnown = Wanted(TRUE) \cap SteamVacBans_Cache
    BY DEF AnswersInv, SteamTypes, StartFriends, NotYetAnswered
  <1>2. Wanted(TRUE)' = Wanted(TRUE)
    BY <1>1 DEF Wanted
  <1>3. ToSet(friendsTodo') = Wanted(TRUE) \ SteamVacBans_Cache
    BY <1>1, FriendsAsked
  <1>4. FriendsCovered'
    BY <1>1, <1>2, <1>3 DEF FriendsCovered
  <1>5. BansCovered' /\ NotYetAnswered'
    BY <1>1 DEF BansCovered, NotYetAnswered
  <1>6. SmallRoundsRight'
    BY <1>1, NobodyWrong
  <1> QED
    BY <1>4, <1>5, <1>6

LEMMA AnswersAskFriends ==
    ASSUME AnswersInv, AskFriends
    PROVE  FriendsCovered' /\ BansCovered' /\ NotYetAnswered' /\ SmallRoundsRight'
  <1>1. /\ thread = "friends" /\ thread' = thread /\ answer = NoAnswer /\ answer' = answer
        /\ batch' = batch /\ round' = round /\ friendsTodo # <<>> /\ friendsTodo' = Tail(friendsTodo)
        /\ friendsTodo \in Seq(SteamIDs) /\ FriendsCovered
    BY DEF AnswersInv, SteamTypes, AskFriends, NotYetAnswered
  <1>2. Wanted(TRUE)' = Wanted(TRUE)
    BY <1>1 DEF Wanted
  <1>3. \A id \in ToSet(friendsTodo) : id = Head(friendsTodo) \/ id \in ToSet(friendsTodo')
    <2> SUFFICES ASSUME NEW i \in 1..Len(friendsTodo), i # 1
                 PROVE  friendsTodo[i] \in ToSet(Tail(friendsTodo))
      <3>1. DOMAIN friendsTodo = 1..Len(friendsTodo)
        BY <1>1, LenProperties
      <3>2. Head(friendsTodo) = friendsTodo[1]
        BY <1>1
      <3> QED
        BY <1>1, <3>1, <3>2 DEF ToSet
    <2>1. /\ Tail(friendsTodo) \in Seq(SteamIDs) /\ Len(Tail(friendsTodo)) = Len(friendsTodo) - 1
          /\ Len(friendsTodo) \in Nat
          /\ \A k \in 1..Len(Tail(friendsTodo)) : Tail(friendsTodo)[k] = friendsTodo[k + 1]
      BY <1>1, HeadTailProperties, LenProperties
    <2>2. DOMAIN Tail(friendsTodo) = 1..Len(Tail(friendsTodo))
      BY <2>1, LenProperties
    <2>3. i - 1 \in 1..Len(Tail(friendsTodo)) /\ (i - 1) + 1 = i
      BY <2>1
    <2>4. Tail(friendsTodo)[i - 1] = friendsTodo[i]
      BY <2>1, <2>3
    <2> QED
      BY <2>2, <2>3, <2>4 DEF ToSet
  <1>4. SteamFriends_Cache \cup excused.friends \cup {Head(friendsTodo)}
            \subseteq SteamFriends_Cache' \cup excused'.friends
    BY DEF AnswersInv, SteamTypes, AskFriends
  <1>5. FriendsCovered'
    BY <1>1, <1>2, <1>3, <1>4 DEF FriendsCovered
  <1>6. BansCovered' /\ NotYetAnswered'
    BY <1>1 DEF BansCovered, NotYetAnswered
  <1>7. SmallRoundsRight'
    BY <1>1, NobodyWrong
  <1> QED
    BY <1>5, <1>6, <1>7

LEMMA AnswersStartBans ==
    ASSUME AnswersInv, StartBans
    PROVE  FriendsCovered' /\ BansCovered' /\ NotYetAnswered' /\ SmallRoundsRight'
  <1> PICK ids : ids = Sorted(Unknown(Wanted(FALSE)))
    OBVIOUS
  <1>1. /\ thread = "friends" /\ thread' = "bans" /\ friendsTodo = <<>>
        /\ answer = NoAnswer /\ answer' = answer /\ batch' = batch
        /\ UNCHANGED <<SteamFriends_Cache, SteamVacBans_Cache>>
        /\ bansTodo' = Requests(ids)
        /\ excused' = excused /\ round'.banKnown = round.banKnown
        /\ round'.large = (Len(ids) > BatchSize)
        /\ SteamTypes /\ FriendsCovered
    BY DEF AnswersInv, SteamTypes, StartBans, NotYetAnswered
  <1>2. Wanted(TRUE)' = Wanted(TRUE) /\ Wanted(FALSE)' = Wanted(FALSE)
    BY <1>1 DEF Wanted
  <1>3. ToSet(friendsTodo) = {}
    BY <1>1 DEF ToSet
  <1>4. FriendsCovered'
    BY <1>1, <1>2, <1>3 DEF FriendsCovered
  <1>5. ids \in Seq(SteamIDs) /\ ToSet(ids) = Wanted(FALSE) \ SteamVacBans_Cache
    BY <1>1, BansAsked
  <1>6. BansCovered'
    BY <1>1, <1>2, <1>5, SmallRequestsCover DEF BansCovered
  <1>7. NotYetAnswered'
    BY <1>1 DEF NotYetAnswered
  <1>8. SmallRoundsRight'
    BY <1>1, NobodyWrong
  <1> QED
    BY <1>4, <1>6, <1>7, <1>8

LEMMA AnswersAskBans ==
    ASSUME AnswersInv, AskBans
    PROVE  FriendsCovered' /\ BansCovered' /\ NotYetAnswered' /\ SmallRoundsRight'
  <1> DEFINE p == Players(Head(bansTodo))
             n == Len(bansTodo)
  <1>1. /\ thread = "bans" /\ thread' = thread /\ answer = NoAnswer /\ answer' = answer
        /\ batch' = batch /\ round' = round /\ SteamFriends_Cache' = SteamFriends_Cache
        /\ bansTodo # <<>> /\ bansTodo' = Tail(bansTodo)
        /\ bansTodo \in Seq(Seq(SteamIDs \cup {Cut}))
        /\ FriendsCovered /\ BansCovered
    BY DEF AnswersInv, SteamTypes, AskBans, NotYetAnswered
  <1>2. Wanted(TRUE)' = Wanted(TRUE) /\ Wanted(FALSE)' = Wanted(FALSE)
    BY <1>1 DEF Wanted
  <1>3. /\ DOMAIN bansTodo = 1..n /\ n \in Nat \ {0}
        /\ DOMAIN bansTodo' = 1..(n - 1)
        /\ \A k \in 1..(n - 1) : bansTodo'[k] = bansTodo[k + 1]
        /\ Head(bansTodo) = bansTodo[1]
    BY <1>1, HeadTailProperties, LenProperties, EmptySeq
  <1>4. \A k \in 1..n : k # 1 => k - 1 \in 1..(n - 1) /\ bansTodo'[k - 1] = bansTodo[k]
    <2> TAKE k \in 1..n
    <2> HAVE k # 1
    <2>1. k - 1 \in 1..(n - 1) /\ (k - 1) + 1 = k
      BY <1>3
    <2> HIDE DEF n
    <2> QED
      BY <1>3, <2>1
  <1>5. /\ excused'.friends = excused.friends
        /\ SteamVacBans_Cache \cup excused.bans \cup p
               \subseteq SteamVacBans_Cache' \cup excused'.bans
    BY DEF AnswersInv, SteamTypes, AskBans, Players
  <1> HIDE DEF n
  <1>6. FriendsCovered'
    BY <1>1, <1>2, <1>5 DEF FriendsCovered
  <1>7. BansCovered'
    <2> SUFFICES ASSUME ~round.large, NEW id \in Wanted(FALSE)
                 PROVE  \/ id \in SteamVacBans_Cache' \cup excused'.bans
                        \/ \E k \in DOMAIN bansTodo' : id \in Players(bansTodo'[k])
      BY <1>1, <1>2 DEF BansCovered
    <2>1. CASE id \in SteamVacBans_Cache \cup excused.bans
      BY <1>5, <2>1
    <2>2. CASE \E k \in DOMAIN bansTodo : id \in Players(bansTodo[k])
      <3>1. PICK k \in 1..n : id \in Players(bansTodo[k])
        BY <1>3, <2>2
      <3>2. CASE k = 1
        BY <1>3, <1>5, <3>1, <3>2
      <3>3. CASE k # 1
        BY <1>3, <1>4, <3>1, <3>3
      <3> QED
        BY <3>2, <3>3
    <2> QED
      BY <1>1, <2>1, <2>2 DEF BansCovered
  <1>8. NotYetAnswered'
    BY <1>1 DEF NotYetAnswered
  <1>9. SmallRoundsRight'
    BY <1>1, NobodyWrong
  <1> QED
    BY <1>6, <1>7, <1>8, <1>9

LEMMA AnswersStartAnswers ==
    ASSUME AnswersInv, StartAnswers
    PROVE  FriendsCovered' /\ BansCovered' /\ NotYetAnswered' /\ SmallRoundsRight'
  <1>1. /\ thread = "bans" /\ thread' = "answers" /\ bansTodo = <<>> /\ answer = NoAnswer
        /\ UNCHANGED <<batch, SteamVacBans_Cache, SteamFriends_Cache, excused, round, answer>>
        /\ FriendsCovered /\ BansCovered
    BY DEF AnswersInv, StartAnswers, NotYetAnswered
  <1>2. Wanted(TRUE)' = Wanted(TRUE) /\ Wanted(FALSE)' = Wanted(FALSE)
    BY <1>1 DEF Wanted
  <1>3. FriendsCovered' /\ BansCovered'
    <2>1. DOMAIN bansTodo = {}
      BY <1>1
    <2>2. FriendsCovered'
      BY <1>1, <1>2 DEF FriendsCovered
    <2>3. BansCovered'
      BY <1>1, <1>2, <2>1 DEF BansCovered
    <2> QED
      BY <2>2, <2>3
  <1>4. NotYetAnswered' /\ SmallRoundsRight'
    BY <1>1, NobodyWrong DEF NotYetAnswered
  <1> QED
    BY <1>3, <1>4

LEMMA AnswersAnswer ==
    ASSUME AnswersInv, Answer
    PROVE  FriendsCovered' /\ BansCovered' /\ NotYetAnswered' /\ SmallRoundsRight'
  <1> DEFINE q == Head(batch)
             n == Len(batch)
  <1>1. /\ thread = "answers" /\ thread' = thread /\ batch # <<>> /\ batch' = Tail(batch)
        /\ UNCHANGED <<SteamVacBans_Cache, SteamFriends_Cache, excused, round>>
        /\ answer' = IF q.oneway THEN answer ELSE [query |-> <<q>>, known |-> Known(q)]
        /\ batch \in Seq(Query)
        /\ FriendsCovered /\ BansCovered /\ SmallRoundsRight
    BY DEF AnswersInv, SteamTypes, Answer
  <1>2. /\ DOMAIN batch = 1..n /\ n \in Nat \ {0}
        /\ DOMAIN batch' = 1..(n - 1)
        /\ \A k \in 1..(n - 1) : batch'[k] = batch[k + 1]
        /\ q = batch[1] /\ q \in Query
    BY <1>1, HeadTailProperties, LenProperties, EmptySeq
  <1>3. \A k \in 1..(n - 1) : k + 1 \in DOMAIN batch
    BY <1>2
  <1>4. Wanted(TRUE)' \subseteq Wanted(TRUE) /\ Wanted(FALSE)' \subseteq Wanted(FALSE)
    <2> SUFFICES ASSUME NEW f \in BOOLEAN PROVE Wanted(f)' \subseteq Wanted(f)
      OBVIOUS
    <2> HIDE DEF n, q
    <2> QED
      BY <1>2, <1>3 DEF Wanted
  <1>5. FriendsCovered' /\ BansCovered'
    BY <1>1, <1>4 DEF FriendsCovered, BansCovered
  <1>6. NotYetAnswered'
    BY <1>1 DEF NotYetAnswered
  <1>7. CASE q.oneway
    <2>1. answer' = answer /\ excused' = excused /\ round' = round
      BY <1>1, <1>7
    <2>2. SmallRoundsRight'
      BY <1>1, <2>1, RightKept
    <2> QED
      BY <1>5, <1>6, <2>2
  <1>8. CASE ~ q.oneway
    <2>1. answer' = [query |-> <<q>>, known |-> Known(q)]
      BY <1>1, <1>8
    <2>2. \A id \in ToSet(q.steamIDs) : id \in Wanted(q.friends)
      <3>1. 1 \in DOMAIN batch /\ batch[1] = q
        BY <1>2
      <3> HIDE DEF q
      <3> QED
        BY <3>1 DEF Wanted
    <2>3. q.friends \in BOOLEAN
      BY <1>2 DEF Query
    <2> HIDE DEF q
    <2>4. answer'.query[1] = q /\ answer'.known = Known(q)
      BY <2>1
    <2> SUFFICES ASSUME NEW i \in DOMAIN q.steamIDs,
                        IF q.friends THEN q.steamIDs[i] \notin round.banKnown ELSE ~round.large
                 PROVE  IF q.friends
                        THEN Known(q)[i] \/ q.steamIDs[i] \in excused.friends
                        ELSE \/ Known(q)[i] = (q.steamIDs[i] \in Banned)
                             \/ q.steamIDs[i] \in excused.bans
      <3>1. DOMAIN Known(q) = DOMAIN q.steamIDs
        BY DEF Known
      <3> QED
        BY <1>1, <1>5, <1>6, <2>4, <3>1 DEF SmallRoundsRight, TrueFor
    <2>5. q.steamIDs[i] \in Wanted(q.friends)
      BY <2>2 DEF ToSet
    <2>6. Known(q)[i] = (q.steamIDs[i] \in IF q.friends THEN SteamFriends_Cache
                                            ELSE SteamVacBans_Cache \cap Banned)
      BY DEF Known
    <2>7. CASE q.friends
      <3>1. q.friends = TRUE
        BY <2>3, <2>7
      <3>2. q.steamIDs[i] \in SteamFriends_Cache \cup excused.friends
        BY <1>1, <2>5, <3>1 DEF FriendsCovered
      <3> QED
        BY <2>6, <2>7, <3>2
    <2>8. CASE ~ q.friends
      <3>1. q.friends = FALSE
        BY <2>3, <2>8
      <3>2. q.steamIDs[i] \in SteamVacBans_Cache \cup excused.bans
        BY <1>1, <2>5, <3>1 DEF BansCovered
      <3> QED
        BY <2>6, <2>8, <3>2
    <2> QED
      BY <2>7, <2>8
  <1> QED
    BY <1>5, <1>6, <1>7, <1>8

LEMMA AnswersExpire ==
    ASSUME AnswersInv, NEW id \in SteamIDs, ExpireBan(id) \/ ExpireFriends(id)
    PROVE  FriendsCovered' /\ BansCovered' /\ NotYetAnswered' /\ SmallRoundsRight'
  <1> DEFINE Kept ==
        /\ UNCHANGED <<thread, batch, friendsTodo, bansTodo, round, answer>>
        /\ excused.friends \subseteq excused'.friends /\ excused.bans \subseteq excused'.bans
        /\ SteamFriends_Cache \cup excused.friends
              \subseteq SteamFriends_Cache' \cup excused'.friends
        /\ SteamVacBans_Cache \cup excused.bans \subseteq SteamVacBans_Cache' \cup excused'.bans
  <1>t. excused \in [bans : SUBSET SteamIDs, friends : SUBSET SteamIDs]
    BY DEF AnswersInv, SteamTypes
  <1>b. ASSUME ExpireBan(id) PROVE Kept
    <2>1. excused'.bans = excused.bans \cup {id} /\ excused'.friends = excused.friends
      BY <1>t, <1>b DEF ExpireBan
    <2>2. /\ UNCHANGED <<thread, batch, friendsTodo, bansTodo, round, answer>>
          /\ SteamFriends_Cache' = SteamFriends_Cache
          /\ SteamVacBans_Cache' = SteamVacBans_Cache \ {id}
      BY <1>b DEF ExpireBan
    <2> QED
      BY <2>1, <2>2
  <1>f. ASSUME ExpireFriends(id) PROVE Kept
    <2>1. excused'.friends = excused.friends \cup {id} /\ excused'.bans = excused.bans
      BY <1>t, <1>f DEF ExpireFriends
    <2>2. /\ UNCHANGED <<thread, batch, friendsTodo, bansTodo, round, answer>>
          /\ SteamVacBans_Cache' = SteamVacBans_Cache
          /\ SteamFriends_Cache' = SteamFriends_Cache \ {id}
      BY <1>f DEF ExpireFriends
    <2> QED
      BY <2>1, <2>2
  <1>1. Kept
    BY <1>b, <1>f
  <1>2. FriendsCovered' /\ BansCovered'
    BY <1>1, CoveredKept
  <1>3. NotYetAnswered' /\ SmallRoundsRight'
    BY <1>1, RightKept DEF AnswersInv, NotYetAnswered
  <1> QED
    BY <1>2, <1>3

LEMMA AnswersStep == AnswersInv /\ [Next]_vars => AnswersInv'
  <1> DEFINE Goal == FriendsCovered' /\ BansCovered' /\ NotYetAnswered' /\ SmallRoundsRight'
  <1> SUFFICES ASSUME AnswersInv, [Next]_vars PROVE Goal
    BY SteamTypesStep DEF AnswersInv
  <1>1. ASSUME NEW c \in Calls, AddQuery(c) PROVE Goal
    BY <1>1, AnswersKept DEF AddQuery
  <1>2. CASE SteamUp
    BY <1>2, AnswersKept DEF SteamUp
  <1>3. CASE Wake
    <2>1. thread' = "copied" /\ answer' = NoAnswer
      BY <1>3 DEF Wake
    <2> QED
      BY <2>1, NobodyWrong DEF FriendsCovered, BansCovered, NotYetAnswered
  <1>4. CASE StartFriends
    BY <1>4, AnswersStartFriends
  <1>5. CASE AskFriends
    BY <1>5, AnswersAskFriends
  <1>6. CASE StartBans
    BY <1>6, AnswersStartBans
  <1>7. CASE AskBans
    BY <1>7, AnswersAskBans
  <1>8. CASE StartAnswers
    BY <1>8, AnswersStartAnswers
  <1>9. CASE Answer
    BY <1>9, AnswersAnswer
  <1>10. CASE Sleep
    BY <1>10, AnswersKept DEF Sleep
  <1>11. CASE Throw
    BY <1>11, AnswersKept DEF Throw
  <1>12. ASSUME NEW id \in SteamIDs, ExpireBan(id) PROVE Goal
    BY <1>12, AnswersExpire
  <1>13. ASSUME NEW id \in SteamIDs, ExpireFriends(id) PROVE Goal
    BY <1>13, AnswersExpire
  <1>14. CASE UNCHANGED vars
    BY <1>14, AnswersKept DEF vars
  <1> HIDE DEF Goal
  <1> QED
    BY <1>1, <1>2, <1>3, <1>4, <1>5, <1>6, <1>7, <1>8, <1>9, <1>10, <1>11, <1>12, <1>13, <1>14
       DEF Next

\* For any number of ids, queries, calls and any size of request: the Steam
\* thread's answers are true in every round that asks for the bans of at most
\* one request's ids, those on friends for each id whose ban was not cached.
THEOREM AnswersAreRight == Spec => []SmallRoundsRight
  <1>1. AnswersInv => SmallRoundsRight
    BY DEF AnswersInv
  <1> QED
    BY <1>1, AnswersInit, AnswersStep, PTL DEF Spec
=============================================================================
