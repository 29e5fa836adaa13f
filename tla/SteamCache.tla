----------------------------- MODULE SteamCache -----------------------------
(***************************************************************************)
(* What the Steam thread does with the queries of the VAC protocol         *)
(* (steam.cpp, protocols/vac.cpp): which ids it asks the Web API for, what *)
(* it keeps in its two expiring caches, what it answers, and whom it bans  *)
(* through RCon.  How answers get to scripts is in ExtCalls.               *)
(*                                                                         *)
(* Steam's knowledge does not change in the model; the hour an entry lives *)
(* is not counted, an entry may expire at any moment.                      *)
(***************************************************************************)
EXTENDS Integers, Sequences, FiniteSets, SequencesExt

CONSTANTS NotNumber,    \* a field that is not made of digits
          SteamIDs,     \* a set of numbers, for they are sorted
          Banned,       \* those with bans that meet the VAC.* settings
          Calls,        \* calls of VAC that may come: [mode, type, fields]
          MaxQueries,   \* bound: calls in all
          MaxExpired,   \* bound: entries that expire
          BatchSize     \* 100 ids in a request for bans

ASSUME SteamAssumption ==
    /\ SteamIDs \subseteq Nat \ {0} /\ IsFiniteSet(SteamIDs)
    /\ Banned \subseteq SteamIDs
    /\ \A c \in Calls : /\ c.mode \in {"sync", "async", "oneway"}
                        /\ c.fields \in Seq(SteamIDs \cup {NotNumber})
    /\ BatchSize \in Nat \ {0}

VARIABLES
    steam_run_flag,
    rcon,              \* RCon is started and VAC.Auto Ban is set
    query_queue,
    queries,           \* how many there have been
    thread,            \* what the Steam thread is at
    batch,             \* query_queue_copy
    friendsTodo,       \* ids whose friends are still to be asked for
    bansTodo,          \* requests for bans still to be made: sequences of ids
    SteamVacBans_Cache,     \* the ids in the cache; extDBBanned is right for each
    SteamFriends_Cache,     \* the ids in the cache
    addBan,            \* id -> how often it was banned through RCon
    expired,           \* id -> how often its ban entry expired
    excused,           \* history: [bans, friends], the ids Steam did not answer
                       \* for in this round, or whose entry expired in it
    round,             \* history: [large, banKnown], whether it asks for more bans
                       \* than one request takes, and the ids of its queries for
                       \* friends whose bans were in the cache
    answer             \* the last answer: [query, known]

vars == <<steam_run_flag, rcon, query_queue, queries, thread, batch, friendsTodo, bansTodo,
          SteamVacBans_Cache, SteamFriends_Cache, addBan, expired, excused, round, answer>>

NoAnswer == [query |-> <<>>, known |-> <<>>]
Cut == 0               \* an id without its first character: no id of Steam
Nobody == [bans |-> {}, friends |-> {}]
NoRound == [large |-> FALSE, banKnown |-> {}]

Init ==
    /\ steam_run_flag = FALSE
    /\ rcon \in BOOLEAN
    /\ query_queue = <<>>
    /\ queries = 0
    /\ thread = "down"
    /\ batch = <<>>
    /\ friendsTodo = <<>>
    /\ bansTodo = <<>>
    /\ SteamVacBans_Cache = {}
    /\ SteamFriends_Cache = {}
    /\ addBan = [id \in SteamIDs |-> 0]
    /\ expired = [id \in SteamIDs |-> 0]
    /\ excused = Nobody
    /\ round = NoRound
    /\ answer = NoAnswer

-----------------------------------------------------------------------------
\* The ids of the queries of one kind; sort and unique make a set of them.
Wanted(friends) ==
    UNION {ToSet(batch[i].steamIDs) : i \in {j \in DOMAIN batch : batch[j].friends = friends}}

Sorted(ids) ==
    [k \in 1..Cardinality(ids) |->
        CHOOSE id \in ids : Cardinality({i \in ids : i < id}) = k - 1]

\* Mutant: the last request is cut as well.
RequestsAllCut(ids) ==
    LET count == (Len(ids) + BatchSize - 1) \div BatchSize
    IN  [k \in 1..count |-> <<Cut>> \o SubSeq(ids, (k - 1) * BatchSize + 2,
                                 IF k = count THEN Len(ids) ELSE k * BatchSize)]
\* generateSteamIDStrings: a comma is put behind every id and the last one
\* removed, but a request that is full loses its first character as well.
Requests(ids) ==
    LET count == (Len(ids) + BatchSize - 1) \div BatchSize
        Slice(k) == SubSeq(ids, (k - 1) * BatchSize + 1,
                           IF k = count THEN Len(ids) ELSE k * BatchSize)
    IN  [k \in 1..count |-> IF k = count THEN Slice(k) ELSE <<Cut>> \o Tail(Slice(k))]

\* Mutant: the cache is not asked.
UnknownAll(ids) == ids
\* Both updates ask the cache of bans.
Unknown(ids) == ids \ SteamVacBans_Cache

-----------------------------------------------------------------------------
\* VAC::callProtocol: not in a synchronous call, all ids are numbers, and
\* the type is known; without an id nothing happens and nothing is answered.
IsNumber(field) == field # NotNumber
Accepts(c) ==
    /\ c.mode # "sync" /\ c.fields # <<>>
    /\ \A i \in DOMAIN c.fields : IsNumber(c.fields[i])
    /\ c.type \in {"GetFriends", "VACBanned"}

\* steamQuery.
QueryOf(c) == [friends |-> c.type = "GetFriends", oneway |-> c.mode = "oneway",
               steamIDs |-> c.fields]

\* addQuery queues a query when the thread is running.
AddQuery(c) ==
    /\ queries < MaxQueries
    /\ queries' = queries + 1
    /\ query_queue' = IF Accepts(c) /\ steam_run_flag
                      THEN Append(query_queue, QueryOf(c)) ELSE query_queue
    /\ UNCHANGED <<steam_run_flag, rcon, thread, batch, friendsTodo, bansTodo,
                   SteamVacBans_Cache, SteamFriends_Cache, addBan, expired, excused, round, answer>>

SteamUp ==
    /\ thread = "down"
    /\ steam_run_flag' = TRUE
    /\ thread' = "asleep"
    /\ UNCHANGED <<rcon, query_queue, queries, batch, friendsTodo, bansTodo,
                   SteamVacBans_Cache, SteamFriends_Cache, addBan, expired, excused, round, answer>>

\* The thread wakes up and copies the queue.
Wake ==
    /\ thread = "asleep"
    /\ query_queue # <<>>
    /\ batch' = query_queue
    /\ query_queue' = <<>>
    /\ thread' = "copied"
    /\ excused' = Nobody
    /\ round' = NoRound
    /\ answer' = NoAnswer
    /\ UNCHANGED <<steam_run_flag, rcon, queries, friendsTodo, bansTodo,
                   SteamVacBans_Cache, SteamFriends_Cache, addBan, expired>>

\* updateSteamFriends asks for the ids that the cache of bans does not have.
StartFriends ==
    /\ thread = "copied"
    /\ friendsTodo' = Sorted(Unknown(Wanted(TRUE)))
    /\ round' = [round EXCEPT !.banKnown = Wanted(TRUE) \cap SteamVacBans_Cache]
    /\ thread' = "friends"
    /\ UNCHANGED <<steam_run_flag, rcon, query_queue, queries, batch, bansTodo,
                   SteamVacBans_Cache, SteamFriends_Cache, addBan, expired, excused, answer>>

\* One request for a friend list, answered within 10 s with a document that has
\* one, or not: an error, no JSON, or the time is up and the request aborted.
AskFriends ==
    /\ thread = "friends"
    /\ friendsTodo # <<>>
    /\ friendsTodo' = Tail(friendsTodo)
    /\ \/ /\ SteamFriends_Cache' = SteamFriends_Cache \cup {Head(friendsTodo)}
          /\ UNCHANGED excused
       \/ /\ excused' = [excused EXCEPT !.friends = @ \cup {Head(friendsTodo)}]
          /\ UNCHANGED SteamFriends_Cache
    /\ UNCHANGED <<steam_run_flag, rcon, query_queue, queries, thread, batch, bansTodo,
                   SteamVacBans_Cache, addBan, expired, round, answer>>

StartBans ==
    /\ thread = "friends"
    /\ friendsTodo = <<>>
    /\ LET ids == Sorted(Unknown(Wanted(FALSE)))
       IN  /\ bansTodo' = Requests(ids)
           /\ round' = [round EXCEPT !.large = Len(ids) > BatchSize]
    /\ thread' = "bans"
    /\ UNCHANGED <<steam_run_flag, rcon, query_queue, queries, batch, friendsTodo,
                   SteamVacBans_Cache, SteamFriends_Cache, addBan, expired, excused, answer>>

\* Whom an answer bans through RCon: those whose bans meet the settings, by the
\* BEGUID of their id.
BansThroughRcon(players) == IF rcon THEN players \cap Banned ELSE {}

\* One request for bans; each player of the answer is kept.
AskBans ==
    /\ thread = "bans"
    /\ bansTodo # <<>>
    /\ bansTodo' = Tail(bansTodo)
    /\ LET players == ToSet(Head(bansTodo)) \ {Cut}
       IN  \/ /\ SteamVacBans_Cache' = SteamVacBans_Cache \cup players
              /\ addBan' = [id \in SteamIDs |->
                              addBan[id] + IF id \in BansThroughRcon(players) THEN 1 ELSE 0]
              /\ UNCHANGED excused
           \/ /\ excused' = [excused EXCEPT !.bans = @ \cup players]
              /\ UNCHANGED <<SteamVacBans_Cache, addBan>>
    /\ UNCHANGED <<steam_run_flag, rcon, query_queue, queries, thread, batch, friendsTodo,
                   SteamFriends_Cache, expired, round, answer>>

StartAnswers ==
    /\ thread = "bans"
    /\ bansTodo = <<>>
    /\ thread' = "answers"
    /\ UNCHANGED <<steam_run_flag, rcon, query_queue, queries, batch, friendsTodo, bansTodo,
                   SteamVacBans_Cache, SteamFriends_Cache, addBan, expired, excused, round, answer>>

\* One query is answered, unless it is one-way: false, or an empty list, stands
\* for each id the cache does not have.
Known(q) == [i \in DOMAIN q.steamIDs |->
                q.steamIDs[i] \in IF q.friends THEN SteamFriends_Cache
                                  ELSE SteamVacBans_Cache \cap Banned]

Answer ==
    /\ thread = "answers"
    /\ batch # <<>>
    /\ batch' = Tail(batch)
    /\ answer' = IF Head(batch).oneway THEN answer
                 ELSE [query |-> <<Head(batch)>>, known |-> Known(Head(batch))]
    /\ UNCHANGED <<steam_run_flag, rcon, query_queue, queries, thread, friendsTodo, bansTodo,
                   SteamVacBans_Cache, SteamFriends_Cache, addBan, expired, excused, round>>

Sleep ==
    /\ thread = "answers"
    /\ batch = <<>>
    /\ thread' = "asleep"
    /\ UNCHANGED <<steam_run_flag, rcon, query_queue, queries, batch, friendsTodo, bansTodo,
                   SteamVacBans_Cache, SteamFriends_Cache, addBan, expired, excused, round, answer>>

\* A document without the list that is read throws out of run.
Throw ==
    /\ \/ thread = "friends" /\ friendsTodo # <<>>
       \/ thread = "bans" /\ bansTodo # <<>>
    /\ thread' = "dead"
    /\ UNCHANGED <<steam_run_flag, rcon, query_queue, queries, batch, friendsTodo, bansTodo,
                   SteamVacBans_Cache, SteamFriends_Cache, addBan, expired, excused, round, answer>>

ExpireBan(id) ==
    /\ id \in SteamVacBans_Cache
    /\ expired[id] < MaxExpired
    /\ SteamVacBans_Cache' = SteamVacBans_Cache \ {id}
    /\ expired' = [expired EXCEPT ![id] = @ + 1]
    /\ excused' = [excused EXCEPT !.bans = @ \cup {id}]
    /\ UNCHANGED <<steam_run_flag, rcon, query_queue, queries, thread, batch, friendsTodo,
                   bansTodo, SteamFriends_Cache, addBan, round, answer>>

ExpireFriends(id) ==
    /\ id \in SteamFriends_Cache
    /\ SteamFriends_Cache' = SteamFriends_Cache \ {id}
    /\ excused' = [excused EXCEPT !.friends = @ \cup {id}]
    /\ UNCHANGED <<steam_run_flag, rcon, query_queue, queries, thread, batch, friendsTodo,
                   bansTodo, SteamVacBans_Cache, addBan, expired, round, answer>>

-----------------------------------------------------------------------------
Next == \/ \E c \in Calls : AddQuery(c)
        \/ SteamUp \/ Wake
        \/ StartFriends \/ AskFriends
        \/ StartBans \/ AskBans
        \/ StartAnswers \/ Answer \/ Sleep
        \/ Throw
        \/ \E id \in SteamIDs : ExpireBan(id) \/ ExpireFriends(id)

Spec == Init /\ [][Next]_vars

-----------------------------------------------------------------------------
(* Properties *)

\* The id a query names in place i is answered truly: whether it is banned, or
\* with its friends.  Steam may not have answered in this round, and its entry
\* may have expired between the request and the answer.
TrueFor(q, i) ==
    IF q.friends THEN answer.known[i] \/ q.steamIDs[i] \in excused.friends
    ELSE answer.known[i] = (q.steamIDs[i] \in Banned) \/ q.steamIDs[i] \in excused.bans

\* Changelog.txt:18: "VAC Protocol Now works correctly.  Returns empty Bans /
\* FriendList if Steam Server doesn't answer in time": every id of every query
\* is answered truly.
AnswersRight == \A i \in DOMAIN answer.known : TrueFor(answer.query[1], i)

\* The answers are true as long as a round asks for the bans of no more ids than
\* one request takes, and of those whose friends are asked for, where no ban is
\* in the cache.  Queries share a round, ids and the caches.
SmallRoundsRight ==
    \A i \in DOMAIN answer.known :
        LET q == answer.query[1]
        IN  (IF q.friends THEN q.steamIDs[i] \notin round.banKnown ELSE ~round.large)
                => TrueFor(q, i)

\* A player is banned through RCon once for every time its entry is fetched
\* anew, however many queries, of whatever round, name it.
BannedOnce == \A id \in SteamIDs : addBan[id] <= 1 + expired[id]
=============================================================================
