------------------------------ MODULE ExtCalls ------------------------------
(***************************************************************************)
(* The life of a call (ext.cpp): the game thread enters callExtenion for   *)
(* one script after another, worker threads run what it posted to the      *)
(* io_service, the Steam thread answers what the VAC protocol handed to    *)
(* it, and scripts fetch their results by id as fn_async.sqf does.         *)
(*                                                                         *)
(* A stored result is a piece [req, from, to]: the characters from + 1 to  *)
(* `to` of the string that answers request req.  One action is what runs   *)
(* between two points where another thread can see or change shared state. *)
(***************************************************************************)
EXTENDS IdOps, Sequences

CONSTANTS Scripts,      \* SQF scripts, each running fn_async.sqf over and over
          Workers,      \* threads of the io_service (Main.Threads)
          Lo, Hi,       \* the interval of ids IdManager starts with
          Calls,        \* the calls scripts make, each [mode, kind]
          MaxCalls,     \* bound on the number of calls of a behaviour
          OutputSize,   \* output_size as callExtenion receives it
          Lengths       \* lengths of the strings protocols return

Modes == {"async", "oneway", "sync"}
\* What the protocol does with the call: "answer" returns a result;
\* "procedure" takes an id of its own first (DB_PROCEDURE_V2 with outputs);
\* the three "vac" kinds are a VAC query with ids, one for a profile whose
\* Web API document lacks the list, and one without ids; "throws" leaves by
\* an exception; "unknown" names a protocol that is not loaded.
Kinds == {"answer", "procedure", "vac", "vacPrivate", "vacShort", "throws", "unknown"}

ASSUME IdsAssumption == Lo \in Nat \ {0} /\ Hi \in Nat /\ Lo <= Hi
ASSUME CallsAssumption ==
    /\ Calls \subseteq [mode : Modes, kind : Kinds]
    /\ [mode |-> "sync", kind |-> "procedure"] \notin Calls
ASSUME BoundsAssumption ==
    MaxCalls \in Nat /\ OutputSize \in Nat \ {0} /\ Lengths \subseteq Nat

Ids == Lo..Hi
AnyId == Ids \cup {0}           \* one-way jobs carry the id 0
Reqs == 1..MaxCalls

Piece == [req : Reqs, from : Nat, to : Nat]
Absent == [req |-> 0, from |-> 0, to |-> 0]     \* no entry in the map
Size(p) == p.to - p.from
Wrap == 4                                       \* "[1," and "]"

Job == [call : Calls, req : Reqs, id : AnyId]
NoCall == [mode |-> "none", kind |-> "none"]
NoJob == [call |-> NoCall, req |-> 0, id |-> 0]

VARIABLES
    alive,      \* FALSE once std::terminate or undefined behaviour is reached
    free,       \* ids the IdManager can hand out
    waiting,    \* keys of unordered_map_wait
    results,    \* unordered_map_results: id -> piece, or Absent
    queue,      \* handlers posted to the io_service
    gpc, cur,   \* where the game thread is, and the call it is executing
    wpc, job,   \* where each worker is, and the handler it runs
    unique_id_proc,     \* the member of DB_PROCEDURE_V2
    taken, named,       \* per worker: the id it took, the id in its SQL
    clashed,    \* history: a procedure has given back an id it did not take
    steam,      \* phase of the Steam thread
    query_queue, batch, \* STEAM::query_queue and the copy run() works on
    spc, key, req, got, \* per script: phase, id, request and what it received
    made,       \* number of calls made so far
    answer      \* history: request -> length of the string that answers it

poolVars   == <<free, unique_id_proc, taken, named, clashed>>
mapVars    == <<waiting, results, answer>>
gameVars   == <<gpc, cur>>
workerVars == <<queue, wpc, job>>
steamVars  == <<steam, query_queue, batch>>
scriptVars == <<spc, key, req, got, made>>
vars == <<alive, poolVars, mapVars, gameVars, workerVars, steamVars, scriptVars>>

Init ==
    /\ alive = TRUE
    /\ free = Ids
    /\ waiting = {} /\ results = [i \in AnyId |-> Absent]
    /\ queue = <<>>
    /\ gpc = "idle" /\ cur = NoJob
    /\ wpc = [w \in Workers |-> "idle"] /\ job = [w \in Workers |-> NoJob]
    /\ unique_id_proc = 0
    /\ taken = [w \in Workers |-> 0] /\ named = [w \in Workers |-> 0]
    /\ clashed = FALSE
    /\ steam = "off" /\ query_queue = <<>> /\ batch = <<>>
    /\ spc = [s \in Scripts |-> "ready"] /\ key = [s \in Scripts |-> 0]
    /\ req = [s \in Scripts |-> 0] /\ got = [s \in Scripts |-> <<>>]
    /\ made = 0
    /\ answer = [r \in Reqs |-> 0]

Running == alive /\ gpc # "stopped"

\* Mutant: two threads read the first free interval before either changes it.
TakeIdUnlocked(id) == IsNextId(free, id) /\ UNCHANGED free
\* getUniqueID_mutexlock returns id.
TakeId(id) == IsNextId(free, id) /\ free' = free \ {id}

\* saveResult_mutexlock: store the wrapped string, then forget the wait.
SaveResult(id, r, n) ==
    /\ results' = [results EXCEPT ![id] = [req |-> r, from |-> 0, to |-> n]]
    /\ waiting' = waiting \ {id}

-----------------------------------------------------------------------------
(* The game thread: callExtenion, one call at a time.                      *)

\* The script whose call the game thread is executing.
Caller(s) == spc[s] = "calling"

\* A script calls the extension with a new request.
Enter(s) ==
    /\ Running /\ gpc = "idle"
    /\ spc[s] = "ready" /\ made < MaxCalls
    /\ made' = made + 1
    /\ req' = [req EXCEPT ![s] = made + 1]
    /\ got' = [got EXCEPT ![s] = <<>>]
    /\ key' = [key EXCEPT ![s] = 0]

\* The reply is an id: the script polls it.
ReplyId(s, id) ==
    /\ spc' = [spc EXCEPT ![s] = "polling"]
    /\ key' = [key EXCEPT ![s] = id]
    /\ gpc' = "idle" /\ cur' = NoJob
    /\ UNCHANGED <<req, got, made>>

\* The reply is final: got is what the script makes of it.
ReplyNow(s, pieces) ==
    /\ spc' = [spc EXCEPT ![s] = "ready"]
    /\ got' = [got EXCEPT ![s] = pieces]
    /\ gpc' = "idle" /\ cur' = NoJob
    /\ UNCHANGED <<key, req, made>>

\* "2:": getUniqueID comes before the protocol is looked up.
CallAsync(s) ==
    \E call \in Calls, id \in free :
       /\ call.mode = "async"
       /\ Enter(s)
       /\ TakeId(id)
       /\ spc' = [spc EXCEPT ![s] = "calling"]
       /\ gpc' = "lookup"
       /\ cur' = [call |-> call, req |-> made + 1, id |-> id]
       /\ UNCHANGED <<alive, unique_id_proc, taken, named, clashed, mapVars, workerVars, steamVars>>

\* Mutant: the handler is posted before the id is registered, and then again.
RegisterAndPost ==
    /\ Running /\ gpc = "lookup" /\ cur.call.kind # "unknown"
    /\ waiting' = waiting \cup {cur.id}
    /\ queue' = Append(queue, cur)
    /\ gpc' = "post"
    /\ UNCHANGED <<alive, poolVars, results, answer, cur, wpc, job, steamVars, scriptVars>>
\* Mutant: the id is not registered.
RegisterNothing ==
    /\ Running /\ gpc = "lookup" /\ cur.call.kind # "unknown"
    /\ gpc' = "post"
    /\ UNCHANGED <<alive, poolVars, mapVars, cur, workerVars, steamVars, scriptVars>>
\* The protocol is loaded: the id is registered as waiting.
AsyncRegister ==
    /\ Running /\ gpc = "lookup" /\ cur.call.kind # "unknown"
    /\ waiting' = waiting \cup {cur.id}
    /\ gpc' = "post"
    /\ UNCHANGED <<alive, poolVars, results, answer, cur, workerVars, steamVars, scriptVars>>

\* The protocol is not loaded: the id goes back and the reply is an error.
AsyncUnknown(s) ==
    /\ Running /\ gpc = "lookup" /\ cur.call.kind = "unknown" /\ Caller(s)
    /\ free' = GiveBack(free, cur.id)
    /\ ReplyNow(s, <<>>)
    /\ UNCHANGED <<alive, unique_id_proc, taken, named, clashed, mapVars, workerVars, steamVars>>

\* The handler is posted and the reply names the id.
AsyncPost(s) ==
    /\ Running /\ gpc = "post" /\ Caller(s)
    /\ queue' = Append(queue, cur)
    /\ ReplyId(s, cur.id)
    /\ UNCHANGED <<alive, poolVars, mapVars, wpc, job, steamVars>>

\* Mutant: the default value of callProtocol's unique_id.
DefaultId == -1
\* The unique_id onewayCallProtocol passes to callProtocol.
OnewayId == 0

\* "1:": posted without an id and without looking the protocol up.
CallOneway(s) ==
    \E call \in Calls :
       /\ call.mode = "oneway"
       /\ Enter(s)
       /\ queue' = Append(queue, [call |-> call, req |-> made + 1, id |-> OnewayId])
       /\ UNCHANGED <<alive, poolVars, mapVars, gameVars, wpc, job, steamVars, spc>>

\* "0:": the protocol runs on the game thread.
CallSync(s) ==
    \E call \in Calls :
       /\ call.mode = "sync"
       /\ Enter(s)
       /\ spc' = [spc EXCEPT ![s] = "calling"]
       /\ gpc' = "sync"
       /\ cur' = [call |-> call, req |-> made + 1, id |-> 0]
       /\ UNCHANGED <<alive, poolVars, mapVars, workerVars, steamVars>>

\* An unknown protocol, or an exception callExtenion catches: an error reply.
SyncError(s) ==
    /\ Running /\ gpc = "sync" /\ Caller(s)
    /\ cur.call.kind \in {"unknown", "throws"}
    /\ ReplyNow(s, <<>>)
    /\ UNCHANGED <<alive, poolVars, mapVars, workerVars, steamVars>>

\* callProtocol returns a string (for VAC, that sync mode is not supported).
SyncResult ==
    /\ Running /\ gpc = "sync"
    /\ cur.call.kind \notin {"unknown", "throws"}
    /\ \E n \in Lengths : answer' = [answer EXCEPT ![cur.req] = n + Wrap]
    /\ gpc' = "syncReply"
    /\ UNCHANGED <<alive, poolVars, waiting, results, cur, workerVars, steamVars, scriptVars>>

Fits == answer[cur.req] - Wrap <= OutputSize - 6

SyncReply(s) ==
    /\ Running /\ gpc = "syncReply" /\ Fits /\ Caller(s)
    /\ ReplyNow(s, <<[req |-> cur.req, from |-> 0, to |-> answer[cur.req]]>>)
    /\ UNCHANGED <<alive, poolVars, mapVars, workerVars, steamVars>>

SyncTakeId ==
    /\ Running /\ gpc = "syncReply" /\ ~Fits
    /\ \E id \in free : TakeId(id) /\ cur' = [cur EXCEPT !.id = id]
    /\ gpc' = "syncSave"
    /\ UNCHANGED <<alive, unique_id_proc, taken, named, clashed, mapVars, workerVars, steamVars, scriptVars>>

SyncSave(s) ==
    /\ Running /\ gpc = "syncSave" /\ Caller(s)
    /\ SaveResult(cur.id, cur.req, answer[cur.req])
    /\ ReplyId(s, cur.id)
    /\ UNCHANGED <<alive, poolVars, answer, workerVars, steamVars>>

\* "9:START_VAC".
StartVac ==
    /\ Running /\ gpc = "idle" /\ steam = "off"
    /\ steam' = "starting"
    /\ UNCHANGED <<alive, poolVars, mapVars, gameVars, workerVars, query_queue, batch, scriptVars>>

\* "4:<id>": "[3]" while the id waits, "" when nothing is known of it, "[5]"
\* when the string is too long, else the string, whose entry and id go.
GetSinglePart(s) ==
    LET p == results[key[s]]
    IN /\ Running /\ gpc = "idle" /\ spc[s] = "polling"
       /\ ~(p = Absent /\ key[s] \in waiting)       \* "[3]" changes nothing
       /\ IF p = Absent \/ Size(p) > OutputSize
          THEN /\ spc' = [spc EXCEPT ![s] = IF p = Absent THEN "ready" ELSE "parts"]
               /\ UNCHANGED <<results, free, got>>
          ELSE /\ results' = [results EXCEPT ![key[s]] = Absent]
               /\ free' = GiveBack(free, key[s])
               /\ got' = [got EXCEPT ![s] = <<p>>]
               /\ spc' = [spc EXCEPT ![s] = "ready"]
       /\ UNCHANGED <<alive, unique_id_proc, taken, named, clashed, waiting, answer, gameVars,
                      workerVars, steamVars, key, req, made>>

\* Where substr(0, output_size) of a stored string ends.
Cut(p) == IF Size(p) > OutputSize THEN p.from + OutputSize ELSE p.to

\* Mutant: the character that output_size leaves for the terminator is lost.
RestFromOneOff(p) == IF Size(p) > OutputSize THEN p.from + OutputSize + 1 ELSE p.to
\* Where the string that stays stored starts, substr(output_size).
RestFrom(p) == Cut(p)

\* "5:<id>": the next output_size characters, or "" once nothing is left, and
\* then the entry and its id go.  The script stops at "".
GetMultiPart(s) ==
    LET p == results[key[s]]
    IN /\ Running /\ gpc = "idle" /\ spc[s] = "parts"
       /\ ~(p = Absent /\ key[s] \in waiting)       \* "[3]" changes nothing
       /\ IF p = Absent \/ Size(p) = 0
          THEN /\ results' = [results EXCEPT ![key[s]] = Absent]
               /\ free' = IF p = Absent THEN free ELSE GiveBack(free, key[s])
               /\ spc' = [spc EXCEPT ![s] = "ready"]
               /\ UNCHANGED got
          ELSE /\ results' = [results EXCEPT ![key[s]].from = RestFrom(p)]
               /\ got' = [got EXCEPT ![s] = Append(@, [p EXCEPT !.to = Cut(p)])]
               /\ UNCHANGED <<free, spc>>
       /\ UNCHANGED <<alive, unique_id_proc, taken, named, clashed, waiting, answer, gameVars,
                      workerVars, steamVars, key, req, made>>

\* Ext::stop drops the io_service's work object and joins the workers ...
Stop ==
    /\ Running /\ gpc = "idle"
    /\ gpc' = "stopping"
    /\ UNCHANGED <<alive, poolVars, mapVars, cur, workerVars, steamVars, scriptVars>>

\* Mutant: io_service.stop(), so that queued handlers are never run.
StopAtOnce ==
    /\ Running /\ gpc = "stopping"
    /\ \A w \in Workers : wpc[w] = "idle"
    /\ gpc' = "stopped"
    /\ UNCHANGED <<alive, poolVars, mapVars, cur, workerVars, steamVars, scriptVars>>
\* Mutant: the Steam thread, whose flag nothing clears, is joined too.
StopJoinsSteam ==
    /\ Running /\ gpc = "stopping" /\ steam \in {"off", "dead"}
    /\ queue = <<>> /\ \A w \in Workers : wpc[w] = "idle"
    /\ gpc' = "stopped"
    /\ UNCHANGED <<alive, poolVars, mapVars, cur, workerVars, steamVars, scriptVars>>
\* ... which return from run() once no handler is queued or running.  Nothing
\* joins the Steam thread.  RCon, if it was started, is disconnected and joined
\* after that: module Rcon.
WorkersJoined ==
    /\ Running /\ gpc = "stopping"
    /\ queue = <<>> /\ \A w \in Workers : wpc[w] = "idle"
    /\ gpc' = "stopped"
    /\ UNCHANGED <<alive, poolVars, mapVars, cur, workerVars, steamVars, scriptVars>>

-----------------------------------------------------------------------------
(* The worker threads: asyncCallProtocol and onewayCallProtocol.           *)

Take(w) ==
    /\ Running /\ wpc[w] = "idle" /\ queue # <<>>
    /\ job' = [job EXCEPT ![w] = Head(queue)]
    /\ queue' = Tail(queue)
    /\ wpc' = [wpc EXCEPT ![w] = "run"]
    /\ UNCHANGED <<alive, poolVars, mapVars, gameVars, steamVars, scriptVars>>

Runs(w, kinds) == Running /\ wpc[w] = "run" /\ job[w].call.kind \in kinds

Finish(w) ==
    /\ wpc' = [wpc EXCEPT ![w] = "idle"]
    /\ job' = [job EXCEPT ![w] = NoJob]
    /\ UNCHANGED queue

\* A handler whose call returned TRUE ends: the result of an async call is
\* saved, the result of a one-way call dropped.
Returned(w) ==
    /\ IF job[w].id = 0
       THEN UNCHANGED mapVars
       ELSE \E n \in Lengths :
               /\ SaveResult(job[w].id, job[w].req, n + Wrap)
               /\ answer' = [answer EXCEPT ![job[w].req] = n + Wrap]
    /\ Finish(w)

Answer(w) ==
    /\ Runs(w, {"answer"})
    /\ Returned(w)
    /\ UNCHANGED <<alive, poolVars, gameVars, steamVars, scriptVars>>

\* One-way call of a protocol that is not loaded: nothing happens.
DropUnknown(w) ==
    /\ Runs(w, {"unknown"})
    /\ Finish(w)
    /\ UNCHANGED <<alive, poolVars, mapVars, gameVars, steamVars, scriptVars>>

\* Mutant: callProtocol returns TRUE although it handed the query over.
OffloadReturnsTrue(w) ==
    /\ Runs(w, {"vac", "vacPrivate"}) /\ steam \notin {"off", "starting"}
    /\ query_queue' = Append(query_queue, job[w])
    /\ Returned(w)
    /\ UNCHANGED <<alive, poolVars, gameVars, steam, batch, scriptVars>>
\* VAC with steam_run_flag set: the query is queued for the Steam thread, and
\* callProtocol returns FALSE.
Offload(w) ==
    /\ Runs(w, {"vac", "vacPrivate"}) /\ steam \notin {"off", "starting"}
    /\ query_queue' = Append(query_queue, job[w])
    /\ Finish(w)
    /\ UNCHANGED <<alive, poolVars, mapVars, gameVars, steam, batch, scriptVars>>

\* VAC with steam_run_flag clear: addQuery saves an error under unique_id,
\* whatever unique_id is.
SteamDisabled(w) ==
    /\ Runs(w, {"vac", "vacPrivate"}) /\ steam \in {"off", "starting"}
    /\ \E n \in Lengths :
          /\ SaveResult(job[w].id, job[w].req, n + Wrap)
          /\ answer' = [answer EXCEPT ![job[w].req] = n + Wrap]
    /\ Finish(w)
    /\ UNCHANGED <<alive, poolVars, gameVars, steamVars, scriptVars>>

\* VAC without ids: result stays empty, callProtocol returns FALSE, and
\* nothing was queued.
ReturnFalse(w) ==
    /\ Runs(w, {"vacShort"})
    /\ Finish(w)
    /\ UNCHANGED <<alive, poolVars, mapVars, gameVars, steamVars, scriptVars>>

\* An exception leaves callProtocol and io_service::run: std::terminate.
Throw(w) ==
    /\ Runs(w, {"throws"})
    /\ alive' = FALSE
    /\ UNCHANGED <<poolVars, mapVars, gameVars, workerVars, steamVars, scriptVars>>

\* DB_PROCEDURE_V2 takes an id into its member unique_id_proc ...
ProcTakeId(w) ==
    /\ Runs(w, {"procedure"})
    /\ \E id \in free : /\ TakeId(id)
                        /\ unique_id_proc' = id
                        /\ taken' = [taken EXCEPT ![w] = id]
    /\ wpc' = [wpc EXCEPT ![w] = "procName"]
    /\ UNCHANGED <<alive, named, clashed, mapVars, gameVars, queue, job, steamVars, scriptVars>>

\* ... reads the member back to name the output variables ...
ProcName(w) ==
    /\ Running /\ wpc[w] = "procName"
    /\ named' = [named EXCEPT ![w] = unique_id_proc]
    /\ wpc' = [wpc EXCEPT ![w] = "procSql"]
    /\ UNCHANGED <<alive, free, unique_id_proc, taken, clashed, mapVars, gameVars, queue, job,
                   steamVars, scriptVars>>

\* Mutant: unique_id is freed instead of unique_id_proc.
ProcFreeCallId(w) ==
    /\ Running /\ wpc[w] = "procSql"
    /\ free' = GiveBack(free, job[w].id)
    /\ clashed' = clashed
    /\ taken' = [taken EXCEPT ![w] = 0]
    /\ named' = [named EXCEPT ![w] = 0]
    /\ wpc' = [wpc EXCEPT ![w] = "procDone"]
    /\ UNCHANGED <<alive, unique_id_proc, mapVars, gameVars, queue, job, steamVars, scriptVars>>
\* ... and frees the member's id once both statements ran, which is another
\* worker's if that one took its id meanwhile: the protocol has one member for
\* all workers.  Of what comes after that, clashed tells the properties apart.
ProcFree(w) ==
    /\ Running /\ wpc[w] = "procSql"
    /\ free' = GiveBack(free, unique_id_proc)
    /\ clashed' = (clashed \/ unique_id_proc # taken[w])
    /\ taken' = [taken EXCEPT ![w] = 0]
    /\ named' = [named EXCEPT ![w] = 0]
    /\ wpc' = [wpc EXCEPT ![w] = "procDone"]
    /\ UNCHANGED <<alive, unique_id_proc, mapVars, gameVars, queue, job, steamVars, scriptVars>>

\* ... but not when a statement throws: the id stays taken for ever.
ProcError(w) ==
    /\ Running /\ wpc[w] = "procSql"
    /\ taken' = [taken EXCEPT ![w] = 0]
    /\ named' = [named EXCEPT ![w] = 0]
    /\ wpc' = [wpc EXCEPT ![w] = "procDone"]
    /\ UNCHANGED <<alive, free, unique_id_proc, clashed, mapVars, gameVars, queue, job,
                   steamVars, scriptVars>>

ProcReturn(w) ==
    /\ Running /\ wpc[w] = "procDone"
    /\ Returned(w)
    /\ UNCHANGED <<alive, poolVars, gameVars, steamVars, scriptVars>>

\* Asking IdManager for an id when none is free is undefined behaviour; the
\* model says nothing of what follows.
TakeIdFromEmpty ==
    /\ Running /\ free = {}
    /\ \/ /\ gpc = "idle" /\ made < MaxCalls
          /\ \E s \in Scripts, call \in Calls : spc[s] = "ready" /\ call.mode = "async"
       \/ gpc = "syncReply" /\ ~Fits
       \/ \E w \in Workers : Runs(w, {"procedure"})
    /\ alive' = FALSE
    /\ UNCHANGED <<poolVars, mapVars, gameVars, workerVars, steamVars, scriptVars>>

-----------------------------------------------------------------------------
(* The Steam thread: STEAM::run.                                           *)

SteamUp ==
    /\ Running /\ steam = "starting"
    /\ steam' = "sleep"
    /\ UNCHANGED <<alive, poolVars, mapVars, gameVars, workerVars, query_queue, batch, scriptVars>>

\* Awake, by wakeUp or after a minute: the queue is copied and cleared.
SteamTake ==
    /\ Running /\ steam = "sleep" /\ query_queue # <<>>
    /\ batch' = query_queue /\ query_queue' = <<>>
    /\ steam' = "lookup"
    /\ UNCHANGED <<alive, poolVars, mapVars, gameVars, workerVars, scriptVars>>

\* Mutant: the queue is cleared after the queries, with what came meanwhile.
SteamLookupClears ==
    /\ Running /\ steam = "lookup"
    /\ steam' = "answer" /\ query_queue' = <<>>
    /\ UNCHANGED <<alive, poolVars, mapVars, gameVars, workerVars, batch, scriptVars>>
\* updateSteamFriends and updateSteamBans for the whole batch.
SteamLookup ==
    /\ Running /\ steam = "lookup"
    /\ steam' = "answer"
    /\ UNCHANGED <<alive, poolVars, mapVars, gameVars, workerVars, query_queue, batch, scriptVars>>

\* get_child throws on a document without the list; only timeouts are caught,
\* so the thread ends, its batch with it, and steam_run_flag stays set.
SteamThrow ==
    /\ Running /\ steam = "lookup"
    /\ \E i \in 1..Len(batch) : batch[i].call.kind = "vacPrivate"
    /\ steam' = "dead" /\ batch' = <<>>
    /\ UNCHANGED <<alive, poolVars, mapVars, gameVars, workerVars, query_queue, scriptVars>>

\* Mutant: the first id of a pool that starts at 1 is skipped too.
AnswerableAboveOne(q) == q.id > 1
\* The Steam thread answers queries that came with an id.
Answerable(q) == q.id > 0

\* One query of the batch: saved, or skipped when it came one-way.
SteamAnswer ==
    LET q == Head(batch)
    IN /\ Running /\ steam = "answer" /\ batch # <<>>
       /\ IF Answerable(q)
          THEN \E n \in Lengths :
                  /\ SaveResult(q.id, q.req, n + Wrap)
                  /\ answer' = [answer EXCEPT ![q.req] = n + Wrap]
          ELSE UNCHANGED mapVars
       /\ batch' = Tail(batch)
       /\ steam' = IF Tail(batch) = <<>> THEN "sleep" ELSE "answer"
       /\ UNCHANGED <<alive, poolVars, gameVars, workerVars, query_queue, scriptVars>>

-----------------------------------------------------------------------------
\* What the game thread does inside a call, once it has entered it.
GameStep ==
    \/ AsyncRegister \/ SyncResult \/ SyncTakeId \/ WorkersJoined
    \/ \E s \in Scripts : \/ AsyncUnknown(s) \/ AsyncPost(s)
                          \/ SyncError(s) \/ SyncReply(s) \/ SyncSave(s)

NewCall(s) == CallAsync(s) \/ CallOneway(s) \/ CallSync(s)

Poll(s) == GetSinglePart(s) \/ GetMultiPart(s)

WorkerStep(w) ==
    \/ Take(w) \/ Answer(w) \/ DropUnknown(w) \/ Throw(w)
    \/ Offload(w) \/ SteamDisabled(w) \/ ReturnFalse(w)
    \/ ProcTakeId(w) \/ ProcName(w) \/ ProcFree(w) \/ ProcError(w) \/ ProcReturn(w)

SteamStep == SteamUp \/ SteamTake \/ SteamLookup \/ SteamThrow \/ SteamAnswer

Next == \/ GameStep \/ StartVac \/ Stop \/ TakeIdFromEmpty \/ SteamStep
        \/ \E s \in Scripts : NewCall(s) \/ Poll(s)
        \/ \E w \in Workers : WorkerStep(w)

Spec == Init /\ [][Next]_vars

\* The game thread finishes the call it is in, its scheduler runs every
\* script again, and the operating system runs every thread: protocols and
\* the Web API return, both having timeouts.
Fairness ==
    /\ WF_vars(GameStep)
    /\ \A s \in Scripts : WF_vars(Poll(s))
    /\ \A w \in Workers : WF_vars(WorkerStep(w))
    /\ WF_vars(SteamStep)

FairSpec == Spec /\ Fairness
=============================================================================
