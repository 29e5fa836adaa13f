--------------------------- MODULE ExtCallsProofs ---------------------------
(***************************************************************************)
(* Theorems about ExtCalls, for every number of scripts, workers, ids and  *)
(* calls: the types of the state; that no id has two owners and no call    *)
(* two answers; what becomes of stored results and what scripts find when  *)
(* they poll; that an answer is on its way; and that all of ExtCalls keeps *)
(* the promise of CallContract.  What speaks of ids holds up to the first  *)
(* procedure that frees the id another worker took.                        *)
(***************************************************************************)
EXTENDS ExtCallsProps, FiniteSetTheorems, TLAPS

\* What the types rest on: a thread that is inside a call holds a real job,
\* and an id of the pool where it is going to use one.
Holding ==
    /\ gpc \notin {"idle", "stopping", "stopped"} => cur \in Job
    /\ gpc \in {"lookup", "post", "syncSave"} => cur.id \in Ids
    /\ \A w \in Workers : wpc[w] # "idle" => job[w] \in Job
    /\ \A w \in Workers : wpc[w] \in {"procName", "procSql"} => unique_id_proc \in Ids
    /\ \A s \in Scripts : spc[s] \in {"polling", "parts"} => key[s] \in Ids

TInv == TypeOK /\ Holding

USE IdsAssumption, CallsAssumption, BoundsAssumption

-----------------------------------------------------------------------------
\* What SQF is to read as an answer is its text and the wrapping.
LEMMA AnswerLength == \A n \in Lengths : n + Wrap \in Nat /\ n + Wrap # 0
  BY DEF Wrap

\* Freeing an id of the pool leaves a set of ids of the pool.
LEMMA GiveBackType ==
    ASSUME NEW F \in SUBSET Ids, NEW i \in Ids
    PROVE  GiveBack(F, i) \in SUBSET Ids
  BY DEF GiveBack

\* A stored piece is a piece; its parts are pieces.
LEMMA PieceType ==
    ASSUME NEW r \in Reqs, NEW m \in Nat, NEW n \in Nat
    PROVE  [req |-> r, from |-> m, to |-> n] \in Piece
  BY DEF Piece

LEMMA PartType ==
    ASSUME NEW p \in Piece
    PROVE  /\ Cut(p) \in Nat
           /\ [p EXCEPT !.to = Cut(p)] \in Piece
           /\ [p EXCEPT !.from = RestFrom(p)] \in Piece
  BY DEF Piece, Cut, RestFrom, Size

\* The new request of a script that enters a call.
LEMMA EnterType ==
    ASSUME TInv, NEW s \in Scripts, Enter(s)
    PROVE  /\ made + 1 \in Reqs /\ made' \in 0..MaxCalls
           /\ key' \in [Scripts -> AnyId] /\ req' \in [Scripts -> 0..MaxCalls]
           /\ got' \in [Scripts -> Seq(Piece)]
  BY DEF TInv, TypeOK, Enter, Reqs, AnyId

-----------------------------------------------------------------------------
(* The game thread.                                                        *)

LEMMA CallAsyncType ==
    ASSUME TInv, NEW s \in Scripts, CallAsync(s) PROVE TInv'
  <1>1. PICK call \in Calls, id \in free :
           /\ Enter(s) /\ TakeId(id)
           /\ cur' = [call |-> call, req |-> made + 1, id |-> id]
    BY DEF CallAsync
  <1>2. /\ made + 1 \in Reqs /\ made' \in 0..MaxCalls
        /\ key' \in [Scripts -> AnyId] /\ req' \in [Scripts -> 0..MaxCalls]
        /\ got' \in [Scripts -> Seq(Piece)]
    BY <1>1, EnterType
  <1>3. cur' \in Job /\ cur'.id \in Ids
    BY <1>1, <1>2 DEF Job, AnyId, TInv, TypeOK
  <1>4. TypeOK'
    BY <1>1, <1>2, <1>3 DEF TInv, TypeOK, CallAsync, TakeId, mapVars, workerVars, steamVars
  <1>5. Holding'
    BY <1>1, <1>2, <1>3 DEF TInv, TypeOK, Holding, CallAsync, Enter, workerVars
  <1> QED BY <1>4, <1>5 DEF TInv

LEMMA AsyncRegisterType ==
    ASSUME TInv, AsyncRegister PROVE TInv'
  BY DEF TInv, TypeOK, Holding, AsyncRegister, poolVars, workerVars, steamVars, scriptVars

LEMMA AsyncUnknownType ==
    ASSUME TInv, NEW s \in Scripts, AsyncUnknown(s) PROVE TInv'
  <1>1. free' \in SUBSET Ids
    BY GiveBackType DEF TInv, TypeOK, Holding, AsyncUnknown
  <1>2. TypeOK'
    BY <1>1 DEF TInv, TypeOK, AsyncUnknown, ReplyNow, mapVars, workerVars, steamVars
  <1>3. Holding'
    BY DEF TInv, TypeOK, Holding, AsyncUnknown, ReplyNow, workerVars
  <1> QED BY <1>2, <1>3 DEF TInv

LEMMA AsyncPostType ==
    ASSUME TInv, NEW s \in Scripts, AsyncPost(s) PROVE TInv'
  <1>1. cur \in Job /\ cur.id \in Ids
    BY DEF TInv, Holding, AsyncPost
  <1>2. TypeOK'
    BY <1>1 DEF TInv, TypeOK, AsyncPost, ReplyId, AnyId, poolVars, mapVars, steamVars
  <1>3. Holding'
    BY <1>1 DEF TInv, TypeOK, Holding, AsyncPost, ReplyId, poolVars
  <1> QED BY <1>2, <1>3 DEF TInv

LEMMA CallOnewayType ==
    ASSUME TInv, NEW s \in Scripts, CallOneway(s) PROVE TInv'
  <1>1. PICK call \in Calls :
           /\ Enter(s)
           /\ queue' = Append(queue, [call |-> call, req |-> made + 1, id |-> OnewayId])
    BY DEF CallOneway
  <1>2. /\ made + 1 \in Reqs /\ made' \in 0..MaxCalls
        /\ key' \in [Scripts -> AnyId] /\ req' \in [Scripts -> 0..MaxCalls]
        /\ got' \in [Scripts -> Seq(Piece)]
    BY <1>1, EnterType
  <1>3. queue' \in Seq(Job)
    BY <1>1, <1>2 DEF Job, AnyId, OnewayId, TInv, TypeOK
  <1>4. TypeOK'
    BY <1>2, <1>3 DEF TInv, TypeOK, CallOneway, poolVars, mapVars, gameVars, steamVars
  <1>5. Holding'
    BY <1>1 DEF TInv, TypeOK, Holding, CallOneway, Enter, poolVars, gameVars
  <1> QED BY <1>4, <1>5 DEF TInv

LEMMA CallSyncType ==
    ASSUME TInv, NEW s \in Scripts, CallSync(s) PROVE TInv'
  <1>1. PICK call \in Calls :
           Enter(s) /\ cur' = [call |-> call, req |-> made + 1, id |-> 0]
    BY DEF CallSync
  <1>2. /\ made + 1 \in Reqs /\ made' \in 0..MaxCalls
        /\ key' \in [Scripts -> AnyId] /\ req' \in [Scripts -> 0..MaxCalls]
        /\ got' \in [Scripts -> Seq(Piece)]
    BY <1>1, EnterType
  <1>3. cur' \in Job
    BY <1>1, <1>2 DEF Job, AnyId
  <1>4. TypeOK'
    BY <1>2, <1>3 DEF TInv, TypeOK, CallSync, poolVars, mapVars, workerVars, steamVars
  <1>5. Holding'
    BY <1>1, <1>3 DEF TInv, TypeOK, Holding, CallSync, Enter, poolVars, workerVars
  <1> QED BY <1>4, <1>5 DEF TInv

LEMMA SyncErrorType ==
    ASSUME TInv, NEW s \in Scripts, SyncError(s) PROVE TInv'
  BY DEF TInv, TypeOK, Holding, SyncError, ReplyNow, poolVars, mapVars, workerVars, steamVars

LEMMA SyncResultType ==
    ASSUME TInv, SyncResult PROVE TInv'
  <1>1. PICK n \in Lengths : answer' = [answer EXCEPT ![cur.req] = n + Wrap]
    BY DEF SyncResult
  <1>2. n + Wrap \in Nat
    BY AnswerLength
  <1>3. answer' \in [Reqs -> Nat]
    BY <1>1, <1>2 DEF TInv, TypeOK
  <1> QED BY <1>3 DEF TInv, TypeOK, Holding, SyncResult, poolVars, workerVars, steamVars, scriptVars

LEMMA SyncReplyType ==
    ASSUME TInv, NEW s \in Scripts, SyncReply(s) PROVE TInv'
  <1>1. cur.req \in Reqs /\ answer[cur.req] \in Nat
    BY DEF TInv, TypeOK, Holding, SyncReply, Job
  <1>2. <<[req |-> cur.req, from |-> 0, to |-> answer[cur.req]]>> \in Seq(Piece)
    BY <1>1 DEF Piece
  <1>3. TypeOK'
    BY <1>2 DEF TInv, TypeOK, SyncReply, ReplyNow, poolVars, mapVars, workerVars, steamVars
  <1>4. Holding'
    BY DEF TInv, TypeOK, Holding, SyncReply, ReplyNow, poolVars, workerVars
  <1> QED BY <1>3, <1>4 DEF TInv

LEMMA SyncTakeIdType ==
    ASSUME TInv, SyncTakeId PROVE TInv'
  <1>1. PICK id \in free : TakeId(id) /\ cur' = [cur EXCEPT !.id = id]
    BY DEF SyncTakeId
  <1>2. cur' \in Job /\ cur'.id \in Ids /\ free' \in SUBSET Ids
    BY <1>1 DEF TInv, TypeOK, Holding, SyncTakeId, Job, AnyId, TakeId
  <1> QED BY <1>2 DEF TInv, TypeOK, Holding, SyncTakeId, mapVars, workerVars, steamVars, scriptVars

\* Saving a string keeps the maps well typed.
LEMMA SaveType ==
    ASSUME TInv, NEW id \in AnyId, NEW r \in Reqs, NEW n \in Nat, SaveResult(id, r, n)
    PROVE  results' \in [AnyId -> Piece \cup {Absent}] /\ waiting' \in SUBSET Ids
  <1>1. [req |-> r, from |-> 0, to |-> n] \in Piece
    BY PieceType
  <1> QED BY <1>1 DEF TInv, TypeOK, SaveResult

LEMMA SyncSaveType ==
    ASSUME TInv, NEW s \in Scripts, SyncSave(s) PROVE TInv'
  <1>1. cur.req \in Reqs /\ answer[cur.req] \in Nat /\ cur.id \in Ids /\ cur.id \in AnyId
    BY DEF TInv, TypeOK, Holding, SyncSave, Job
  <1>2. results' \in [AnyId -> Piece \cup {Absent}] /\ waiting' \in SUBSET Ids
    BY <1>1, SaveType DEF SyncSave
  <1>3. TypeOK'
    BY <1>1, <1>2, SMTT(30) DEF TInv, TypeOK, SyncSave, ReplyId, poolVars, workerVars, steamVars
  <1>4. Holding'
    BY <1>1 DEF TInv, TypeOK, Holding, SyncSave, ReplyId, poolVars, workerVars
  <1> QED BY <1>3, <1>4 DEF TInv

LEMMA StartStopType ==
    ASSUME TInv, StartVac \/ Stop \/ WorkersJoined \/ TakeIdFromEmpty PROVE TInv'
  <1>1. CASE StartVac
    BY <1>1 DEF TInv, TypeOK, Holding, StartVac, poolVars, mapVars, gameVars, workerVars,
                steamVars, scriptVars
  <1>2. CASE Stop
    BY <1>2 DEF TInv, TypeOK, Holding, Stop, poolVars, mapVars, gameVars, workerVars,
                steamVars, scriptVars
  <1>3. CASE WorkersJoined
    BY <1>3 DEF TInv, TypeOK, Holding, WorkersJoined, poolVars, mapVars, gameVars, workerVars,
                steamVars, scriptVars
  <1>4. CASE TakeIdFromEmpty
    BY <1>4 DEF TInv, TypeOK, Holding, TakeIdFromEmpty, poolVars, mapVars, gameVars, workerVars,
                steamVars, scriptVars
  <1> QED BY <1>1, <1>2, <1>3, <1>4

LEMMA GetSinglePartType ==
    ASSUME TInv, NEW s \in Scripts, GetSinglePart(s) PROVE TInv'
  <1> DEFINE p == results[key[s]]
  <1>1. key[s] \in Ids /\ key[s] \in AnyId /\ p \in Piece \cup {Absent}
    BY DEF TInv, TypeOK, Holding, GetSinglePart, AnyId
  <1>2. UNCHANGED <<alive, unique_id_proc, taken, named, clashed, waiting, answer, gameVars,
                    workerVars, steamVars, key, req, made>>
    BY DEF GetSinglePart
  <1>3. CASE p = Absent \/ Size(p) > OutputSize
    <2>1. /\ spc' = [spc EXCEPT ![s] = IF p = Absent THEN "ready" ELSE "parts"]
          /\ UNCHANGED <<results, free, got>>
          /\ spc[s] = "polling"
      BY <1>3 DEF GetSinglePart
    <2>2. TypeOK'
      BY <1>2, <2>1 DEF TInv, TypeOK, gameVars, workerVars, steamVars
    <2>3. Holding'
      BY <1>2, <2>1 DEF TInv, TypeOK, Holding, gameVars, workerVars
    <2> QED BY <2>2, <2>3 DEF TInv
  <1>4. CASE ~(p = Absent \/ Size(p) > OutputSize)
    <2>1. /\ results' = [results EXCEPT ![key[s]] = Absent]
          /\ free' = GiveBack(free, key[s])
          /\ got' = [got EXCEPT ![s] = <<p>>]
          /\ spc' = [spc EXCEPT ![s] = "ready"]
      BY <1>4 DEF GetSinglePart
    <2>2. <<p>> \in Seq(Piece)
      BY <1>1, <1>4
    <2>3. free' \in SUBSET Ids
      BY <1>1, <2>1, GiveBackType DEF TInv, TypeOK
    <2>4. TypeOK'
      BY <1>2, <2>1, <2>2, <2>3 DEF TInv, TypeOK, gameVars, workerVars, steamVars
    <2>5. Holding'
      BY <1>2, <2>1 DEF TInv, TypeOK, Holding, gameVars, workerVars
    <2> QED BY <2>4, <2>5 DEF TInv
  <1> QED BY <1>3, <1>4

LEMMA GetMultiPartType ==
    ASSUME TInv, NEW s \in Scripts, GetMultiPart(s) PROVE TInv'
  <1> DEFINE p == results[key[s]]
  <1>1. key[s] \in Ids /\ key[s] \in AnyId /\ p \in Piece \cup {Absent}
    BY DEF TInv, TypeOK, Holding, GetMultiPart, AnyId
  <1>2. UNCHANGED <<alive, unique_id_proc, taken, named, clashed, waiting, answer, gameVars,
                    workerVars, steamVars, key, req, made>>
    BY DEF GetMultiPart
  <1>3. CASE p = Absent \/ Size(p) = 0
    <2>1. /\ results' = [results EXCEPT ![key[s]] = Absent]
          /\ free' = IF p = Absent THEN free ELSE GiveBack(free, key[s])
          /\ spc' = [spc EXCEPT ![s] = "ready"]
          /\ UNCHANGED got
      BY <1>3 DEF GetMultiPart
    <2>2. free' \in SUBSET Ids
      BY <1>1, <2>1, GiveBackType DEF TInv, TypeOK
    <2>3. TypeOK'
      BY <1>2, <2>1, <2>2 DEF TInv, TypeOK, gameVars, workerVars, steamVars
    <2>4. Holding'
      BY <1>2, <2>1 DEF TInv, TypeOK, Holding, gameVars, workerVars
    <2> QED BY <2>3, <2>4 DEF TInv
  <1>4. CASE ~(p = Absent \/ Size(p) = 0)
    <2>1. /\ results' = [results EXCEPT ![key[s]].from = RestFrom(p)]
          /\ got' = [got EXCEPT ![s] = Append(@, [p EXCEPT !.to = Cut(p)])]
          /\ UNCHANGED <<free, spc>>
      BY <1>4 DEF GetMultiPart
    <2>2. [p EXCEPT !.to = Cut(p)] \in Piece /\ [p EXCEPT !.from = RestFrom(p)] \in Piece
      BY <1>1, <1>4, PartType
    <2>3. results' = [results EXCEPT ![key[s]] = [p EXCEPT !.from = RestFrom(p)]]
      BY <2>1
    <2>4. got' \in [Scripts -> Seq(Piece)]
      BY <2>1, <2>2 DEF TInv, TypeOK
    <2>5. results' \in [AnyId -> Piece \cup {Absent}]
      BY <1>1, <2>2, <2>3 DEF TInv, TypeOK
    <2>6. TypeOK'
      BY <1>2, <2>1, <2>4, <2>5 DEF TInv, TypeOK, gameVars, workerVars, steamVars
    <2>7. Holding'
      BY <1>2, <2>1 DEF TInv, TypeOK, Holding, gameVars, workerVars
    <2> QED BY <2>6, <2>7 DEF TInv
  <1> QED BY <1>3, <1>4

-----------------------------------------------------------------------------
(* The worker threads.                                                     *)

\* A worker that ends its handler keeps the worker state well typed.
LEMMA FinishType ==
    ASSUME TInv, NEW w \in Workers, Finish(w)
    PROVE  /\ queue' \in Seq(Job)
           /\ wpc' \in [Workers -> {"idle", "run", "procName", "procSql", "procDone"}]
           /\ job' \in [Workers -> Job \cup {NoJob}]
           /\ \A v \in Workers : wpc'[v] # "idle" => wpc'[v] = wpc[v] /\ job'[v] \in Job
  BY DEF TInv, TypeOK, Holding, Finish

\* A step of a worker that only ends its handler.
LEMMA FinishStepType ==
    ASSUME TInv, NEW w \in Workers, Finish(w),
           UNCHANGED <<alive, poolVars, gameVars, scriptVars>>,
           results' \in [AnyId -> Piece \cup {Absent}], waiting' \in SUBSET Ids,
           answer' \in [Reqs -> Nat],
           query_queue' \in Seq(Job), UNCHANGED <<steam, batch>>
    PROVE  TInv'
  <1>1. TypeOK'
    BY FinishType DEF TInv, TypeOK, poolVars, gameVars, scriptVars
  <1>2. Holding'
    BY FinishType DEF TInv, Holding, poolVars, gameVars, scriptVars
  <1> QED BY <1>1, <1>2 DEF TInv

\* Saving the answer to a job keeps the maps well typed.
LEMMA AnswerType ==
    ASSUME TInv, NEW j \in Job, NEW n \in Lengths,
           SaveResult(j.id, j.req, n + Wrap),
           answer' = [answer EXCEPT ![j.req] = n + Wrap]
    PROVE  /\ results' \in [AnyId -> Piece \cup {Absent}] /\ waiting' \in SUBSET Ids
           /\ answer' \in [Reqs -> Nat]
  <1>1. /\ j.id \in AnyId /\ j.req \in Reqs
        /\ n + Wrap \in Nat
    <2>1. j.id \in AnyId /\ j.req \in Reqs
      BY DEF Job
    <2>2. n + Wrap \in Nat
      BY AnswerLength
    <2> QED BY <2>1, <2>2
  <1>2. results' \in [AnyId -> Piece \cup {Absent}] /\ waiting' \in SUBSET Ids
    BY <1>1, SaveType
  <1>3. answer' \in [Reqs -> Nat]
    BY <1>1 DEF TInv, TypeOK
  <1> QED BY <1>2, <1>3

LEMMA ReturnedType ==
    ASSUME TInv, NEW w \in Workers, wpc[w] # "idle", Returned(w),
           UNCHANGED <<alive, poolVars, gameVars, steamVars, scriptVars>>
    PROVE  TInv'
  <1>1. job[w] \in Job /\ Finish(w)
    BY DEF TInv, Holding, Returned
  <1>2. /\ results' \in [AnyId -> Piece \cup {Absent}] /\ waiting' \in SUBSET Ids
        /\ answer' \in [Reqs -> Nat]
    <2>1. CASE job[w].id = 0
      BY <2>1 DEF TInv, TypeOK, Returned, mapVars
    <2>2. CASE job[w].id # 0
      <3>1. PICK n \in Lengths : /\ SaveResult(job[w].id, job[w].req, n + Wrap)
                                 /\ answer' = [answer EXCEPT ![job[w].req] = n + Wrap]
        BY <2>2 DEF Returned
      <3> QED BY <1>1, <3>1, AnswerType
    <2> QED BY <2>1, <2>2
  <1>3. query_queue' \in Seq(Job) /\ UNCHANGED <<steam, batch>>
    BY DEF TInv, TypeOK, steamVars
  <1> QED BY <1>1, <1>2, <1>3, FinishStepType

LEMMA TakeType ==
    ASSUME TInv, NEW w \in Workers, Take(w) PROVE TInv'
  <1>1. Head(queue) \in Job /\ queue' \in Seq(Job)
    BY DEF TInv, TypeOK, Take
  <1>2. TypeOK'
    BY <1>1 DEF TInv, TypeOK, Take, poolVars, mapVars, gameVars, steamVars, scriptVars
  <1>3. Holding'
    BY <1>1 DEF TInv, TypeOK, Holding, Take, poolVars, gameVars, scriptVars
  <1> QED BY <1>2, <1>3 DEF TInv

LEMMA OffloadType ==
    ASSUME TInv, NEW w \in Workers, Offload(w) PROVE TInv'
  <1>1. job[w] \in Job /\ Finish(w)
    BY DEF TInv, Holding, Offload, Runs
  <1>2. query_queue' \in Seq(Job) /\ UNCHANGED <<steam, batch>>
    BY <1>1 DEF TInv, TypeOK, Offload
  <1>3. /\ results' \in [AnyId -> Piece \cup {Absent}] /\ waiting' \in SUBSET Ids
        /\ answer' \in [Reqs -> Nat]
    BY DEF TInv, TypeOK, Offload, mapVars
  <1>4. UNCHANGED <<alive, poolVars, gameVars, scriptVars>>
    BY DEF Offload
  <1> QED BY <1>1, <1>2, <1>3, <1>4, FinishStepType

LEMMA DropType ==
    ASSUME TInv, NEW w \in Workers, DropUnknown(w) \/ ReturnFalse(w) PROVE TInv'
  <1>1. Finish(w) /\ UNCHANGED <<alive, poolVars, mapVars, gameVars, steamVars, scriptVars>>
    BY DEF DropUnknown, ReturnFalse
  <1>2. /\ results' \in [AnyId -> Piece \cup {Absent}] /\ waiting' \in SUBSET Ids
        /\ answer' \in [Reqs -> Nat]
        /\ query_queue' \in Seq(Job) /\ UNCHANGED <<steam, batch>>
    BY <1>1 DEF TInv, TypeOK, mapVars, steamVars
  <1> QED BY <1>1, <1>2, FinishStepType

LEMMA SteamDisabledType ==
    ASSUME TInv, NEW w \in Workers, SteamDisabled(w) PROVE TInv'
  <1>1. job[w] \in Job /\ Finish(w)
    BY DEF TInv, Holding, SteamDisabled, Runs
  <1>2. PICK n \in Lengths : /\ SaveResult(job[w].id, job[w].req, n + Wrap)
                             /\ answer' = [answer EXCEPT ![job[w].req] = n + Wrap]
    BY DEF SteamDisabled
  <1>3. /\ results' \in [AnyId -> Piece \cup {Absent}] /\ waiting' \in SUBSET Ids
        /\ answer' \in [Reqs -> Nat]
    BY <1>1, <1>2, AnswerType
  <1>4. query_queue' \in Seq(Job) /\ UNCHANGED <<steam, batch>>
    BY DEF TInv, TypeOK, SteamDisabled, steamVars
  <1>5. UNCHANGED <<alive, poolVars, gameVars, scriptVars>>
    BY DEF SteamDisabled
  <1> QED BY <1>1, <1>3, <1>4, <1>5, FinishStepType

\* The steps of a stored procedure up to the freeing of its id.
LEMMA ProcType ==
    ASSUME TInv, NEW w \in Workers,
           ProcTakeId(w) \/ ProcName(w) \/ ProcFree(w) \/ ProcError(w)
    PROVE  TInv'
  <1>1. CASE ProcTakeId(w)
    <2>1. PICK id \in free : /\ TakeId(id) /\ unique_id_proc' = id
                             /\ taken' = [taken EXCEPT ![w] = id]
      BY <1>1 DEF ProcTakeId
    <2>2. free' \in SUBSET Ids /\ unique_id_proc' \in Ids /\ taken' \in [Workers -> AnyId]
      BY <2>1 DEF TInv, TypeOK, TakeId, AnyId
    <2>3. TypeOK'
      BY <1>1, <2>2 DEF TInv, TypeOK, ProcTakeId, Runs, AnyId, mapVars, gameVars, steamVars, scriptVars
    <2>4. Holding'
      BY <1>1, <2>2 DEF TInv, TypeOK, Holding, ProcTakeId, Runs, gameVars, scriptVars
    <2> QED BY <2>3, <2>4 DEF TInv
  <1>2. CASE ProcName(w)
    BY <1>2 DEF TInv, TypeOK, Holding, ProcName, mapVars, gameVars, steamVars, scriptVars
  <1>3. CASE ProcFree(w)
    <2>1. free' \in SUBSET Ids
      BY <1>3, GiveBackType DEF TInv, TypeOK, Holding, ProcFree
    <2>2. TypeOK'
      BY <1>3, <2>1 DEF TInv, TypeOK, ProcFree, AnyId, mapVars, gameVars, steamVars, scriptVars
    <2>3. Holding'
      BY <1>3 DEF TInv, TypeOK, Holding, ProcFree, gameVars, scriptVars
    <2> QED BY <2>2, <2>3 DEF TInv
  <1>4. CASE ProcError(w)
    BY <1>4 DEF TInv, TypeOK, Holding, ProcError, AnyId, mapVars, gameVars, steamVars, scriptVars
  <1> QED BY <1>1, <1>2, <1>3, <1>4

\* Every step of a worker keeps the types.
LEMMA WorkerStepType ==
    ASSUME TInv, NEW w \in Workers, WorkerStep(w) PROVE TInv'
  <1>1. CASE Take(w)          BY <1>1, TakeType
  <1>2. CASE Answer(w) \/ ProcReturn(w)
    <2>1. /\ wpc[w] # "idle" /\ Returned(w)
          /\ UNCHANGED <<alive, poolVars, gameVars, steamVars, scriptVars>>
      BY <1>2 DEF Answer, ProcReturn, Runs
    <2> QED BY <2>1, ReturnedType
  <1>3. CASE DropUnknown(w) \/ ReturnFalse(w)  BY <1>3, DropType
  <1>4. CASE Throw(w)
    BY <1>4 DEF TInv, TypeOK, Holding, Throw, poolVars, mapVars, gameVars, workerVars, steamVars, scriptVars
  <1>5. CASE Offload(w)       BY <1>5, OffloadType
  <1>6. CASE SteamDisabled(w) BY <1>6, SteamDisabledType
  <1>7. CASE ProcTakeId(w) \/ ProcName(w) \/ ProcFree(w) \/ ProcError(w)
    BY <1>7, ProcType
  <1> QED BY <1>1, <1>2, <1>3, <1>4, <1>5, <1>6, <1>7 DEF WorkerStep

-----------------------------------------------------------------------------
(* The Steam thread.                                                       *)

LEMMA SteamAnswerType ==
    ASSUME TInv, SteamAnswer PROVE TInv'
  <1> DEFINE q == Head(batch)
  <1>1. q \in Job /\ batch' \in Seq(Job)
    BY DEF TInv, TypeOK, SteamAnswer
  <1>2. /\ results' \in [AnyId -> Piece \cup {Absent}] /\ waiting' \in SUBSET Ids
        /\ answer' \in [Reqs -> Nat]
    <2>1. CASE Answerable(q)
      <3>1. PICK n \in Lengths : /\ SaveResult(q.id, q.req, n + Wrap)
                                 /\ answer' = [answer EXCEPT ![q.req] = n + Wrap]
        BY <2>1 DEF SteamAnswer
      <3> HIDE DEF q
      <3> QED BY <1>1, <3>1, AnswerType
    <2>2. CASE ~Answerable(q)
      BY <2>2 DEF TInv, TypeOK, SteamAnswer, mapVars
    <2> QED BY <2>1, <2>2
  <1>3. TypeOK'
    BY <1>1, <1>2 DEF TInv, TypeOK, SteamAnswer, poolVars, gameVars, workerVars, scriptVars
  <1>4. Holding'
    BY DEF TInv, Holding, SteamAnswer, poolVars, gameVars, workerVars, scriptVars
  <1> QED BY <1>3, <1>4 DEF TInv

\* Every step of the Steam thread keeps the types.
LEMMA SteamStepType ==
    ASSUME TInv, SteamStep PROVE TInv'
  <1>1. CASE SteamUp \/ SteamTake \/ SteamLookup \/ SteamThrow
    <2>1. /\ UNCHANGED <<alive, poolVars, mapVars, gameVars, workerVars, scriptVars>>
          /\ steam' \in {"sleep", "lookup", "answer", "dead"}
      BY <1>1 DEF SteamUp, SteamTake, SteamLookup, SteamThrow
    <2>2. query_queue' \in Seq(Job) /\ batch' \in Seq(Job)
      <3>1. query_queue \in Seq(Job) /\ batch \in Seq(Job) /\ <<>> \in Seq(Job)
        BY DEF TInv, TypeOK
      <3>2. query_queue' \in {query_queue, <<>>} /\ batch' \in {batch, query_queue, <<>>}
        BY <1>1 DEF SteamUp, SteamTake, SteamLookup, SteamThrow
      <3> QED BY <3>1, <3>2
    <2>3. TypeOK'
      BY <2>1, <2>2 DEF TInv, TypeOK, poolVars, mapVars, gameVars, workerVars, scriptVars
    <2>4. Holding'
      BY <2>1 DEF TInv, Holding, poolVars, gameVars, workerVars, scriptVars
    <2> QED BY <2>3, <2>4 DEF TInv
  <1>2. CASE SteamAnswer
    BY <1>2, SteamAnswerType
  <1> QED BY <1>1, <1>2 DEF SteamStep

-----------------------------------------------------------------------------
\* The extension starts with no thread in a call.
LEMMA InitType == Init => TInv
  <1> SUFFICES ASSUME Init PROVE TInv
    OBVIOUS
  <1>1. alive \in BOOLEAN /\ clashed \in BOOLEAN
    BY DEF Init
  <1>2. results \in [AnyId -> Piece \cup {Absent}] /\ answer \in [Reqs -> Nat]
    BY DEF Init
  <1>3. TypeOK
    BY <1>1, <1>2 DEF Init, TypeOK, AnyId
  <1>4. Holding
    BY DEF Init, Holding
  <1> QED BY <1>3, <1>4 DEF TInv

\* Every step of the extension keeps the types.
LEMMA NextType ==
    ASSUME TInv, [Next]_vars PROVE TInv'
  <1>1. CASE GameStep
    BY <1>1, AsyncRegisterType, SyncResultType, SyncTakeIdType, StartStopType,
       AsyncUnknownType, AsyncPostType, SyncErrorType, SyncReplyType, SyncSaveType
       DEF GameStep
  <1>2. CASE StartVac \/ Stop \/ TakeIdFromEmpty
    BY <1>2, StartStopType
  <1>3. CASE SteamStep
    BY <1>3, SteamStepType
  <1>4. ASSUME NEW s \in Scripts, NewCall(s) \/ Poll(s) PROVE TInv'
    BY <1>4, CallAsyncType, CallOnewayType, CallSyncType, GetSinglePartType, GetMultiPartType
       DEF NewCall, Poll
  <1>5. ASSUME NEW w \in Workers, WorkerStep(w) PROVE TInv'
    BY <1>5, WorkerStepType
  <1>6. CASE UNCHANGED vars
    BY <1>6 DEF TInv, TypeOK, Holding, vars, poolVars, mapVars, gameVars, workerVars,
                steamVars, scriptVars
  <1> QED BY <1>1, <1>2, <1>3, <1>4, <1>5, <1>6 DEF Next

\* Whatever the threads do, for every number of scripts, workers, ids and
\* calls, the shared maps, the queues and the variables of every thread have
\* their types: no id outside the pool is registered, freed or polled, and
\* nothing but pieces of answers to calls that were made is ever stored
\* (saveResult, freeUniqueID, getSinglePartResult, getMultiPartResult).
THEOREM CallsTyped == Spec => []TypeOK
  <1>1. Init => TInv
    BY InitType
  <1>2. TInv /\ [Next]_vars => TInv'
    BY NextType
  <1>3. TInv => TypeOK
    BY DEF TInv
  <1> QED BY <1>1, <1>2, <1>3, PTL DEF Spec

-----------------------------------------------------------------------------
(* Owners of ids and answers to calls *)

\* The ids of the jobs in a queue; 0 is the id of no call.
JobsIn(q) == {q[n].id : n \in DOMAIN q} \ {0}
Distinct(q) == \A m, n \in DOMAIN q : q[m].id = q[n].id /\ q[m].id # 0 => m = n

GameId    == IF gpc = "post" THEN {cur.id} ELSE {}
QueueIds  == JobsIn(queue)
WorkerIds == {job[w].id : w \in Workers} \ {0}
QueryIds  == JobsIn(query_queue)
BatchIds  == JobsIn(batch)
TakenIds  == {taken[w] : w \in Workers} \ {0}

\* Five sets of ids, no two of which meet.
Apart(A, B, C, D, E) ==
    /\ A \cap B = {} /\ A \cap C = {} /\ A \cap D = {} /\ A \cap E = {}
    /\ B \cap C = {} /\ B \cap D = {} /\ B \cap E = {}
    /\ C \cap D = {} /\ C \cap E = {} /\ D \cap E = {}

\* The owners of an id, and the places a call passes on its way to a save.
Owners == Apart(free, InCall, waiting, Stored, TakenIds)
Routes == /\ Apart(GameId, QueueIds, WorkerIds, QueryIds, BatchIds)
          /\ (GameId \cup QueueIds \cup WorkerIds \cup QueryIds \cup BatchIds) \subseteq waiting

\* No two jobs in one place have the same id.
Lines ==
    /\ Distinct(queue) /\ Distinct(query_queue) /\ Distinct(batch)
    /\ \A v, w \in Workers : job[v].id = job[w].id /\ job[v].id # 0 => v = w

InProc(w) == wpc[w] \in {"procName", "procSql"}

\* An idle thread has no job, and only a worker inside a procedure has an id
\* of its own, which is no other worker's.
Local ==
    /\ \A w \in Workers : wpc[w] = "idle" => job[w] = NoJob
    /\ steam \notin {"lookup", "answer"} => batch = <<>>
    /\ \A w \in Workers : taken[w] # 0 => InProc(w)
    /\ \A v, w \in Workers : taken[v] = taken[w] /\ taken[v] # 0 => v = w

SInv == TInv /\ Owners /\ Routes /\ Lines /\ Local

-----------------------------------------------------------------------------
(* Queues and maps.                                                        *)

\* Appending a job adds its id, and no two jobs share one if its id is new.
LEMMA AppendIds ==
    ASSUME NEW q \in Seq(Job), NEW j \in Job
    PROVE  /\ JobsIn(Append(q, j)) = JobsIn(q) \cup ({j.id} \ {0})
           /\ Distinct(q) /\ j.id \notin JobsIn(q) => Distinct(Append(q, j))
  <1>1. /\ DOMAIN Append(q, j) = 1..(Len(q) + 1) /\ DOMAIN q = 1..Len(q)
        /\ \A n \in 1..Len(q) : Append(q, j)[n] = q[n]
        /\ Append(q, j)[Len(q) + 1] = j
        /\ Len(q) \in Nat
    OBVIOUS
  <1>2. JobsIn(Append(q, j)) = JobsIn(q) \cup ({j.id} \ {0})
    BY <1>1 DEF JobsIn
  <1>3. ASSUME Distinct(q), j.id \notin JobsIn(q) PROVE Distinct(Append(q, j))
    BY <1>1, <1>3 DEF Distinct, JobsIn
  <1> QED BY <1>2, <1>3

\* Taking the head removes no id but its own.
LEMMA TailKeeps ==
    ASSUME NEW q \in Seq(Job), q # <<>>
    PROVE  JobsIn(q) \ {Head(q).id} \subseteq JobsIn(Tail(q))
  <1>1. /\ DOMAIN Tail(q) = 1..(Len(q) - 1) /\ DOMAIN q = 1..Len(q)
        /\ \A n \in 1..(Len(q) - 1) : Tail(q)[n] = q[n + 1]
        /\ Head(q) = q[1]
        /\ Len(q) \in Nat \ {0}
    OBVIOUS
  <1>2. \A n \in DOMAIN q : n = 1 \/ (n - 1 \in DOMAIN Tail(q) /\ q[n] = Tail(q)[n - 1])
    BY <1>1
  <1> SUFFICES ASSUME NEW n \in DOMAIN q, q[n].id # 0, q[n].id # Head(q).id
               PROVE  q[n].id \in JobsIn(Tail(q))
    BY DEF JobsIn
  <1>3. n - 1 \in DOMAIN Tail(q) /\ q[n] = Tail(q)[n - 1]
    BY <1>1, <1>2
  <1> QED BY <1>3 DEF JobsIn

\* Taking the head removes its id, which no other job has.
LEMMA TailIds ==
    ASSUME NEW q \in Seq(Job), q # <<>>, Distinct(q)
    PROVE  /\ JobsIn(Tail(q)) = JobsIn(q) \ {Head(q).id}
           /\ Distinct(Tail(q))
           /\ Head(q).id # 0 => Head(q).id \in JobsIn(q)
  <1>1. /\ DOMAIN Tail(q) = 1..(Len(q) - 1) /\ DOMAIN q = 1..Len(q)
        /\ \A n \in 1..(Len(q) - 1) : Tail(q)[n] = q[n + 1]
        /\ Head(q) = q[1]
        /\ Len(q) \in Nat \ {0}
    OBVIOUS
  <1>3. \A n \in DOMAIN Tail(q) : n + 1 \in DOMAIN q /\ n + 1 # 1 /\ Tail(q)[n] = q[n + 1]
    BY <1>1
  <1>4. Head(q) = q[1] /\ 1 \in DOMAIN q
    BY <1>1
  <1>5. JobsIn(Tail(q)) \subseteq JobsIn(q) \ {Head(q).id}
    <2> SUFFICES ASSUME NEW n \in DOMAIN Tail(q), Tail(q)[n].id # 0
                 PROVE  Tail(q)[n].id \in JobsIn(q) \ {Head(q).id}
      BY DEF JobsIn
    <2>1. q[n + 1].id # q[1].id
      BY <1>3, <1>4 DEF Distinct
    <2> QED BY <2>1, <1>3, <1>4 DEF JobsIn
  <1>6. JobsIn(q) \ {Head(q).id} \subseteq JobsIn(Tail(q))
    BY TailKeeps
  <1>7. Distinct(Tail(q))
    BY <1>1 DEF Distinct
  <1>8. Head(q).id # 0 => Head(q).id \in JobsIn(q)
    BY <1>4 DEF JobsIn
  <1> QED BY <1>5, <1>6, <1>7, <1>8

LEMMA EmptyIds == JobsIn(<<>>) = {} /\ Distinct(<<>>)
  BY DEF JobsIn, Distinct

\* saveResult adds a stored id.
LEMMA StoredSave ==
    ASSUME TInv, NEW id \in AnyId, NEW r \in Reqs, NEW n \in Nat, SaveResult(id, r, n)
    PROVE  Stored' = Stored \cup ({id} \cap Ids) /\ waiting' = waiting \ {id}
  <1>1. [req |-> r, from |-> 0, to |-> n] # Absent
    BY DEF Absent, Reqs
  <1>2. \A i \in Ids : i \in AnyId
    BY DEF AnyId
  <1>3. results' = [results EXCEPT ![id] = [req |-> r, from |-> 0, to |-> n]]
    BY DEF SaveResult
  <1>4. \A i \in Ids : results'[i] # Absent <=> (results[i] # Absent \/ i = id)
    BY <1>1, <1>2, <1>3 DEF TInv, TypeOK
  <1> QED BY <1>4 DEF Stored, SaveResult

\* Erasing an entry removes a stored id.
LEMMA StoredErase ==
    ASSUME TInv, NEW k \in AnyId, results' = [results EXCEPT ![k] = Absent]
    PROVE  Stored' = Stored \ {k}
  <1>1. \A i \in Ids : i \in AnyId
    BY DEF AnyId
  <1>2. \A i \in Ids : results'[i] # Absent <=> (results[i] # Absent /\ i # k)
    BY <1>1 DEF TInv, TypeOK
  <1> QED BY <1>2 DEF Stored

\* At most the freed id becomes free.
LEMMA GiveBackIn ==
    ASSUME NEW F, NEW i PROVE GiveBack(F, i) \subseteq F \cup {i}
  BY DEF GiveBack

\* 0 is the id of no call.
LEMMA NoZero == 0 \notin Ids
  BY IdsAssumption DEF Ids

-----------------------------------------------------------------------------
(* The game thread.  Each action is a calculation with the sets of ids it  *)
(* moves; what it does not touch keeps its part of the invariant.          *)

LEMMA CallAsyncSafe ==
    ASSUME SInv, NEW s \in Scripts, CallAsync(s) PROVE SInv'
  <1>1. PICK call \in Calls, id \in free :
           TakeId(id) /\ cur' = [call |-> call, req |-> made + 1, id |-> id]
    BY DEF CallAsync
  <1>2. /\ free' = free \ {id} /\ InCall = {} /\ InCall' = {id}
        /\ GameId = {} /\ GameId' = {}
    BY <1>1 DEF CallAsync, Enter, TakeId, InCall, GameId
  <1>3. UNCHANGED <<waiting, Stored, TakenIds, QueueIds, WorkerIds, QueryIds, BatchIds,
                    queue, query_queue, batch, job, wpc, taken, unique_id_proc, steam>>
    BY DEF CallAsync, mapVars, workerVars, steamVars, Stored, TakenIds, QueueIds,
           WorkerIds, QueryIds, BatchIds
  <1>4. Owners'
    BY <1>1, <1>2, <1>3 DEF SInv, Owners, Apart
  <1>5. Routes'
    BY <1>2, <1>3 DEF SInv, Routes
  <1>6. Lines' /\ Local'
    BY <1>3 DEF SInv, Lines, Local, InProc
  <1> QED BY <1>4, <1>5, <1>6, CallAsyncType DEF SInv

LEMMA AsyncRegisterSafe ==
    ASSUME SInv, AsyncRegister PROVE SInv'
  <1>1. /\ InCall = {cur.id} /\ InCall' = {} /\ waiting' = waiting \cup {cur.id}
        /\ GameId = {} /\ GameId' = {cur.id}
    BY DEF AsyncRegister, InCall, GameId
  <1>2. UNCHANGED <<free, Stored, TakenIds, QueueIds, WorkerIds, QueryIds, BatchIds,
                    queue, query_queue, batch, job, wpc, taken, unique_id_proc, steam>>
    BY DEF AsyncRegister, poolVars, steamVars, Stored, TakenIds, QueueIds, WorkerIds,
           QueryIds, BatchIds, workerVars
  <1>3. Owners'
    BY <1>1, <1>2 DEF SInv, Owners, Apart
  <1>4. Routes'
    <2>1. cur.id \notin waiting
      BY <1>1 DEF SInv, Owners, Apart
    <2> QED BY <1>1, <1>2, <2>1 DEF SInv, Routes, Apart
  <1>5. Lines' /\ Local'
    BY <1>2 DEF SInv, Lines, Local, InProc
  <1> QED BY <1>3, <1>4, <1>5, AsyncRegisterType DEF SInv

LEMMA AsyncUnknownSafe ==
    ASSUME SInv, NEW s \in Scripts, AsyncUnknown(s) PROVE SInv'
  <1>1. /\ InCall = {cur.id} /\ InCall' = {} /\ GameId = {} /\ GameId' = {}
        /\ free' \subseteq free \cup {cur.id}
    BY GiveBackIn DEF AsyncUnknown, ReplyNow, InCall, GameId
  <1>2. UNCHANGED <<waiting, Stored, TakenIds, QueueIds, WorkerIds, QueryIds, BatchIds,
                    queue, query_queue, batch, job, wpc, taken, unique_id_proc, steam>>
    BY DEF AsyncUnknown, mapVars, workerVars, steamVars, Stored, TakenIds, QueueIds,
           WorkerIds, QueryIds, BatchIds
  <1>3. Owners'
    BY <1>1, <1>2 DEF SInv, Owners, Apart
  <1>4. Routes'
    BY <1>1, <1>2 DEF SInv, Routes
  <1>5. Lines' /\ Local'
    BY <1>2 DEF SInv, Lines, Local, InProc
  <1> QED BY <1>3, <1>4, <1>5, AsyncUnknownType DEF SInv

LEMMA AsyncPostSafe ==
    ASSUME SInv, NEW s \in Scripts, AsyncPost(s) PROVE SInv'
  <1>1. cur \in Job /\ cur.id \in Ids /\ cur.id # 0 /\ queue \in Seq(Job)
    BY NoZero DEF SInv, TInv, TypeOK, Holding, AsyncPost
  <1>2. /\ InCall = {} /\ InCall' = {} /\ GameId = {cur.id} /\ GameId' = {}
        /\ queue' = Append(queue, cur)
    BY DEF AsyncPost, ReplyId, InCall, GameId
  <1>3. cur.id \notin QueueIds
    BY <1>2 DEF SInv, Routes, Apart
  <1>4. QueueIds' = QueueIds \cup {cur.id} /\ Distinct(queue')
    BY <1>1, <1>2, <1>3, AppendIds DEF QueueIds, SInv, Lines
  <1>5. UNCHANGED <<free, waiting, Stored, TakenIds, WorkerIds, QueryIds, BatchIds,
                    query_queue, batch, job, wpc, taken, unique_id_proc, steam>>
    BY DEF AsyncPost, poolVars, mapVars, steamVars, Stored, TakenIds, WorkerIds,
           QueryIds, BatchIds
  <1>6. Owners'
    BY <1>2, <1>5 DEF SInv, Owners
  <1>7. Routes'
    BY <1>2, <1>4, <1>5 DEF SInv, Routes, Apart
  <1>8. Lines' /\ Local'
    BY <1>4, <1>5 DEF SInv, Lines, Local, InProc
  <1> QED BY <1>6, <1>7, <1>8, AsyncPostType DEF SInv

LEMMA CallOnewaySafe ==
    ASSUME SInv, NEW s \in Scripts, CallOneway(s) PROVE SInv'
  <1>1. PICK call \in Calls :
           /\ Enter(s)
           /\ queue' = Append(queue, [call |-> call, req |-> made + 1, id |-> 0])
    BY DEF CallOneway, OnewayId
  <1>2. [call |-> call, req |-> made + 1, id |-> 0] \in Job /\ queue \in Seq(Job)
    BY <1>1, EnterType DEF SInv, TInv, TypeOK, Job, AnyId
  <1>3. 0 \notin JobsIn(queue)
    BY DEF JobsIn
  <1>4. QueueIds' = QueueIds /\ Distinct(queue')
    <2> DEFINE j == [call |-> call, req |-> made + 1, id |-> 0]
    <2>1. j \in Job /\ j.id = 0 /\ queue' = Append(queue, j)
      BY <1>1, <1>2
    <2> HIDE DEF j
    <2>2. /\ JobsIn(Append(queue, j)) = JobsIn(queue) \cup ({j.id} \ {0})
          /\ Distinct(queue) /\ j.id \notin JobsIn(queue) => Distinct(Append(queue, j))
      BY <1>2, <2>1, AppendIds
    <2>3. Distinct(queue)
      BY DEF SInv, Lines
    <2> QED BY <1>3, <2>1, <2>2, <2>3 DEF QueueIds
  <1>5. UNCHANGED <<free, InCall, waiting, Stored, TakenIds, GameId, WorkerIds, QueryIds,
                    BatchIds, query_queue, batch, job, wpc, taken, unique_id_proc, steam>>
    BY DEF CallOneway, poolVars, mapVars, gameVars, steamVars, InCall, Stored, TakenIds,
           GameId, WorkerIds, QueryIds, BatchIds
  <1>6. Owners' /\ Routes'
    BY <1>4, <1>5 DEF SInv, Owners, Routes
  <1>7. Lines' /\ Local'
    BY <1>4, <1>5 DEF SInv, Lines, Local, InProc
  <1> QED BY <1>6, <1>7, CallOnewayType DEF SInv

\* Steps that move no id between two places.
LEMMA StillSafe ==
    ASSUME SInv, TInv',
           UNCHANGED <<free, InCall, waiting, Stored, TakenIds, GameId, queue, query_queue,
                       batch, job, wpc, taken, unique_id_proc>>,
           steam' \in {"lookup", "answer"} \/ batch = <<>>
    PROVE  SInv'
  <1>1. UNCHANGED <<QueueIds, WorkerIds, QueryIds, BatchIds>>
    BY DEF QueueIds, WorkerIds, QueryIds, BatchIds
  <1>2. Owners' /\ Routes'
    BY <1>1 DEF SInv, Owners, Routes
  <1>3. Lines' /\ Local'
    BY DEF SInv, Lines, Local, InProc
  <1> QED BY <1>2, <1>3 DEF SInv

LEMMA SyncCallSafe ==
    ASSUME SInv,
           SyncResult \/ \E s \in Scripts : CallSync(s) \/ SyncError(s) \/ SyncReply(s)
    PROVE  SInv'
  <1>1. TInv'
    BY CallSyncType, SyncErrorType, SyncReplyType, SyncResultType DEF SInv
  <1>2. /\ gpc \notin {"lookup", "post", "syncSave"}
        /\ gpc' \notin {"lookup", "post", "syncSave"}
    BY DEF CallSync, SyncError, SyncReply, SyncResult, Enter, ReplyNow
  <1>3. UNCHANGED <<InCall, GameId>>
    BY <1>2 DEF InCall, GameId
  <1>4. UNCHANGED <<free, waiting, Stored, TakenIds, queue, query_queue, batch, job, wpc,
                    taken, unique_id_proc, steam>>
    BY DEF CallSync, SyncError, SyncReply, SyncResult, poolVars, mapVars, workerVars,
           steamVars, Stored, TakenIds
  <1>5. steam' \in {"lookup", "answer"} \/ batch = <<>>
    BY <1>4 DEF SInv, Local
  <1> QED BY <1>1, <1>3, <1>4, <1>5, StillSafe

LEMMA SyncTakeIdSafe ==
    ASSUME SInv, SyncTakeId PROVE SInv'
  <1>1. PICK id \in free : TakeId(id) /\ cur' = [cur EXCEPT !.id = id]
    BY DEF SyncTakeId
  <1>2. cur'.id = id
    BY <1>1 DEF SInv, TInv, Holding, SyncTakeId, Job
  <1>3. /\ free' = free \ {id} /\ InCall = {} /\ InCall' = {id}
        /\ GameId = {} /\ GameId' = {}
    BY <1>1, <1>2 DEF SyncTakeId, TakeId, InCall, GameId
  <1>4. UNCHANGED <<waiting, Stored, TakenIds, QueueIds, WorkerIds, QueryIds, BatchIds,
                    queue, query_queue, batch, job, wpc, taken, unique_id_proc, steam>>
    BY DEF SyncTakeId, mapVars, workerVars, steamVars, Stored, TakenIds, QueueIds,
           WorkerIds, QueryIds, BatchIds
  <1>5. Owners'
    BY <1>1, <1>3, <1>4 DEF SInv, Owners, Apart
  <1>6. Routes'
    BY <1>3, <1>4 DEF SInv, Routes
  <1>7. Lines' /\ Local'
    BY <1>4 DEF SInv, Lines, Local, InProc
  <1> QED BY <1>5, <1>6, <1>7, SyncTakeIdType DEF SInv

LEMMA SyncSaveSafe ==
    ASSUME SInv, NEW s \in Scripts, SyncSave(s) PROVE SInv'
  <1>1. /\ cur.req \in Reqs /\ answer[cur.req] \in Nat /\ cur.id \in Ids
        /\ cur.id \in AnyId
    BY DEF SInv, TInv, TypeOK, Holding, SyncSave, Job, AnyId
  <1>2. Stored' = Stored \cup {cur.id} /\ waiting' = waiting \ {cur.id}
    BY <1>1, StoredSave DEF SyncSave, SInv
  <1>3. /\ InCall = {cur.id} /\ InCall' = {} /\ GameId = {} /\ GameId' = {}
    BY DEF SyncSave, ReplyId, InCall, GameId
  <1>4. UNCHANGED <<free, TakenIds, QueueIds, WorkerIds, QueryIds, BatchIds,
                    queue, query_queue, batch, job, wpc, taken, unique_id_proc, steam>>
    BY DEF SyncSave, poolVars, workerVars, steamVars, TakenIds, QueueIds, WorkerIds,
           QueryIds, BatchIds
  <1>5. Owners'
    BY <1>2, <1>3, <1>4 DEF SInv, Owners, Apart
  <1>6. Routes'
    <2>1. cur.id \notin waiting
      BY <1>3 DEF SInv, Owners, Apart
    <2> QED BY <1>2, <1>3, <1>4, <2>1 DEF SInv, Routes
  <1>7. Lines' /\ Local'
    BY <1>4 DEF SInv, Lines, Local, InProc
  <1> QED BY <1>5, <1>6, <1>7, SyncSaveType DEF SInv

LEMMA StartStopSafe ==
    ASSUME SInv, StartVac \/ Stop \/ WorkersJoined \/ TakeIdFromEmpty PROVE SInv'
  <1>1. TInv'
    BY StartStopType DEF SInv
  <1>2. UNCHANGED <<InCall, GameId>>
    BY DEF StartVac, Stop, WorkersJoined, TakeIdFromEmpty, InCall, GameId, gameVars
  <1>3. UNCHANGED <<free, waiting, Stored, TakenIds, queue, query_queue, batch, job, wpc,
                    taken, unique_id_proc>>
    BY DEF StartVac, Stop, WorkersJoined, TakeIdFromEmpty, poolVars, mapVars, workerVars,
           steamVars, Stored, TakenIds
  <1>4. steam' \in {"lookup", "answer"} \/ batch = <<>>
    BY DEF SInv, Local, StartVac, Stop, WorkersJoined, TakeIdFromEmpty, steamVars
  <1> QED BY <1>1, <1>2, <1>3, <1>4, StillSafe

\* A read either leaves the entry there, or erases it and frees its id.
LEMMA ReadSafe ==
    ASSUME SInv, TInv', NEW k \in Ids,
           UNCHANGED <<waiting, taken, unique_id_proc, gameVars, workerVars, steamVars>>,
           \/ UNCHANGED <<free, Stored>>
           \/ k \in Stored /\ Stored' = Stored \ {k} /\ free' \subseteq free \cup {k}
    PROVE  SInv'
  <1>1. UNCHANGED <<InCall, TakenIds, GameId, QueueIds, WorkerIds, QueryIds, BatchIds,
                    queue, query_queue, batch, job, wpc, steam>>
    BY DEF gameVars, workerVars, steamVars, InCall, TakenIds, GameId, QueueIds, WorkerIds,
           QueryIds, BatchIds
  <1>2. Owners'
    BY <1>1 DEF SInv, Owners, Apart
  <1>3. Routes'
    BY <1>1 DEF SInv, Routes
  <1>4. Lines' /\ Local'
    BY <1>1 DEF SInv, Lines, Local, InProc
  <1> QED BY <1>2, <1>3, <1>4 DEF SInv

LEMMA PollSafe ==
    ASSUME SInv, NEW s \in Scripts, Poll(s) PROVE SInv'
  <1> DEFINE k == key[s]
             p == results[k]
  <1>1. TInv'
    BY GetSinglePartType, GetMultiPartType DEF SInv, Poll
  <1>2. k \in Ids /\ k \in AnyId
    BY DEF SInv, TInv, Holding, Poll, GetSinglePart, GetMultiPart, AnyId
  <1>3. UNCHANGED <<waiting, taken, unique_id_proc, gameVars, workerVars, steamVars>>
    BY DEF Poll, GetSinglePart, GetMultiPart
  <1>4. CASE /\ p # Absent
             /\ results' = [results EXCEPT ![k] = Absent] /\ free' = GiveBack(free, k)
    <2>1. k \in Stored
      BY <1>2, <1>4 DEF Stored
    <2>2. Stored' = Stored \ {k}
      BY <1>2, <1>4, StoredErase DEF SInv
    <2>3. free' \subseteq free \cup {k}
      BY <1>4, GiveBackIn
    <2> QED BY <1>1, <1>2, <1>3, <2>1, <2>2, <2>3, ReadSafe
  <1>5. CASE UNCHANGED <<free, results>>
    <2>1. UNCHANGED Stored
      BY <1>5 DEF Stored
    <2> QED BY <1>1, <1>2, <1>3, <1>5, <2>1, ReadSafe
  <1>6. CASE /\ p = Absent /\ free' = free
             /\ results' = [results EXCEPT ![k] = Absent]
    <2>1. Stored' = Stored \ {k} /\ k \notin Stored
      BY <1>2, <1>6, StoredErase DEF SInv, Stored
    <2> QED BY <1>1, <1>2, <1>3, <1>6, <2>1, ReadSafe
  <1>7. CASE /\ p # Absent /\ free' = free
             /\ results' = [results EXCEPT ![k].from = RestFrom(p)]
    <2>1. p \in Piece
      BY <1>2, <1>7 DEF SInv, TInv, TypeOK
    <2>2. results' = [results EXCEPT ![k] = [p EXCEPT !.from = RestFrom(p)]]
      BY <1>7
    <2>3. [p EXCEPT !.from = RestFrom(p)] # Absent
      BY <2>1 DEF Piece, Absent, Reqs
    <2>4. \A i \in Ids : results'[i] # Absent <=> results[i] # Absent
      BY <1>2, <1>7, <2>2, <2>3 DEF SInv, TInv, TypeOK, AnyId
    <2>5. UNCHANGED Stored
      BY <2>4 DEF Stored
    <2> QED BY <1>1, <1>2, <1>3, <1>7, <2>5, ReadSafe
  <1> QED BY <1>4, <1>5, <1>6, <1>7 DEF Poll, GetSinglePart, GetMultiPart

-----------------------------------------------------------------------------
(* The worker threads.                                                     *)

LEMMA TakeSafe ==
    ASSUME SInv, NEW w \in Workers, Take(w) PROVE SInv'
  <1> DEFINE j == Head(queue)
  <1>1. /\ queue \in Seq(Job) /\ queue # <<>> /\ Distinct(queue) /\ j \in Job
        /\ job \in [Workers -> Job \cup {NoJob}] /\ wpc \in [Workers -> {"idle", "run", "procName", "procSql", "procDone"}]
    BY DEF SInv, TInv, TypeOK, Lines, Take
  <1>2. /\ QueueIds' = QueueIds \ {j.id} /\ Distinct(queue')
        /\ j.id # 0 => j.id \in QueueIds
    BY <1>1, TailIds DEF QueueIds, Take
  <1>3. job[w].id = 0 /\ ~InProc(w) /\ ~InProc(w)' /\ wpc'[w] # "idle"
    BY <1>1 DEF SInv, Local, Take, NoJob, InProc
  <1>4. job' = [job EXCEPT ![w] = j] /\ \A v \in Workers \ {w} : wpc'[v] = wpc[v]
    BY <1>1 DEF Take
  <1> HIDE DEF j
  <1>5. WorkerIds' = WorkerIds \cup ({j.id} \ {0})
    BY <1>1, <1>3, <1>4 DEF WorkerIds
  <1>6. UNCHANGED <<free, InCall, waiting, Stored, TakenIds, GameId, QueryIds, BatchIds,
                    query_queue, batch, taken, unique_id_proc, steam>>
    BY DEF Take, poolVars, mapVars, gameVars, steamVars, InCall, Stored, TakenIds, GameId,
           QueryIds, BatchIds
  <1>7. Owners'
    BY <1>6 DEF SInv, Owners
  <1>8. Routes'
    BY <1>2, <1>5, <1>6 DEF SInv, Routes, Apart
  <1>9. Lines'
    <2>1. j.id # 0 => \A v \in Workers : job[v].id # j.id
      BY <1>2 DEF SInv, Routes, Apart, WorkerIds
    <2>2. \A u, v \in Workers : job'[u].id = job'[v].id /\ job'[u].id # 0 => u = v
      BY <1>1, <1>3, <1>4, <2>1 DEF SInv, Lines
    <2> QED BY <1>2, <1>6, <2>2 DEF SInv, Lines
  <1>10. Local'
    BY <1>1, <1>3, <1>4, <1>6 DEF SInv, Local, InProc
  <1> QED BY <1>7, <1>8, <1>9, <1>10, TakeType DEF SInv

\* What a worker leaves behind when its handler ends.
LEMMA FinishSets ==
    ASSUME SInv, NEW w \in Workers, Finish(w), ~InProc(w),
           UNCHANGED <<taken, unique_id_proc, steam, batch>>
    PROVE  /\ WorkerIds' = WorkerIds \ {job[w].id}
           /\ \A u, v \in Workers : job'[u].id = job'[v].id /\ job'[u].id # 0 => u = v
           /\ Local'
           /\ UNCHANGED <<queue, QueueIds>>
  <1>1. /\ job \in [Workers -> Job \cup {NoJob}] /\ NoJob.id = 0
        /\ wpc \in [Workers -> {"idle", "run", "procName", "procSql", "procDone"}]
    BY DEF SInv, TInv, TypeOK, NoJob
  <1>2. job' = [job EXCEPT ![w] = NoJob] /\ wpc' = [wpc EXCEPT ![w] = "idle"]
    BY DEF Finish
  <1>3. WorkerIds' = WorkerIds \ {job[w].id}
    <2>1. \A v \in Workers \ {w} : job'[v] = job[v]
      BY <1>1, <1>2
    <2>2. job'[w].id = 0
      BY <1>1, <1>2
    <2>3. \A v \in Workers \ {w} : job[v].id # 0 => job[v].id # job[w].id
      BY DEF SInv, Lines
    <2> QED BY <2>1, <2>2, <2>3 DEF WorkerIds
  <1>4. \A u, v \in Workers : job'[u].id = job'[v].id /\ job'[u].id # 0 => u = v
    BY <1>1, <1>2 DEF SInv, Lines
  <1>5. Local'
    BY <1>1, <1>2 DEF SInv, Local, InProc
  <1>6. UNCHANGED <<queue, QueueIds>>
    BY DEF Finish, QueueIds
  <1> QED BY <1>3, <1>4, <1>5, <1>6

\* A handler that ends without saving: its id stays waiting.
LEMMA DropSafe ==
    ASSUME SInv, NEW w \in Workers, DropUnknown(w) \/ ReturnFalse(w) PROVE SInv'
  <1>1. /\ Finish(w) /\ ~InProc(w)
        /\ UNCHANGED <<alive, poolVars, mapVars, gameVars, steamVars, scriptVars>>
    BY DEF DropUnknown, ReturnFalse, Runs, InProc
  <1>2. UNCHANGED <<free, InCall, waiting, Stored, TakenIds, GameId, QueryIds, BatchIds,
                    query_queue, batch, taken, unique_id_proc, steam>>
    BY <1>1 DEF poolVars, mapVars, gameVars, steamVars, InCall, Stored, TakenIds, GameId,
                QueryIds, BatchIds
  <1>3. /\ WorkerIds' = WorkerIds \ {job[w].id}
        /\ \A u, v \in Workers : job'[u].id = job'[v].id /\ job'[u].id # 0 => u = v
        /\ Local'
        /\ UNCHANGED <<queue, QueueIds>>
    BY <1>1, <1>2, FinishSets
  <1>4. Owners'
    BY <1>2 DEF SInv, Owners
  <1>5. Routes'
    BY <1>2, <1>3 DEF SInv, Routes, Apart
  <1>6. Lines'
    BY <1>2, <1>3 DEF SInv, Lines
  <1> QED BY <1>3, <1>4, <1>5, <1>6, DropType DEF SInv

\* A handler that saves under its id, or whose id is 0.
LEMMA SavedSafe ==
    ASSUME SInv, NEW w \in Workers, wpc[w] # "idle", ~InProc(w), Finish(w), TInv',
           UNCHANGED <<alive, poolVars, gameVars, steamVars, scriptVars>>,
           \/ job[w].id = 0 /\ UNCHANGED mapVars
           \/ \E n \in Lengths : SaveResult(job[w].id, job[w].req, n + Wrap)
    PROVE  SInv'
  <1> DEFINE i == job[w].id
  <1>1. UNCHANGED <<free, InCall, TakenIds, GameId, QueryIds, BatchIds,
                    query_queue, batch, taken, unique_id_proc, steam>>
    BY DEF poolVars, gameVars, steamVars, InCall, TakenIds, GameId, QueryIds, BatchIds
  <1>2. /\ WorkerIds' = WorkerIds \ {i}
        /\ \A u, v \in Workers : job'[u].id = job'[v].id /\ job'[u].id # 0 => u = v
        /\ Local'
        /\ UNCHANGED <<queue, QueueIds>>
    BY <1>1, FinishSets
  <1>3. job[w] \in Job /\ i \in AnyId /\ job[w].req \in Reqs
    BY DEF SInv, TInv, Holding, Job
  <1>4. /\ waiting' = waiting \ {i}
        /\ Stored' = Stored \cup ({i} \cap Ids)
    <2>1. CASE i = 0 /\ UNCHANGED mapVars
      <3>1. i \notin waiting /\ i \notin Ids
        BY <2>1, NoZero DEF SInv, TInv, TypeOK
      <3>2. UNCHANGED <<waiting, Stored>>
        BY <2>1 DEF mapVars, Stored
      <3> QED BY <3>1, <3>2
    <2>2. CASE \E n \in Lengths : SaveResult(i, job[w].req, n + Wrap)
      <3>1. PICK n \in Lengths : SaveResult(i, job[w].req, n + Wrap)
        BY <2>2
      <3>2. n + Wrap \in Nat
        BY AnswerLength
      <3> QED BY <1>3, <3>1, <3>2, StoredSave DEF SInv
    <2> QED BY <2>1, <2>2
  <1>5. i \in waiting \/ i = 0
    BY DEF SInv, Routes, WorkerIds
  <1>6. Owners'
    <2>1. CASE i = 0
      <3>1. waiting' = waiting /\ Stored' = Stored
        BY <1>4, <2>1, NoZero DEF SInv, TInv, TypeOK
      <3> QED BY <1>1, <3>1 DEF SInv, Owners
    <2>2. CASE i \in waiting
      BY <1>1, <1>4, <2>2 DEF SInv, Owners, Apart
    <2> QED BY <1>5, <2>1, <2>2
  <1>7. Routes'
    <2>1. i # 0 => i \in WorkerIds
      BY DEF WorkerIds
    <2>2. CASE i = 0
      <3>1. waiting' = waiting
        BY <1>4, <2>2, NoZero DEF SInv, TInv, TypeOK
      <3> QED BY <1>1, <1>2, <3>1 DEF SInv, Routes, Apart
    <2>3. CASE i \in WorkerIds
      BY <1>1, <1>2, <1>4, <2>3 DEF SInv, Routes, Apart
    <2> QED BY <2>1, <2>2, <2>3
  <1>8. Lines'
    BY <1>1, <1>2 DEF SInv, Lines
  <1> QED BY <1>2, <1>6, <1>7, <1>8 DEF SInv

LEMMA SavingStepSafe ==
    ASSUME SInv, NEW w \in Workers, Answer(w) \/ ProcReturn(w) \/ SteamDisabled(w)
    PROVE  SInv'
  <1>1. TInv'
    BY WorkerStepType DEF SInv, WorkerStep
  <1>2. /\ wpc[w] # "idle" /\ ~InProc(w) /\ Finish(w)
        /\ UNCHANGED <<alive, poolVars, gameVars, steamVars, scriptVars>>
    BY DEF Answer, ProcReturn, SteamDisabled, Returned, Runs, InProc
  <1>3. \/ job[w].id = 0 /\ UNCHANGED mapVars
        \/ \E n \in Lengths : SaveResult(job[w].id, job[w].req, n + Wrap)
    BY DEF Answer, ProcReturn, SteamDisabled, Returned
  <1> QED BY <1>1, <1>2, <1>3, SavedSafe

\* The query moves from the worker to the queue of the Steam thread.
LEMMA OffloadSafe ==
    ASSUME SInv, NEW w \in Workers, Offload(w) PROVE SInv'
  <1> DEFINE i == job[w].id
  <1>1. /\ Finish(w) /\ ~InProc(w) /\ query_queue' = Append(query_queue, job[w])
        /\ job[w] \in Job /\ query_queue \in Seq(Job)
    BY DEF Offload, Runs, InProc, SInv, TInv, TypeOK, Holding
  <1>2. UNCHANGED <<free, InCall, waiting, Stored, TakenIds, GameId, BatchIds,
                    batch, taken, unique_id_proc, steam>>
    BY DEF Offload, poolVars, mapVars, gameVars, InCall, Stored, TakenIds, GameId, BatchIds
  <1>3. /\ WorkerIds' = WorkerIds \ {i}
        /\ \A u, v \in Workers : job'[u].id = job'[v].id /\ job'[u].id # 0 => u = v
        /\ Local'
        /\ UNCHANGED <<queue, QueueIds>>
    BY <1>1, <1>2, FinishSets
  <1>4. i # 0 => i \in WorkerIds
    BY DEF WorkerIds
  <1>5. i \notin QueryIds
    BY <1>4 DEF SInv, Routes, Apart, QueryIds, JobsIn
  <1>6. QueryIds' = QueryIds \cup ({i} \ {0}) /\ Distinct(query_queue')
    BY <1>1, <1>5, AppendIds DEF QueryIds, SInv, Lines
  <1>7. Owners'
    BY <1>2 DEF SInv, Owners
  <1>8. Routes'
    BY <1>2, <1>3, <1>4, <1>6 DEF SInv, Routes, Apart
  <1>9. Lines'
    BY <1>2, <1>3, <1>6 DEF SInv, Lines
  <1> QED BY <1>3, <1>7, <1>8, <1>9, OffloadType DEF SInv

\* A step inside a procedure moves an id between the pool and one worker.
LEMMA ProcStillSafe ==
    ASSUME SInv, TInv', Local', NEW w \in Workers,
           UNCHANGED <<mapVars, gameVars, queue, job, steamVars>>,
           Apart(free', InCall, waiting, Stored, TakenIds')
    PROVE  SInv'
  <1>1. UNCHANGED <<InCall, waiting, Stored, GameId, QueueIds, WorkerIds, QueryIds,
                    BatchIds, query_queue, batch>>
    BY DEF mapVars, gameVars, steamVars, InCall, Stored, GameId, QueueIds, WorkerIds,
           QueryIds, BatchIds
  <1>2. Owners' /\ Routes'
    BY <1>1 DEF SInv, Owners, Routes
  <1>3. Lines'
    BY <1>1 DEF SInv, Lines
  <1> QED BY <1>2, <1>3 DEF SInv

LEMMA ProcTakeIdSafe ==
    ASSUME SInv, NEW w \in Workers, ProcTakeId(w) PROVE SInv'
  <1>1. PICK id \in free : /\ free' = free \ {id} /\ unique_id_proc' = id
                           /\ taken' = [taken EXCEPT ![w] = id]
    BY DEF ProcTakeId, TakeId
  <1>2. /\ wpc' = [wpc EXCEPT ![w] = "procName"] /\ wpc[w] = "run"
        /\ taken \in [Workers -> AnyId]
        /\ wpc \in [Workers -> {"idle", "run", "procName", "procSql", "procDone"}]
        /\ UNCHANGED <<mapVars, gameVars, queue, job, steamVars>>
    BY DEF SInv, TInv, TypeOK, ProcTakeId, Runs
  <1>3. id \notin TakenIds /\ id # 0
    BY NoZero DEF SInv, Owners, Apart, TInv, TypeOK
  <1>4. TakenIds' \subseteq TakenIds \cup {id}
    BY <1>1, <1>2 DEF TakenIds
  <1>5. Local'
    <2>1. \A v \in Workers : taken'[v] = IF v = w THEN id ELSE taken[v]
      BY <1>1, <1>2
    <2>2. \A v \in Workers : taken[v] # id
      BY <1>3 DEF TakenIds
    <2>3. \A u, v \in Workers : taken'[u] = taken'[v] /\ taken'[u] # 0 => u = v
      BY <2>1, <2>2 DEF SInv, Local
    <2> QED BY <1>2, <2>1, <2>3 DEF SInv, Local, InProc, steamVars
  <1>6. Apart(free', InCall, waiting, Stored, TakenIds')
    BY <1>1, <1>4 DEF SInv, Owners, Apart
  <1> QED BY <1>2, <1>5, <1>6, ProcType, ProcStillSafe DEF SInv

LEMMA ProcNameSafe ==
    ASSUME SInv, NEW w \in Workers, ProcName(w) PROVE SInv'
  <1>1. /\ wpc' = [wpc EXCEPT ![w] = "procSql"] /\ wpc[w] = "procName"
        /\ wpc \in [Workers -> {"idle", "run", "procName", "procSql", "procDone"}]
        /\ UNCHANGED <<free, taken, unique_id_proc>>
        /\ UNCHANGED <<mapVars, gameVars, queue, job, steamVars>>
    BY DEF SInv, TInv, TypeOK, ProcName
  <1>2. Local'
    BY <1>1 DEF SInv, Local, InProc, steamVars
  <1>3. Apart(free', InCall, waiting, Stored, TakenIds')
    BY <1>1 DEF SInv, Owners, TakenIds
  <1> QED BY <1>1, <1>2, <1>3, ProcType, ProcStillSafe DEF SInv

\* A procedure that gives back the id it took.
LEMMA ProcEndSafe ==
    ASSUME SInv, NEW w \in Workers, ProcFree(w) \/ ProcError(w), ~clashed' PROVE SInv'
  <1>1. /\ wpc' = [wpc EXCEPT ![w] = "procDone"] /\ InProc(w)
        /\ taken' = [taken EXCEPT ![w] = 0]
        /\ wpc \in [Workers -> {"idle", "run", "procName", "procSql", "procDone"}]
        /\ taken \in [Workers -> AnyId]
        /\ UNCHANGED <<mapVars, gameVars, queue, job, steamVars, unique_id_proc>>
    BY DEF SInv, TInv, TypeOK, ProcFree, ProcError, InProc
  <1>2. \A v \in Workers : taken'[v] = IF v = w THEN 0 ELSE taken[v]
    BY <1>1
  <1>3. TakenIds' = TakenIds \ {taken[w]}
    BY <1>1, <1>2 DEF SInv, Local, TakenIds
  <1>4. free' \subseteq free \cup ({taken[w]} \ {0})
    <2>1. CASE ProcFree(w)
      <3>1. taken[w] = unique_id_proc /\ taken[w] # 0
        BY <1>1, <2>1, NoZero DEF ProcFree, SInv, TInv, Holding, InProc
      <3> QED BY <2>1, <3>1, GiveBackIn DEF ProcFree
    <2>2. CASE ProcError(w)
      BY <2>2 DEF ProcError
    <2> QED BY <2>1, <2>2
  <1>5. Local'
    BY <1>1, <1>2 DEF SInv, Local, InProc, steamVars
  <1>6. Apart(free', InCall, waiting, Stored, TakenIds')
    <2>1. taken[w] # 0 => taken[w] \in TakenIds
      BY DEF TakenIds
    <2> QED BY <1>3, <1>4, <2>1 DEF SInv, Owners, Apart
  <1> QED BY <1>1, <1>5, <1>6, ProcType, ProcStillSafe DEF SInv

\* Every step of a worker keeps the owners of an id apart.
LEMMA WorkerStepSafe ==
    ASSUME SInv, NEW w \in Workers, WorkerStep(w), ~clashed' PROVE SInv'
  <1>1. CASE Take(w)     BY <1>1, TakeSafe
  <1>2. CASE Answer(w) \/ ProcReturn(w) \/ SteamDisabled(w)
    BY <1>2, SavingStepSafe
  <1>3. CASE DropUnknown(w) \/ ReturnFalse(w)  BY <1>3, DropSafe
  <1>4. CASE Throw(w)
    <2>1. UNCHANGED <<poolVars, mapVars, gameVars, workerVars, steamVars>>
      BY <1>4 DEF Throw
    <2>2. UNCHANGED <<free, InCall, waiting, Stored, TakenIds, GameId, queue, query_queue,
                      batch, job, wpc, taken, unique_id_proc, steam>>
      BY <2>1 DEF poolVars, mapVars, gameVars, workerVars, steamVars, InCall, Stored,
                  TakenIds, GameId
    <2>3. steam' \in {"lookup", "answer"} \/ batch = <<>>
      BY <2>2 DEF SInv, Local
    <2>4. TInv'
      BY <1>4, WorkerStepType DEF SInv, WorkerStep
    <2> QED BY <2>2, <2>3, <2>4, StillSafe
  <1>5. CASE Offload(w)     BY <1>5, OffloadSafe
  <1>6. CASE ProcTakeId(w)  BY <1>6, ProcTakeIdSafe
  <1>7. CASE ProcName(w)    BY <1>7, ProcNameSafe
  <1>8. CASE ProcFree(w) \/ ProcError(w)  BY <1>8, ProcEndSafe
  <1> QED BY <1>1, <1>2, <1>3, <1>4, <1>5, <1>6, <1>7, <1>8 DEF WorkerStep

-----------------------------------------------------------------------------
(* The Steam thread.                                                       *)

LEMMA SteamStillSafe ==
    ASSUME SInv, SteamUp \/ SteamLookup PROVE SInv'
  <1>1. TInv'
    BY SteamStepType DEF SInv, SteamStep
  <1>2. UNCHANGED <<poolVars, mapVars, gameVars, workerVars, query_queue, batch>>
    BY DEF SteamUp, SteamLookup
  <1>3. UNCHANGED <<free, InCall, waiting, Stored, TakenIds, GameId, queue, query_queue,
                    batch, job, wpc, taken, unique_id_proc>>
    BY <1>2 DEF poolVars, mapVars, gameVars, workerVars, InCall, Stored, TakenIds, GameId
  <1>4. steam' \in {"lookup", "answer"} \/ batch = <<>>
    BY DEF SInv, Local, SteamUp, SteamLookup
  <1> QED BY <1>1, <1>3, <1>4, StillSafe

\* The whole queue becomes the batch, or the batch is lost.
LEMMA SteamBatchSafe ==
    ASSUME SInv, SteamTake \/ SteamThrow PROVE SInv'
  <1>1. TInv'
    BY SteamStepType DEF SInv, SteamStep
  <1>2. UNCHANGED <<poolVars, mapVars, gameVars, workerVars>>
    BY DEF SteamTake, SteamThrow
  <1>3. UNCHANGED <<free, InCall, waiting, Stored, TakenIds, GameId, queue, job, wpc,
                    taken, unique_id_proc, QueueIds, WorkerIds>>
    BY <1>2 DEF poolVars, mapVars, gameVars, workerVars, InCall, Stored, TakenIds, GameId,
                QueueIds, WorkerIds
  <1>4. Owners'
    BY <1>3 DEF SInv, Owners
  <1>5. CASE SteamTake
    <2>1. /\ batch = <<>> /\ batch' = query_queue /\ query_queue' = <<>>
          /\ steam' = "lookup"
      BY <1>5 DEF SteamTake, SInv, Local
    <2>2. BatchIds = {} /\ BatchIds' = QueryIds /\ QueryIds' = {}
      BY <2>1, EmptyIds DEF BatchIds, QueryIds
    <2>3. Routes'
      BY <1>3, <2>2 DEF SInv, Routes, Apart
    <2>4. Lines'
      BY <1>3, <2>1, EmptyIds DEF SInv, Lines
    <2>5. Local'
      BY <1>3, <2>1 DEF SInv, Local, InProc
    <2> QED BY <1>1, <1>4, <2>3, <2>4, <2>5 DEF SInv
  <1>6. CASE SteamThrow
    <2>1. batch' = <<>> /\ UNCHANGED query_queue /\ steam' = "dead"
      BY <1>6 DEF SteamThrow
    <2>2. BatchIds' = {} /\ QueryIds' = QueryIds
      BY <2>1, EmptyIds DEF BatchIds, QueryIds
    <2>3. Routes'
      BY <1>3, <2>2 DEF SInv, Routes, Apart
    <2>4. Lines'
      BY <1>3, <2>1, EmptyIds DEF SInv, Lines
    <2>5. Local'
      BY <1>3, <2>1 DEF SInv, Local, InProc
    <2> QED BY <1>1, <1>4, <2>3, <2>4, <2>5 DEF SInv
  <1> QED BY <1>5, <1>6

LEMMA SteamAnswerSafe ==
    ASSUME SInv, SteamAnswer PROVE SInv'
  <1> DEFINE q == Head(batch)
             i == q.id
  <1>1. /\ batch \in Seq(Job) /\ batch # <<>> /\ Distinct(batch) /\ q \in Job
        /\ batch' = Tail(batch) /\ i \in AnyId /\ q.req \in Reqs
    <2>1. batch \in Seq(Job) /\ batch # <<>> /\ Distinct(batch) /\ batch' = Tail(batch)
      BY DEF SInv, TInv, TypeOK, Lines, SteamAnswer
    <2>2. q \in Job
      BY <2>1
    <2> HIDE DEF q
    <2>3. i \in AnyId /\ q.req \in Reqs
      BY <2>2 DEF Job
    <2> QED BY <2>1, <2>2, <2>3
  <1>2. /\ BatchIds' = BatchIds \ {i} /\ Distinct(batch')
        /\ i # 0 => i \in BatchIds
    BY <1>1, TailIds DEF BatchIds
  <1>3. UNCHANGED <<free, InCall, TakenIds, GameId, QueueIds, WorkerIds, QueryIds,
                    queue, query_queue, job, wpc, taken, unique_id_proc>>
    BY DEF SteamAnswer, poolVars, gameVars, workerVars, InCall, TakenIds, GameId, QueueIds,
           WorkerIds, QueryIds
  <1>4. /\ waiting' = waiting \ {i} /\ Stored' = Stored \cup ({i} \ {0})
        /\ i \in waiting \/ i = 0
    <2>1. i \in waiting \/ i = 0
      BY <1>2 DEF SInv, Routes
    <2>2. CASE Answerable(q)
      <3>1. PICK n \in Lengths : SaveResult(i, q.req, n + Wrap)
        BY <2>2 DEF SteamAnswer
      <3>2. n + Wrap \in Nat
        BY AnswerLength
      <3>3. Stored' = Stored \cup ({i} \cap Ids) /\ waiting' = waiting \ {i}
        BY <1>1, <3>1, <3>2, StoredSave DEF SInv
      <3>4. {i} \cap Ids = {i} \ {0}
        BY <1>1, NoZero DEF AnyId
      <3> QED BY <2>1, <3>3, <3>4
    <2>3. CASE ~Answerable(q)
      <3>1. i = 0
        BY <1>1, <2>3, IdsAssumption DEF Answerable, AnyId, Ids
      <3>2. UNCHANGED <<waiting, Stored>>
        BY <2>3 DEF SteamAnswer, mapVars, Stored
      <3>3. i \notin waiting
        BY <3>1, NoZero DEF SInv, TInv, TypeOK
      <3> QED BY <3>1, <3>2, <3>3
    <2> QED BY <2>2, <2>3
  <1> HIDE DEF i
  <1>5. Owners'
    BY <1>3, <1>4 DEF SInv, Owners, Apart
  <1>6. Routes'
    <2>1. CASE i = 0
      <3>1. waiting' = waiting
        BY <1>4, <2>1, NoZero DEF SInv, TInv, TypeOK
      <3> QED BY <1>2, <1>3, <3>1 DEF SInv, Routes, Apart
    <2>2. CASE i \in BatchIds
      BY <1>2, <1>3, <1>4, <2>2 DEF SInv, Routes, Apart
    <2> QED BY <1>2, <2>1, <2>2
  <1>7. Lines'
    BY <1>2, <1>3 DEF SInv, Lines
  <1>8. Local'
    <2>1. steam' \notin {"lookup", "answer"} => batch' = <<>>
      BY DEF SteamAnswer
    <2> QED BY <1>3, <2>1 DEF SInv, Local, InProc
  <1> QED BY <1>5, <1>6, <1>7, <1>8, SteamAnswerType DEF SInv

-----------------------------------------------------------------------------
\* At the start every id is free.
\* Nothing undoes a clash.
LEMMA ClashStays ==
    ASSUME [Next]_vars, clashed PROVE clashed'
  BY DEF Next, GameStep, AsyncRegister, SyncResult, SyncTakeId, WorkersJoined, AsyncUnknown,
     AsyncPost, SyncError, SyncReply, SyncSave, StartVac, Stop, TakeIdFromEmpty, NewCall,
     CallAsync, CallOneway, CallSync, Poll, GetSinglePart, GetMultiPart, WorkerStep, Take,
     Answer, DropUnknown, Throw, Offload, SteamDisabled, ReturnFalse, ProcTakeId, ProcName,
     ProcFree, ProcError, ProcReturn, SteamStep, SteamUp, SteamTake, SteamLookup, SteamThrow,
     SteamAnswer, poolVars, vars

LEMMA InitSafe == Init => SInv
  <1> SUFFICES ASSUME Init PROVE SInv
    OBVIOUS
  <1>1. InCall = {} /\ GameId = {}
    BY DEF Init, InCall, GameId
  <1>2. waiting = {} /\ Stored = {} /\ TakenIds = {}
    BY DEF Init, Stored, TakenIds, AnyId
  <1>3. QueueIds = {} /\ WorkerIds = {} /\ QueryIds = {} /\ BatchIds = {}
    BY EmptyIds DEF Init, QueueIds, WorkerIds, QueryIds, BatchIds, NoJob
  <1>4. Owners /\ Routes
    BY <1>1, <1>2, <1>3 DEF Owners, Routes, Apart
  <1>5. Lines /\ Local
    BY EmptyIds DEF Init, Lines, Local, InProc, NoJob
  <1> QED BY <1>4, <1>5, InitType DEF SInv

\* Every step keeps the owners of an id apart.
LEMMA NextSafe ==
    ASSUME SInv, [Next]_vars, ~clashed' PROVE SInv'
  <1>1. CASE GameStep
    <2>1. CASE AsyncRegister \/ SyncTakeId \/ WorkersJoined
      BY <2>1, AsyncRegisterSafe, SyncTakeIdSafe, StartStopSafe
    <2>2. CASE SyncResult \/ \E s \in Scripts : SyncError(s) \/ SyncReply(s)
      BY <2>2, SyncCallSafe
    <2>3. CASE \E s \in Scripts : AsyncUnknown(s) \/ AsyncPost(s) \/ SyncSave(s)
      BY <2>3, AsyncUnknownSafe, AsyncPostSafe, SyncSaveSafe
    <2> QED BY <1>1, <2>1, <2>2, <2>3 DEF GameStep
  <1>2. CASE StartVac \/ Stop \/ TakeIdFromEmpty
    BY <1>2, StartStopSafe
  <1>3. CASE SteamStep
    BY <1>3, SteamStillSafe, SteamBatchSafe, SteamAnswerSafe DEF SteamStep
  <1>4. ASSUME NEW s \in Scripts, NewCall(s) \/ Poll(s) PROVE SInv'
    BY <1>4, CallAsyncSafe, CallOnewaySafe, SyncCallSafe, PollSafe DEF NewCall
  <1>5. ASSUME NEW w \in Workers, WorkerStep(w) PROVE SInv'
    BY <1>5, WorkerStepSafe
  <1>6. CASE UNCHANGED vars
    <2>1. UNCHANGED <<alive, poolVars, mapVars, gameVars, workerVars, steamVars, scriptVars>>
      BY <1>6 DEF vars
    <2>2. UNCHANGED <<free, InCall, waiting, Stored, TakenIds, GameId, queue, query_queue,
                      batch, job, wpc, taken, unique_id_proc, steam>>
      BY <2>1 DEF poolVars, mapVars, gameVars, workerVars, steamVars, InCall, Stored,
                  TakenIds, GameId
    <2>3. steam' \in {"lookup", "answer"} \/ batch = <<>>
      BY <2>2 DEF SInv, Local
    <2>4. TInv'
      BY NextType DEF SInv
    <2> QED BY <2>2, <2>3, <2>4, StillSafe
  <1> QED BY <1>1, <1>2, <1>3, <1>4, <1>5, <1>6 DEF Next

-----------------------------------------------------------------------------
\* The invariant gives both properties.
LEMMA OneOwnerFrom == SInv => OneOwner
  <1> SUFFICES ASSUME SInv PROVE OneOwner
    OBVIOUS
  <1>1. \A w \in Workers : TakenBy(w) \subseteq TakenIds
    BY DEF TakenBy, TakenIds
  <1>2. \A v, w \in Workers : v # w => TakenBy(v) \cap TakenBy(w) = {}
    BY DEF SInv, Local, TakenBy
  <1>3. /\ free \cap (InCall \cup waiting \cup Stored) = {}
        /\ InCall \cap (waiting \cup Stored) = {}
        /\ waiting \cap Stored = {}
        /\ TakenIds \cap (free \cup InCall \cup waiting \cup Stored) = {}
    BY DEF SInv, Owners, Apart
  <1> QED BY <1>1, <1>2, <1>3 DEF OneOwner

LEMMA NoSecondAnswerFrom == SInv => NoSecondAnswer
  <1> SUFFICES ASSUME SInv, NEW i \in Ids
               PROVE  /\ Cardinality(Producers(i)) <= 1
                      /\ Producers(i) # {} => i \in waiting
    BY DEF NoSecondAnswer
  <1> DEFINE G == IF gpc = "post" /\ cur.id = i THEN {<<"game", 0>>} ELSE {}
             Q == {<<"posted", n>> : n \in {m \in DOMAIN queue : queue[m].id = i}}
             W == {<<"worker", w>> : w \in {v \in Workers : job[v].id = i}}
             S == {<<"steam", n>> : n \in {m \in DOMAIN query_queue : query_queue[m].id = i}}
             B == {<<"batch", n>> : n \in {m \in DOMAIN batch : batch[m].id = i}}
  <1>1. i # 0
    BY NoZero
  <1>2. /\ G # {} => i \in GameId
        /\ Q # {} => i \in QueueIds
        /\ W # {} => i \in WorkerIds
        /\ S # {} => i \in QueryIds
        /\ B # {} => i \in BatchIds
    BY <1>1 DEF GameId, QueueIds, WorkerIds, QueryIds, BatchIds, JobsIn
  <1>3. /\ \A a, b \in G : a = b
        /\ \A a, b \in W : a = b
        /\ \A a, b \in Q : a = b
        /\ \A a, b \in S : a = b
        /\ \A a, b \in B : a = b
    BY <1>1 DEF SInv, Lines, Distinct
  <1> DEFINE P == G \cup Q \cup W \cup S \cup B
  <1>4. Producers(i) = P
    BY DEF Producers
  <1> HIDE DEF G, Q, W, S, B
  <1>5. \/ P = {} \/ (i \in waiting /\ \E T \in {G, Q, W, S, B} : P = T)
    <2>1. /\ G = {} \/ (Q = {} /\ W = {} /\ S = {} /\ B = {})
          /\ Q = {} \/ (G = {} /\ W = {} /\ S = {} /\ B = {})
          /\ W = {} \/ (G = {} /\ Q = {} /\ S = {} /\ B = {})
          /\ S = {} \/ (G = {} /\ Q = {} /\ W = {} /\ B = {})
      <3>1. /\ i \in GameId => i \notin QueueIds \cup WorkerIds \cup QueryIds \cup BatchIds
            /\ i \in QueueIds => i \notin GameId \cup WorkerIds \cup QueryIds \cup BatchIds
            /\ i \in WorkerIds => i \notin GameId \cup QueueIds \cup QueryIds \cup BatchIds
            /\ i \in QueryIds => i \notin GameId \cup QueueIds \cup WorkerIds \cup BatchIds
        BY DEF SInv, Routes, Apart
      <3> QED BY <1>2, <3>1
    <2>2. i \in waiting \/ (G = {} /\ Q = {} /\ W = {} /\ S = {} /\ B = {})
      <3>1. i \in GameId \cup QueueIds \cup WorkerIds \cup QueryIds \cup BatchIds => i \in waiting
        BY DEF SInv, Routes
      <3> QED BY <1>2, <3>1
    <2> QED BY <2>1, <2>2
  <1>6. P # {} => i \in waiting
    BY <1>5
  <1>7. \A a, b \in P : a = b
    BY <1>3, <1>5
  <1>8. Cardinality(P) <= 1
    <2>1. CASE P = {}
      <3>1. Cardinality(P) = 0
        BY <2>1, FS_EmptySet
      <3> QED BY <3>1
    <2>2. CASE P # {}
      <3>1. PICK a : a \in P
        BY <2>2
      <3>2. P = {a}
        BY <3>1, <1>7
      <3>3. Cardinality(P) = 1
        BY <3>2, FS_Singleton
      <3> QED BY <3>3
    <2> QED BY <2>1, <2>2
  <1> HIDE DEF P
  <1> QED BY <1>4, <1>6, <1>8

\* Whatever the threads do, an id has one owner at a time: it is free, in the
\* hands of the game thread, waiting, the key of a stored result, or taken by
\* one procedure.  This holds for every number of scripts and workers, for any
\* kinds of calls and failures and with procedures on all workers at once, up
\* to the first procedure that frees the id of another (db_procedure_v2.cpp).
THEOREM IdsHaveOneOwner == Spec => []OwnersApart
  <1>1. Init => clashed \/ SInv
    BY InitSafe
  <1>2. (clashed \/ SInv) /\ [Next]_vars => (clashed \/ SInv)'
    BY NextSafe, ClashStays
  <1>3. clashed \/ SInv => OwnersApart
    BY OneOwnerFrom DEF OwnersApart
  <1> QED BY <1>1, <1>2, <1>3, PTL DEF Spec

\* No two workers can be inside a stored procedure at once: none is called, or
\* there is one worker.
ProceduresAlone ==
    \/ \A c \in Calls : c.kind # "procedure"
    \/ \A v, w \in Workers : v = w

\* The id of a procedure is the one in the member.
OwnMember == TInv /\ ~clashed /\ \A w \in Workers : InProc(w) => unique_id_proc = taken[w]

\* It takes two procedures at once to get there: where ext.cpp starts one worker
\* only (Main.Threads = 1), or DB_PROCEDURE_V2 runs on one at a time, or is never
\* called with outputs, no id is ever given away.
THEOREM LoneProceduresKeepIds ==
    ASSUME ProceduresAlone PROVE Spec => []~clashed
  <1>1. Init => OwnMember
    BY InitType DEF Init, OwnMember, InProc
  <1>2. OwnMember /\ [Next]_vars => OwnMember'
    <2> SUFFICES ASSUME OwnMember, [Next]_vars PROVE OwnMember'
      OBVIOUS
    <2>1. /\ wpc \in [Workers -> {"idle", "run", "procName", "procSql", "procDone"}]
          /\ taken \in [Workers -> AnyId]
      BY DEF OwnMember, TInv, TypeOK
    <2>2. ASSUME NEW w \in Workers, ProcTakeId(w)
          PROVE  ~clashed' /\ \A v \in Workers : InProc(v)' => unique_id_proc' = taken'[v]
      <3>1. \A v \in Workers : v = w
        <4>1. job[w] \in Job /\ job[w].call.kind = "procedure"
          BY <2>2 DEF OwnMember, TInv, Holding, ProcTakeId, Runs
        <4>2. \E c \in Calls : c.kind = "procedure"
          BY <4>1 DEF Job
        <4> QED BY <4>2 DEF ProceduresAlone
      <3>2. clashed' = clashed /\ unique_id_proc' = taken'[w]
        BY <2>1, <2>2 DEF ProcTakeId
      <3> QED BY <3>1, <3>2 DEF OwnMember
    <2>3. ASSUME NEW w \in Workers, WorkerStep(w), ~ProcTakeId(w)
          PROVE  ~clashed' /\ \A v \in Workers : InProc(v)' => unique_id_proc' = taken'[v]
      <3>1. unique_id_proc' = unique_id_proc
        BY <2>3 DEF WorkerStep, Take, Answer, DropUnknown, Throw, Offload, SteamDisabled,
           ReturnFalse, ProcName, ProcFree, ProcError, ProcReturn, poolVars
      <3>2. ~clashed'
        BY <2>3 DEF WorkerStep, Take, Answer, DropUnknown, Throw, Offload, SteamDisabled,
           ReturnFalse, ProcName, ProcFree, ProcError, ProcReturn, poolVars, OwnMember, InProc
      <3>3. \A v \in Workers : InProc(v)' => InProc(v) /\ taken'[v] = taken[v]
        BY <2>1, <2>3 DEF WorkerStep, Take, Answer, DropUnknown, Throw, Offload, SteamDisabled,
           ReturnFalse, Returned, Finish, ProcName, ProcFree, ProcError, ProcReturn, poolVars,
           workerVars, InProc
      <3> QED BY <3>1, <3>2, <3>3 DEF OwnMember
    <2>4. CASE ~\E w \in Workers : WorkerStep(w)
      <3>1. UNCHANGED <<wpc, taken, unique_id_proc, clashed>>
        BY <2>4 DEF Next, GameStep, AsyncRegister, SyncResult, SyncTakeId, WorkersJoined,
           AsyncUnknown, AsyncPost, SyncError, SyncReply, SyncSave, StartVac, Stop,
           TakeIdFromEmpty, NewCall, CallAsync, CallOneway, CallSync, Poll, GetSinglePart,
           GetMultiPart, SteamStep, SteamUp, SteamTake, SteamLookup, SteamThrow, SteamAnswer,
           poolVars, workerVars, vars
      <3> QED BY <3>1, NextType DEF OwnMember, InProc
    <2> QED BY <2>2, <2>3, <2>4, NextType DEF OwnMember
  <1>3. OwnMember => ~clashed
    BY DEF OwnMember
  <1> QED BY <1>1, <1>2, <1>3, PTL DEF Spec

\* Until then one thread at most is to save a result under an id, and only
\* while the id is registered as waiting: saveResult never writes over a result
\* that a script has yet to read.
THEOREM CallsHaveOneAnswer == Spec => []NoSecondAnswer
  <1>1. Init => clashed \/ SInv
    BY InitSafe
  <1>2. (clashed \/ SInv) /\ [Next]_vars => (clashed \/ SInv)'
    BY NextSafe, ClashStays
  <1>3. clashed \/ SInv => NoSecondAnswer
    BY NoSecondAnswerFrom DEF NoSecondAnswer
  <1> QED BY <1>1, <1>2, <1>3, PTL DEF Spec

-----------------------------------------------------------------------------
(* What becomes of results.                                                *)

\* What a step may do to the map of results: save one where none is stored,
\* erase one, or move the start of one.
Saves(k)  == k \notin Stored /\ \E r \in Reqs, n \in Nat : SaveResult(k, r, n)
Erases(k) == results' = [results EXCEPT ![k] = Absent]
Moves(k)  == /\ results[k] # Absent
             /\ results' = [results EXCEPT ![k].from = RestFrom(results[k])]

\* A stored string does not end before it starts.
InOrder == \A i \in AnyId : results[i].from <= results[i].to

\* Saves under waiting ids, or under 0, which is no id of the pool.
LEMMA WaitingSaved ==
    ASSUME SInv, NEW j \in Job, j.id \in waiting \/ j.id = 0,
           \E n \in Lengths : SaveResult(j.id, j.req, n + Wrap)
    PROVE  \E k \in AnyId : Saves(k)
  <1>1. j.id \in AnyId /\ j.req \in Reqs
    BY DEF Job
  <1>2. j.id \notin Stored
    BY NoZero DEF SInv, Owners, Apart, Stored
  <1>3. PICK n \in Lengths : SaveResult(j.id, j.req, n + Wrap)
    OBVIOUS
  <1>4. n + Wrap \in Nat
    BY AnswerLength
  <1> QED BY <1>1, <1>2, <1>3, <1>4 DEF Saves

LEMMA WorkerResults ==
    ASSUME SInv, NEW w \in Workers, WorkerStep(w)
    PROVE  results' = results \/ \E k \in AnyId : Saves(k)
  <1>1. CASE Answer(w) \/ ProcReturn(w) \/ SteamDisabled(w)
    <2>1. wpc[w] # "idle"
      BY <1>1 DEF Answer, ProcReturn, SteamDisabled, Runs
    <2>2. job[w] \in Job
      BY <2>1 DEF SInv, TInv, Holding
    <2>3. job[w].id \in waiting \/ job[w].id = 0
      BY DEF SInv, Routes, WorkerIds
    <2>4. \/ results' = results
          \/ \E n \in Lengths : SaveResult(job[w].id, job[w].req, n + Wrap)
      BY <1>1 DEF Answer, ProcReturn, SteamDisabled, Returned, mapVars
    <2> QED BY <2>2, <2>3, <2>4, WaitingSaved
  <1>2. CASE ~(Answer(w) \/ ProcReturn(w) \/ SteamDisabled(w))
    BY <1>2 DEF WorkerStep, Take, DropUnknown, Throw, Offload, ReturnFalse, ProcTakeId,
       ProcName, ProcFree, ProcError, mapVars
  <1> QED BY <1>1, <1>2

LEMMA SteamResults ==
    ASSUME SInv, SteamStep
    PROVE  results' = results \/ \E k \in AnyId : Saves(k)
  <1>1. CASE SteamAnswer
    <2>1. batch \in Seq(Job) /\ Distinct(batch) /\ batch # <<>>
      BY <1>1 DEF SInv, TInv, TypeOK, Lines, SteamAnswer
    <2>2. Head(batch) \in Job
      BY <2>1
    <2>3. Head(batch).id # 0 => Head(batch).id \in BatchIds
      BY <2>1, TailIds DEF BatchIds
    <2>4. Head(batch).id \in waiting \/ Head(batch).id = 0
      BY <2>3 DEF SInv, Routes
    <2>5. \/ results' = results
          \/ \E n \in Lengths : SaveResult(Head(batch).id, Head(batch).req, n + Wrap)
      BY <1>1 DEF SteamAnswer, mapVars
    <2> QED BY <2>2, <2>4, <2>5, WaitingSaved
  <1>2. CASE ~SteamAnswer
    BY <1>2 DEF SteamStep, SteamUp, SteamTake, SteamLookup, SteamThrow, mapVars
  <1> QED BY <1>1, <1>2

LEMMA GameResults ==
    ASSUME SInv, GameStep
    PROVE  results' = results \/ \E k \in AnyId : Saves(k)
  <1>1. ASSUME NEW s \in Scripts, SyncSave(s) PROVE \E k \in AnyId : Saves(k)
    <2>1. /\ cur.req \in Reqs /\ answer[cur.req] \in Nat /\ cur.id \in Ids
      BY <1>1 DEF SInv, TInv, TypeOK, Holding, SyncSave, Job
    <2>2. cur.id \notin Stored
      BY <1>1 DEF SInv, Owners, Apart, InCall, SyncSave
    <2> QED BY <1>1, <2>1, <2>2 DEF Saves, SyncSave, AnyId
  <1>2. CASE AsyncRegister \/ SyncResult \/ SyncTakeId \/ WorkersJoined
    BY <1>2 DEF AsyncRegister, SyncResult, SyncTakeId, WorkersJoined, mapVars
  <1>3. CASE \E s \in Scripts : AsyncUnknown(s) \/ AsyncPost(s) \/ SyncError(s) \/ SyncReply(s)
    BY <1>3 DEF AsyncUnknown, AsyncPost, SyncError, SyncReply, mapVars
  <1> QED BY <1>1, <1>2, <1>3 DEF GameStep

LEMMA PollResults ==
    ASSUME SInv, NEW s \in Scripts, Poll(s)
    PROVE  results' = results \/ \E k \in AnyId : Erases(k) \/ Moves(k)
  <1>1. key[s] \in AnyId
    BY DEF SInv, TInv, TypeOK
  <1>2. \/ results' = results \/ Erases(key[s]) \/ Moves(key[s])
    BY DEF Poll, GetSinglePart, GetMultiPart, Erases, Moves
  <1> QED BY <1>1, <1>2

\* Every step leaves the results alone, or does one of these to one of them.
LEMMA ResultSteps ==
    ASSUME SInv, [Next]_vars
    PROVE  results' = results \/ \E k \in AnyId : Saves(k) \/ Erases(k) \/ Moves(k)
  <1>1. CASE StartVac \/ Stop \/ TakeIdFromEmpty \/ \E s \in Scripts : NewCall(s)
    BY <1>1 DEF StartVac, Stop, TakeIdFromEmpty, NewCall, CallAsync, CallOneway, CallSync,
       mapVars
  <1>2. CASE UNCHANGED vars
    BY <1>2 DEF vars, mapVars
  <1> QED BY <1>1, <1>2, GameResults, SteamResults, WorkerResults, PollResults DEF Next

-----------------------------------------------------------------------------
\* What stays of a stored string starts where the part just read ended, which
\* is not before the part, nor after the end of the string.
LEMMA RestIsForward ==
    ASSUME NEW p \in Piece, p.from <= p.to
    PROVE  p.from <= RestFrom(p) /\ RestFrom(p) <= p.to
  <1>1. p.from \in Nat /\ p.to \in Nat
    BY DEF Piece
  <1> QED BY <1>1, BoundsAssumption DEF RestFrom, Cut, Size

LEMMA MovesFacts ==
    ASSUME SInv, InOrder, NEW k \in AnyId, Moves(k)
    PROVE  /\ \A i \in AnyId \ {k} : results'[i] = results[i]
           /\ results'[k].req = results[k].req /\ results'[k].to = results[k].to
           /\ results[k].from <= results'[k].from /\ results'[k].from <= results[k].to
  <1>1. results \in [AnyId -> Piece \cup {Absent}] /\ results[k] \in Piece
    BY DEF SInv, TInv, TypeOK, Moves
  <1>2. results'[k] = [results[k] EXCEPT !.from = RestFrom(results[k])]
    BY <1>1 DEF Moves
  <1>3. /\ results'[k].req = results[k].req /\ results'[k].to = results[k].to
        /\ results'[k].from = RestFrom(results[k])
    BY <1>1, <1>2 DEF Piece
  <1>4. \A i \in AnyId \ {k} : results'[i] = results[i]
    BY <1>1 DEF Moves
  <1>5. results[k].from <= results[k].to
    BY DEF InOrder
  <1> QED BY <1>1, <1>3, <1>4, <1>5, RestIsForward

LEMMA InOrderNext ==
    ASSUME SInv, InOrder, [Next]_vars PROVE InOrder'
  <1>0. results \in [AnyId -> Piece \cup {Absent}]
    BY DEF SInv, TInv, TypeOK
  <1>1. ASSUME NEW k \in AnyId, Saves(k) PROVE InOrder'
    BY <1>0, <1>1 DEF Saves, SaveResult, InOrder
  <1>2. ASSUME NEW k \in AnyId, Erases(k) PROVE InOrder'
    BY <1>0, <1>2 DEF Erases, Absent, InOrder
  <1>3. ASSUME NEW k \in AnyId, Moves(k) PROVE InOrder'
    BY <1>3, MovesFacts DEF InOrder
  <1> QED BY <1>1, <1>2, <1>3, ResultSteps DEF InOrder

LEMMA NoOverwriteStep ==
    ASSUME SInv, InOrder, [Next]_vars, NEW i \in Ids,
           results[i] # Absent, results'[i] # Absent
    PROVE  /\ results'[i].req = results[i].req /\ results'[i].to = results[i].to
           /\ results'[i].from >= results[i].from
  <1>0. /\ results \in [AnyId -> Piece \cup {Absent}] /\ i \in AnyId
        /\ results[i].from \in Nat
    <2>1. results \in [AnyId -> Piece \cup {Absent}] /\ i \in AnyId
      BY DEF SInv, TInv, TypeOK, AnyId
    <2>2. results[i] \in Piece
      BY <2>1
    <2> QED BY <2>1, <2>2 DEF Piece
  <1>1. CASE results'[i] = results[i]
    BY <1>0, <1>1
  <1>2. ASSUME NEW k \in AnyId, Saves(k) PROVE results'[i] = results[i]
    <2>1. i # k
      BY <1>2 DEF Saves, Stored
    <2> QED BY <1>0, <1>2, <2>1 DEF Saves, SaveResult
  <1>3. ASSUME NEW k \in AnyId, Erases(k) PROVE results'[i] = results[i]
    BY <1>0, <1>3 DEF Erases
  <1>4. ASSUME NEW k \in AnyId, Moves(k)
        PROVE  /\ results'[i].req = results[i].req /\ results'[i].to = results[i].to
               /\ results'[i].from >= results[i].from
    <2>1. CASE i = k
      <3>1. results'[i].from \in Nat
        <4>1. results'[i] = [results[i] EXCEPT !.from = RestFrom(results[i])]
          BY <1>0, <1>4, <2>1 DEF Moves
        <4>2. results[i] \in Piece
          BY <1>0
        <4> QED BY <4>1, <4>2, PartType DEF Piece
      <3> QED BY <1>0, <1>4, <2>1, <3>1, MovesFacts
    <2>2. CASE i # k
      BY <1>0, <1>1, <1>4, <2>2, MovesFacts
    <2> QED BY <2>1, <2>2
  <1> QED BY <1>1, <1>2, <1>3, <1>4, ResultSteps

\* Whatever the threads do, saveResult never replaces a result that is stored,
\* and reads only take characters off its front, in every run in which no
\* procedure frees the id of another.
THEOREM ResultsAreKept == Spec /\ []~clashed => NoOverwrite
  <1>1. Init => SInv /\ InOrder
    <2>1. Init => InOrder
      BY DEF Init, InOrder, Absent
    <2> QED BY <2>1, InitSafe
  <1>2. SInv /\ InOrder /\ [Next]_vars /\ ~clashed' => (SInv /\ InOrder)'
    BY NextSafe, InOrderNext
  <1>3. SInv /\ InOrder /\ [Next]_vars =>
           [\A i \in Ids : results[i] # Absent /\ results'[i] # Absent =>
               /\ results'[i].req = results[i].req /\ results'[i].to = results[i].to
               /\ results'[i].from >= results[i].from]_vars
    BY NoOverwriteStep
  <1> QED BY <1>1, <1>2, <1>3, PTL DEF Spec, NoOverwrite
-----------------------------------------------------------------------------
(* A script's own answer.  The requests of scripts and of jobs are numbers; *)
(* the invariant says where the number and the id of a script's call are.   *)

QueueJobs(q) == {q[n] : n \in DOMAIN q}
\* The jobs outside the game thread.
Placed == QueueJobs(queue) \cup QueueJobs(query_queue) \cup QueueJobs(batch)
             \cup {job[w] : w \in Workers}
InGame == gpc \in {"lookup", "post", "sync", "syncReply", "syncSave"}
Asking(s) == spc[s] \in {"polling", "parts"}

Numbers ==
    /\ \A j \in Placed : j.req <= made
    /\ InGame => cur.req \in 1..made
    /\ \A s \in Scripts : req[s] <= made
    /\ \A s, t \in Scripts : s # t /\ req[s] = req[t] => req[s] = 0

\* A script that polls: the jobs that carry its id carry its request, and no
\* others do; once a result is stored, the script has what comes before it.
Asks(s) ==
    /\ req[s] # 0
    /\ key[s] \in waiting \cup Stored
    /\ \A t \in Scripts : Asking(t) /\ key[t] = key[s] => t = s
    /\ \A j \in Placed : j.id = key[s] <=> j.req = req[s]
    /\ InGame => cur.id # key[s] /\ cur.req # req[s]
    /\ Contiguous(got[s], req[s])
    /\ spc[s] = "polling" \/ key[s] \notin Stored => got[s] = <<>>
    /\ key[s] \in Stored =>
          results[key[s]] = [req |-> req[s], from |-> EndOf(got[s]), to |-> answer[req[s]]]

\* A script whose call the game thread is in: no other job is of its request.
InTheCall(s) ==
    /\ InGame /\ cur.req = req[s] /\ got[s] = <<>>
    /\ \A j \in Placed : j.req # req[s]

\* A script that has its answer: no job changes it any more.
HasAll(s) ==
    /\ req[s] # 0
    /\ Contiguous(got[s], req[s]) /\ EndOf(got[s]) = answer[req[s]]
    /\ \A j \in Placed : j.req # req[s]
    /\ InGame => cur.req # req[s]

Fortune(s) ==
    /\ Asking(s) => Asks(s)
    /\ spc[s] = "calling" => InTheCall(s)
    /\ spc[s] = "ready" /\ got[s] # <<>> => HasAll(s)

AInv == SInv /\ Numbers /\ \A s \in Scripts : Fortune(s)

-----------------------------------------------------------------------------
\* A script that has a call, or an answer.
Live(s) == spc[s] # "ready" \/ got[s] # <<>>

LEMMA AFacts ==
    ASSUME AInv
    PROVE  /\ made \in Nat /\ 0 \notin Ids /\ waiting \subseteq Ids /\ Stored \subseteq Ids
           /\ waiting \cap Stored = {} /\ free \cap (waiting \cup Stored) = {}
           /\ \A j \in Placed : /\ j \in Job \/ j = NoJob
                                /\ j.req \in Nat /\ j.req <= made
                                /\ j.id \in waiting \/ j.id = 0
           /\ \A s \in Scripts : /\ Asking(s) => key[s] \in Ids
                                 /\ req[s] \in Nat /\ req[s] <= made
                                 /\ Live(s) => req[s] # 0
  <1>1. /\ made \in Nat /\ 0 \notin Ids /\ waiting \subseteq Ids /\ Stored \subseteq Ids
        /\ waiting \cap Stored = {} /\ free \cap (waiting \cup Stored) = {}
    <2>1. made \in 0..MaxCalls /\ waiting \subseteq Ids
      BY DEF AInv, SInv, TInv, TypeOK
    <2>2. waiting \cap Stored = {} /\ free \cap (waiting \cup Stored) = {}
      BY DEF AInv, SInv, Owners, Apart
    <2> QED BY <2>1, <2>2, NoZero, BoundsAssumption DEF Stored
  <1>2. ASSUME NEW j \in Placed
        PROVE  /\ j \in Job \/ j = NoJob
               /\ j.req \in Nat /\ j.req <= made
               /\ j.id \in waiting \/ j.id = 0
    <2>1. j \in Job \/ j = NoJob
      BY DEF AInv, SInv, TInv, TypeOK, Placed, QueueJobs
    <2>2. j.req \in Nat
      <3>1. CASE j \in Job
        BY <3>1, BoundsAssumption DEF Job, Reqs
      <3> QED BY <2>1, <3>1 DEF NoJob
    <2>3. j.id \in waiting \/ j.id = 0
      <3>1. j.id = 0 \/ j.id \in QueueIds \cup WorkerIds \cup QueryIds \cup BatchIds
        BY DEF Placed, QueueJobs, QueueIds, WorkerIds, QueryIds, BatchIds, JobsIn
      <3> QED BY <3>1 DEF AInv, SInv, Routes
    <2> QED BY <2>1, <2>2, <2>3 DEF AInv, Numbers
  <1>3. ASSUME NEW s \in Scripts
        PROVE  /\ Asking(s) => key[s] \in Ids
               /\ req[s] \in Nat /\ req[s] <= made
               /\ Live(s) => req[s] # 0
    <2>1. Asking(s) => key[s] \in Ids
      BY DEF AInv, SInv, TInv, Holding, Asking
    <2>2. req[s] \in 0..MaxCalls /\ req[s] <= made
      BY DEF AInv, SInv, TInv, TypeOK, Numbers
    <2>3. spc[s] \in {"ready", "calling", "polling", "parts"}
      BY DEF AInv, SInv, TInv, TypeOK
    <2>4. InGame => cur.req # 0
      BY <1>1 DEF AInv, Numbers
    <2>5. Fortune(s)
      BY DEF AInv
    <2>6. Live(s) => req[s] # 0
      BY <2>3, <2>4, <2>5 DEF Fortune, Live, Asking, Asks, InTheCall, HasAll
    <2> QED BY <2>1, <2>2, <2>6, BoundsAssumption
  <1> QED BY <1>1, <1>2, <1>3

\* One script is in a call.
LEMMA OneCaller ==
    ASSUME AInv, NEW s \in Scripts, NEW t \in Scripts, Caller(s), Caller(t) PROVE s = t
  <1>1. cur.req = req[s] /\ cur.req = req[t] /\ req[s] # 0
    BY AFacts DEF AInv, Fortune, InTheCall, Caller, Live
  <1> QED BY <1>1 DEF AInv, Numbers

\* What a script is told does not change when others do something.
LEMMA Unmoved ==
    ASSUME NEW t \in Scripts, Fortune(t),
           spc'[t] = spc[t], key'[t] = key[t], req'[t] = req[t], got'[t] = got[t],
           Live(t) => \A j \in Placed' :
              j \in Placed \/ (j.req # req[t] /\ (Asking(t) => j.id # key[t])),
           Live(t) /\ spc[t] # "calling" /\ InGame' =>
              \/ InGame /\ cur'.req = cur.req /\ cur'.id = cur.id
              \/ cur'.req # req[t] /\ (Asking(t) => cur'.id # key[t]),
           spc[t] = "calling" => InGame' /\ cur'.req = cur.req,
           Asking(t) =>
              /\ key[t] \in waiting' \cup Stored'
              /\ key[t] \in Stored' <=> key[t] \in Stored
              /\ key[t] \in Stored =>
                    results'[key[t]] = results[key[t]] /\ answer'[req[t]] = answer[req[t]]
              /\ \A u \in Scripts : Asking(u)' /\ key'[u] = key[t] => u = t,
           spc[t] = "ready" /\ got[t] # <<>> => answer'[req[t]] = answer[req[t]]
    PROVE  Fortune(t)'
  <1>1. CASE Asking(t)
    <2>1. Asks(t) /\ Live(t) /\ spc[t] # "calling"
      BY <1>1 DEF Fortune, Asking, Live
    <2>2. Asks(t)'
      BY <1>1, <2>1 DEF Asks, Contiguous
    <2> QED BY <1>1, <2>2 DEF Fortune, Asking
  <1>2. CASE spc[t] = "calling"
    <2>1. InTheCall(t) /\ Live(t)
      BY <1>2 DEF Fortune, Live
    <2>2. InTheCall(t)'
      BY <1>2, <2>1 DEF InTheCall
    <2> QED BY <1>2, <2>2 DEF Fortune, Asking
  <1>3. CASE spc[t] = "ready" /\ got[t] # <<>>
    <2>1. HasAll(t) /\ Live(t)
      BY <1>3 DEF Fortune, Live
    <2>2. HasAll(t)'
      BY <1>3, <2>1 DEF HasAll, Contiguous
    <2> QED BY <1>3, <2>2 DEF Fortune, Asking
  <1> QED BY <1>1, <1>2, <1>3 DEF Fortune, Asking

-----------------------------------------------------------------------------
(* Steps that are not of a script.                                         *)

\* Jobs move, ids wait, threads start and end.
LEMMA StillAnswers ==
    ASSUME AInv, SInv', UNCHANGED <<scriptVars, results, answer>>, waiting \subseteq waiting',
           \A j \in Placed' : j \in Placed \/ j = NoJob,
           InGame' <=> InGame, cur'.req = cur.req, cur'.id = cur.id \/ cur'.id \in free
    PROVE  AInv'
  <1>1. Stored' = Stored /\ UNCHANGED <<spc, key, req, got, made>>
    BY DEF Stored, scriptVars
  <1>2. NoJob.req = 0 /\ NoJob.id = 0
    BY DEF NoJob
  <1>3. Numbers'
    BY <1>1, <1>2, AFacts DEF AInv, Numbers
  <1>4. ASSUME NEW t \in Scripts PROVE Fortune(t)'
    <2>1. Fortune(t)
      BY DEF AInv
    <2>2. Live(t) => \A j \in Placed' :
             j \in Placed \/ (j.req # req[t] /\ (Asking(t) => j.id # key[t]))
      BY <1>2, AFacts
    <2>3. Live(t) /\ spc[t] # "calling" /\ InGame' =>
             \/ InGame /\ cur'.req = cur.req /\ cur'.id = cur.id
             \/ cur'.req # req[t] /\ (Asking(t) => cur'.id # key[t])
      <3> SUFFICES ASSUME Live(t), spc[t] # "calling", InGame, cur'.id \in free
                   PROVE  cur'.req # req[t] /\ (Asking(t) => cur'.id # key[t])
        OBVIOUS
      <3>1. spc[t] \in {"ready", "calling", "polling", "parts"}
        BY DEF AInv, SInv, TInv, TypeOK
      <3>2. CASE Asking(t)
        BY <2>1, <3>2, AFacts DEF Fortune, Asks
      <3>3. CASE ~Asking(t)
        BY <2>1, <3>1, <3>3 DEF Fortune, HasAll, Live, Asking
      <3> QED BY <3>2, <3>3
    <2>4. Asking(t) =>
             /\ key[t] \in waiting' \cup Stored'
             /\ \A u \in Scripts : Asking(u)' /\ key'[u] = key[t] => u = t
      BY <1>1, <2>1 DEF Fortune, Asks, Asking
    <2>5. spc[t] = "calling" => InGame'
      BY <2>1 DEF Fortune, InTheCall
    <2> QED BY <1>1, <2>1, <2>2, <2>3, <2>4, <2>5, Unmoved
  <1> QED BY <1>3, <1>4 DEF AInv

\* A job's result is saved: the script that polls its id is the one that made
\* its request.
LEMMA SavedAnswers ==
    ASSUME AInv, SInv', UNCHANGED <<scriptVars, gameVars>>,
           NEW j \in Job, j \in Placed, NEW n \in Nat,
           SaveResult(j.id, j.req, n), answer' = [answer EXCEPT ![j.req] = n],
           \A i \in Placed' : i \in Placed \/ i = NoJob
    PROVE  AInv'
  <1>1. UNCHANGED <<spc, key, req, got, made, gpc, cur>> /\ InGame' = InGame
    BY DEF scriptVars, gameVars, InGame
  <1>2. NoJob.req = 0 /\ NoJob.id = 0
    BY DEF NoJob
  <1>3. j.id \in AnyId /\ j.req \in Reqs /\ (j.id \in waiting \/ j.id = 0)
    BY AFacts DEF Job
  <1>4. /\ waiting' = waiting \ {j.id} /\ Stored' = Stored \cup ({j.id} \cap Ids)
        /\ results' = [results EXCEPT ![j.id] = [req |-> j.req, from |-> 0, to |-> n]]
    BY <1>3, StoredSave DEF AInv, SInv, SaveResult
  <1>5. /\ results \in [AnyId -> Piece \cup {Absent}] /\ answer \in [Reqs -> Nat]
    BY DEF AInv, SInv, TInv, TypeOK
  <1>6. Numbers'
    BY <1>1, <1>2, AFacts DEF AInv, Numbers
  <1>7. ASSUME NEW t \in Scripts PROVE Fortune(t)'
    <2>1. Fortune(t)
      BY DEF AInv
    <2>2. Live(t) => \A i \in Placed' :
             i \in Placed \/ (i.req # req[t] /\ (Asking(t) => i.id # key[t]))
      BY <1>2, AFacts
    <2>3. spc[t] = "calling" => InGame'
      BY <1>1, <2>1 DEF Fortune, InTheCall
    <2>4. CASE Asking(t) /\ key[t] = j.id
      <3>1. /\ Asks(t) /\ j.req = req[t] /\ key[t] \in waiting /\ key[t] \in Ids
            /\ key[t] \notin Stored /\ got[t] = <<>> /\ Live(t)
        <4>1. Asks(t) /\ key[t] \in Ids /\ Live(t)
          BY <2>1, <2>4, AFacts DEF Fortune, Asking, Live
        <4>2. key[t] \in waiting /\ key[t] \notin Stored
          BY <1>3, <2>4, <4>1, AFacts
        <4> QED BY <2>4, <4>1, <4>2 DEF Asks
      <3>2. results'[key[t]] = [req |-> req[t], from |-> 0, to |-> n]
        BY <1>3, <1>4, <1>5, <2>4, <3>1
      <3>3. answer'[req[t]] = n
        BY <1>3, <1>5, <3>1
      <3>4. EndOf(got[t]) = 0
        BY <3>1 DEF EndOf
      <3>5. key[t] \in Stored'
        BY <1>4, <2>4, <3>1
      <3>6. Asks(t)'
        BY <1>1, <2>2, <2>4, <3>1, <3>2, <3>3, <3>4, <3>5 DEF Asks, Asking, Contiguous
      <3> QED BY <1>1, <2>4, <3>6 DEF Fortune, Asking
    <2>5. CASE ~(Asking(t) /\ key[t] = j.id)
      <3>1. /\ spc[t] \in {"ready", "calling", "polling", "parts"}
        BY DEF AInv, SInv, TInv, TypeOK
      <3>2. spc[t] # "calling" /\ Live(t) => j.req # req[t]
        BY <2>1, <2>5, <3>1 DEF Fortune, Asks, HasAll, Live, Asking
      <3>3. spc[t] # "calling" /\ Live(t) => answer'[req[t]] = answer[req[t]]
        <4>1. Live(t) => req[t] \in Reqs
          <5>1. req[t] \in 0..MaxCalls
            BY DEF AInv, SInv, TInv, TypeOK
          <5> QED BY <5>1, AFacts, BoundsAssumption DEF Reqs
        <4> QED BY <1>5, <3>2, <4>1
      <3>4. Asking(t) =>
               /\ key[t] \in waiting' \cup Stored'
               /\ key[t] \in Stored' <=> key[t] \in Stored
               /\ key[t] \in Stored => results'[key[t]] = results[key[t]]
               /\ \A u \in Scripts : Asking(u)' /\ key'[u] = key[t] => u = t
        <4> SUFFICES ASSUME Asking(t)
                     PROVE  /\ key[t] \in waiting' \cup Stored'
                            /\ key[t] \in Stored' <=> key[t] \in Stored
                            /\ key[t] \in Stored => results'[key[t]] = results[key[t]]
                            /\ \A u \in Scripts : Asking(u)' /\ key'[u] = key[t] => u = t
          OBVIOUS
        <4>1. Asks(t) /\ key[t] # j.id /\ key[t] \in AnyId
          BY <2>1, <2>5, AFacts DEF Fortune, AnyId
        <4>2. \A u \in Scripts : Asking(u)' /\ key'[u] = key[t] => u = t
          BY <1>1, <4>1 DEF Asks, Asking
        <4> QED BY <1>4, <1>5, <4>1, <4>2 DEF Asks
      <3>5. Asking(t) => Live(t) /\ spc[t] # "calling"
        BY DEF Asking, Live
      <3> QED BY <1>1, <2>1, <2>2, <2>3, <3>3, <3>4, <3>5, Unmoved DEF Live
    <2> QED BY <2>4, <2>5
  <1> QED BY <1>6, <1>7 DEF AInv

LEMMA QueueFacts ==
    ASSUME NEW q \in Seq(Job)
    PROVE  /\ \A j \in Job : QueueJobs(Append(q, j)) = QueueJobs(q) \cup {j}
           /\ q # <<>> => /\ Head(q) \in Job /\ Head(q) \in QueueJobs(q)
                          /\ QueueJobs(Tail(q)) \subseteq QueueJobs(q)
           /\ QueueJobs(<<>>) = {}
  <1>1. ASSUME NEW j \in Job PROVE QueueJobs(Append(q, j)) = QueueJobs(q) \cup {j}
    <2>1. /\ DOMAIN Append(q, j) = 1..(Len(q) + 1) /\ DOMAIN q = 1..Len(q)
          /\ \A n \in 1..Len(q) : Append(q, j)[n] = q[n]
          /\ Append(q, j)[Len(q) + 1] = j /\ Len(q) \in Nat
      OBVIOUS
    <2> QED BY <2>1 DEF QueueJobs
  <1>2. ASSUME q # <<>>
        PROVE  /\ Head(q) \in Job /\ Head(q) \in QueueJobs(q)
               /\ QueueJobs(Tail(q)) \subseteq QueueJobs(q)
    <2>1. /\ DOMAIN Tail(q) = 1..(Len(q) - 1) /\ DOMAIN q = 1..Len(q)
          /\ \A n \in 1..(Len(q) - 1) : Tail(q)[n] = q[n + 1]
          /\ Head(q) = q[1] /\ Head(q) \in Job /\ Len(q) \in Nat \ {0}
      BY <1>2
    <2>2. \A n \in DOMAIN Tail(q) : n + 1 \in DOMAIN q /\ Tail(q)[n] = q[n + 1]
      BY <2>1
    <2> QED BY <2>1, <2>2 DEF QueueJobs
  <1>3. QueueJobs(<<>>) = {}
    BY DEF QueueJobs
  <1> QED BY <1>1, <1>2, <1>3

\* A worker makes no jobs.
LEMMA WorkerPlaces ==
    ASSUME AInv, NEW w \in Workers, WorkerStep(w)
    PROVE  \A j \in Placed' : j \in Placed \/ j = NoJob
  <1>1. /\ queue \in Seq(Job) /\ query_queue \in Seq(Job)
        /\ job \in [Workers -> Job \cup {NoJob}]
    BY DEF AInv, SInv, TInv, TypeOK
  <1>2. CASE Take(w)
    <2>1. /\ Head(queue) \in QueueJobs(queue) /\ queue' = Tail(queue)
          /\ QueueJobs(Tail(queue)) \subseteq QueueJobs(queue)
          /\ \A v \in Workers : job'[v] = IF v = w THEN Head(queue) ELSE job[v]
          /\ UNCHANGED <<query_queue, batch>>
      BY <1>1, <1>2, QueueFacts DEF Take, steamVars
    <2> QED BY <2>1 DEF Placed
  <1>3. CASE Offload(w)
    <2>1. wpc[w] # "idle"
      BY <1>3 DEF Offload, Runs
    <2>2. job[w] \in Job
      BY <2>1 DEF AInv, SInv, TInv, Holding
    <2>3. /\ QueueJobs(query_queue') = QueueJobs(query_queue) \cup {job[w]}
          /\ \A v \in Workers : job'[v] = IF v = w THEN NoJob ELSE job[v]
          /\ UNCHANGED <<queue, batch>>
      BY <1>1, <1>3, <2>2, QueueFacts DEF Offload, Finish
    <2> QED BY <2>3 DEF Placed
  <1>4. CASE UNCHANGED <<queue, steamVars>> /\ (job' = job \/ Finish(w))
    <2>1. /\ UNCHANGED <<queue, query_queue, batch>>
          /\ \A v \in Workers : job'[v] = job[v] \/ job'[v] = NoJob
      BY <1>1, <1>4 DEF Finish, steamVars
    <2> QED BY <2>1 DEF Placed
  <1> QED BY <1>2, <1>3, <1>4 DEF WorkerStep, Answer, DropUnknown, Throw, SteamDisabled,
       ReturnFalse, ProcTakeId, ProcName, ProcFree, ProcError, ProcReturn, Returned, Finish,
       workerVars

LEMMA WorkerAnswers ==
    ASSUME AInv, SInv', NEW w \in Workers, WorkerStep(w) PROVE AInv'
  <1>1. UNCHANGED <<scriptVars, gameVars>>
    BY DEF WorkerStep, Take, Answer, DropUnknown, Throw, Offload, SteamDisabled, ReturnFalse,
       ProcTakeId, ProcName, ProcFree, ProcError, ProcReturn
  <1>2. CASE UNCHANGED mapVars
    <2>1. /\ UNCHANGED <<waiting, results, answer, gpc, cur>> /\ InGame' = InGame
      BY <1>1, <1>2 DEF mapVars, gameVars, InGame
    <2> QED BY <1>1, <2>1, WorkerPlaces, StillAnswers
  <1>3. CASE /\ Answer(w) \/ ProcReturn(w) \/ SteamDisabled(w)
             /\ ~UNCHANGED mapVars
    <2>1. wpc[w] # "idle"
      BY <1>3 DEF Answer, ProcReturn, SteamDisabled, Runs
    <2>2. job[w] \in Job /\ job[w] \in Placed
      BY <2>1 DEF AInv, SInv, TInv, Holding, Placed
    <2>3. PICK n \in Lengths : /\ SaveResult(job[w].id, job[w].req, n + Wrap)
                               /\ answer' = [answer EXCEPT ![job[w].req] = n + Wrap]
      BY <1>3 DEF Answer, ProcReturn, SteamDisabled, Returned
    <2>4. n + Wrap \in Nat
      BY AnswerLength
    <2> QED BY <1>1, <2>2, <2>3, <2>4, WorkerPlaces, SavedAnswers
  <1> QED BY <1>2, <1>3 DEF WorkerStep, Take, DropUnknown, Throw, Offload, ReturnFalse,
       ProcTakeId, ProcName, ProcFree, ProcError

\* The Steam thread makes no jobs either.
LEMMA SteamAnswers ==
    ASSUME AInv, SInv', SteamStep PROVE AInv'
  <1>1. UNCHANGED <<scriptVars, gameVars, workerVars>>
    BY DEF SteamStep, SteamUp, SteamTake, SteamLookup, SteamThrow, SteamAnswer
  <1>2. query_queue \in Seq(Job) /\ batch \in Seq(Job)
    BY DEF AInv, SInv, TInv, TypeOK
  <1>3. \A j \in Placed' : j \in Placed
    <2>1. UNCHANGED <<queue, job>>
      BY <1>1 DEF workerVars
    <2>2. CASE SteamTake
      <3>1. batch' = query_queue /\ query_queue' = <<>>
        BY <2>2 DEF SteamTake
      <3> QED BY <1>2, <2>1, <3>1, QueueFacts DEF Placed
    <2>3. CASE SteamThrow
      <3>1. batch' = <<>> /\ query_queue' = query_queue
        BY <2>3 DEF SteamThrow
      <3> QED BY <1>2, <2>1, <3>1, QueueFacts DEF Placed
    <2>4. CASE SteamAnswer
      <3>1. batch # <<>> /\ batch' = Tail(batch) /\ query_queue' = query_queue
        BY <2>4 DEF SteamAnswer
      <3>2. QueueJobs(batch') \subseteq QueueJobs(batch)
        BY <1>2, <3>1, QueueFacts
      <3> QED BY <2>1, <3>1, <3>2 DEF Placed
    <2>5. CASE SteamUp \/ SteamLookup
      BY <2>1, <2>5 DEF Placed, SteamUp, SteamLookup
    <2> QED BY <2>2, <2>3, <2>4, <2>5 DEF SteamStep
  <1>4. CASE UNCHANGED mapVars
    <2>1. /\ UNCHANGED <<waiting, results, answer, gpc, cur>> /\ InGame' = InGame
      BY <1>1, <1>4 DEF mapVars, gameVars, InGame
    <2> QED BY <1>1, <1>3, <2>1, StillAnswers
  <1>5. CASE SteamAnswer /\ ~UNCHANGED mapVars
    <2>1. batch # <<>>
      BY <1>5 DEF SteamAnswer
    <2>2. Head(batch) \in Job /\ Head(batch) \in Placed
      BY <1>2, <2>1, QueueFacts DEF Placed
    <2>3. PICK n \in Lengths : /\ SaveResult(Head(batch).id, Head(batch).req, n + Wrap)
                               /\ answer' = [answer EXCEPT ![Head(batch).req] = n + Wrap]
      BY <1>5 DEF SteamAnswer
    <2>4. n + Wrap \in Nat
      BY AnswerLength
    <2> QED BY <1>1, <1>3, <2>2, <2>3, <2>4, SavedAnswers
  <1> QED BY <1>4, <1>5 DEF SteamStep, SteamUp, SteamTake, SteamLookup, SteamThrow

\* Steps of the game thread between the call and the reply, START_VAC and stop.
LEMMA GameAnswers ==
    ASSUME AInv, SInv', AsyncRegister \/ SyncTakeId \/ StartVac \/ Stop \/ WorkersJoined
                          \/ TakeIdFromEmpty
    PROVE  AInv'
  <1>1. UNCHANGED <<scriptVars, results, answer>> /\ waiting \subseteq waiting'
    BY DEF AsyncRegister, SyncTakeId, StartVac, Stop, WorkersJoined, TakeIdFromEmpty, mapVars
  <1>2. UNCHANGED Placed
    BY DEF AsyncRegister, SyncTakeId, StartVac, Stop, WorkersJoined, TakeIdFromEmpty,
       workerVars, steamVars, Placed
  <1>3. InGame' <=> InGame
    BY DEF AsyncRegister, SyncTakeId, StartVac, Stop, WorkersJoined, TakeIdFromEmpty, gameVars,
       InGame
  <1>4. cur'.req = cur.req /\ (cur'.id = cur.id \/ cur'.id \in free)
    <2>1. CASE SyncTakeId
      <3>1. PICK id \in free : cur' = [cur EXCEPT !.id = id]
        BY <2>1 DEF SyncTakeId
      <3>2. cur \in Job
        BY <2>1 DEF AInv, SInv, TInv, Holding, SyncTakeId
      <3> QED BY <3>1, <3>2 DEF Job
    <2>2. CASE cur' = cur
      BY <2>2
    <2> QED BY <2>1, <2>2 DEF AsyncRegister, StartVac, Stop, WorkersJoined, TakeIdFromEmpty,
         gameVars
  <1> QED BY <1>1, <1>2, <1>3, <1>4, StillAnswers

\* callProtocol returns a string to the game thread, whose request is of no
\* script that polls or is done.
LEMMA SyncResultAnswers ==
    ASSUME AInv, SInv', SyncResult PROVE AInv'
  <1>1. /\ UNCHANGED <<spc, key, req, got, made, waiting, results, cur, Placed>>
        /\ InGame /\ InGame'
    BY DEF SyncResult, scriptVars, workerVars, steamVars, Placed, InGame
  <1>2. Stored' = Stored
    BY <1>1 DEF Stored
  <1>3. PICK n \in Lengths : answer' = [answer EXCEPT ![cur.req] = n + Wrap]
    BY DEF SyncResult
  <1>4. answer \in [Reqs -> Nat]
    BY DEF AInv, SInv, TInv, TypeOK
  <1>5. Numbers'
    BY <1>1 DEF AInv, Numbers
  <1>6. ASSUME NEW t \in Scripts PROVE Fortune(t)'
    <2>1. Fortune(t)
      BY DEF AInv
    <2>2. spc[t] \in {"ready", "calling", "polling", "parts"}
      BY DEF AInv, SInv, TInv, TypeOK
    <2>3. spc[t] # "calling" /\ Live(t) => cur.req # req[t]
      BY <1>1, <2>1, <2>2 DEF Fortune, Asks, HasAll, Live, Asking
    <2>4. Live(t) => req[t] \in Reqs
      <3>1. req[t] \in 0..MaxCalls
        BY DEF AInv, SInv, TInv, TypeOK
      <3> QED BY <3>1, AFacts, BoundsAssumption DEF Reqs
    <2>5. spc[t] # "calling" /\ Live(t) => answer'[req[t]] = answer[req[t]]
      BY <1>3, <1>4, <2>3, <2>4
    <2>6. Asking(t) =>
             /\ key[t] \in waiting' \cup Stored'
             /\ \A u \in Scripts : Asking(u)' /\ key'[u] = key[t] => u = t
      BY <1>1, <1>2, <2>1 DEF Fortune, Asks, Asking
    <2>7. Asking(t) => Live(t) /\ spc[t] # "calling"
      BY DEF Asking, Live
    <2> QED BY <1>1, <1>2, <2>1, <2>5, <2>6, <2>7, Unmoved DEF Live
  <1> QED BY <1>5, <1>6 DEF AInv

-----------------------------------------------------------------------------
(* Steps of a script.                                                      *)

\* A script makes a new request, which no job and no script has.
LEMMA EnterAnswers ==
    ASSUME AInv, SInv', NEW s \in Scripts, Enter(s), UNCHANGED <<waiting, results, answer>>,
           \A t \in Scripts \ {s} : spc'[t] = spc[t],
           \A j \in Placed' : j \in Placed \/ (j.req = made + 1 /\ j.id = 0),
           \/ /\ spc'[s] = "calling" /\ InGame' /\ Placed' = Placed
              /\ cur'.req = made + 1 /\ cur'.id \in free \cup {0}
           \/ spc'[s] = "ready" /\ ~InGame'
    PROVE  AInv'
  <1>1. /\ made' = made + 1 /\ ~InGame /\ spc[s] = "ready"
        /\ req'[s] = made + 1 /\ got'[s] = <<>>
        /\ \A t \in Scripts \ {s} : req'[t] = req[t] /\ got'[t] = got[t] /\ key'[t] = key[t]
    BY DEF Enter, InGame, AInv, SInv, TInv, TypeOK
  <1>2. Stored' = Stored
    BY DEF Stored
  <1>3. /\ made \in Nat /\ \A j \in Placed : j.req \in Nat /\ j.req <= made
        /\ \A t \in Scripts : req[t] \in Nat /\ req[t] <= made
    BY AFacts
  <1>4. Numbers'
    <2>1. \A j \in Placed' : j.req <= made'
      BY <1>1, <1>3
    <2>2. InGame' => cur'.req \in 1..made'
      BY <1>1, <1>3
    <2>3. \A t \in Scripts : req'[t] <= made'
      BY <1>1, <1>3
    <2>4. ASSUME NEW t \in Scripts, NEW u \in Scripts, t # u, req'[t] = req'[u]
          PROVE  req'[t] = 0
      <3>1. t # s /\ u # s
        BY <1>1, <1>3, <2>4
      <3> QED BY <1>1, <2>4, <3>1 DEF AInv, Numbers
    <2> QED BY <2>1, <2>2, <2>3, <2>4 DEF Numbers
  <1>5. Fortune(s)'
    <2>1. \A j \in Placed : j.req # made + 1
      BY <1>3
    <2> QED BY <1>1, <2>1 DEF Fortune, Asking, InTheCall
  <1>6. ASSUME NEW t \in Scripts \ {s} PROVE Fortune(t)'
    <2>1. Fortune(t) /\ spc[t] # "calling"
      BY <1>1 DEF AInv, Fortune, InTheCall
    <2>2. made + 1 # req[t]
      BY <1>3
    <2>3. Asking(t) => key[t] # 0 /\ key[t] \notin free /\ key[t] \in waiting \cup Stored
      BY <2>1, AFacts DEF Fortune, Asks
    <2>4. Asking(t) => \A u \in Scripts : Asking(u)' /\ key'[u] = key[t] => u = t
      <3>1. ~Asking(s)'
        BY DEF Asking
      <3>2. \A u \in Scripts \ {s} : Asking(u)' => Asking(u)
        BY DEF Asking
      <3> QED BY <1>1, <2>1, <3>1, <3>2 DEF Fortune, Asks
    <2> QED BY <1>1, <1>2, <2>1, <2>2, <2>3, <2>4, Unmoved
  <1> QED BY <1>4, <1>5, <1>6 DEF AInv

LEMMA NewCallAnswers ==
    ASSUME AInv, SInv', NEW s \in Scripts, NewCall(s) PROVE AInv'
  <1>1. spc \in [Scripts -> {"ready", "calling", "polling", "parts"}] /\ queue \in Seq(Job)
    BY DEF AInv, SInv, TInv, TypeOK
  <1>2. CASE CallAsync(s)
    <2>1. /\ Enter(s) /\ UNCHANGED <<waiting, results, answer, Placed>>
          /\ spc' = [spc EXCEPT ![s] = "calling"] /\ InGame'
          /\ cur'.req = made + 1 /\ cur'.id \in free
      BY <1>2 DEF CallAsync, mapVars, workerVars, steamVars, Placed, InGame
    <2> QED BY <1>1, <2>1, EnterAnswers
  <1>3. CASE CallSync(s)
    <2>1. /\ Enter(s) /\ UNCHANGED <<waiting, results, answer, Placed>>
          /\ spc' = [spc EXCEPT ![s] = "calling"] /\ InGame'
          /\ cur'.req = made + 1 /\ cur'.id = 0
      BY <1>3 DEF CallSync, mapVars, workerVars, steamVars, Placed, InGame
    <2> QED BY <1>1, <2>1, EnterAnswers
  <1>4. CASE CallOneway(s)
    <2>1. PICK call \in Calls :
             /\ Enter(s)
             /\ queue' = Append(queue, [call |-> call, req |-> made + 1, id |-> OnewayId])
             /\ UNCHANGED <<mapVars, gameVars, job, steamVars, spc>>
      BY <1>4 DEF CallOneway
    <2> DEFINE new == [call |-> call, req |-> made + 1, id |-> OnewayId]
    <2>2. new \in Job /\ new.req = made + 1 /\ new.id = 0
      <3>1. made + 1 \in Reqs
        BY <2>1, EnterType DEF AInv, SInv
      <3> QED BY <3>1 DEF Job, AnyId, OnewayId
    <2> HIDE DEF new
    <2>3. QueueJobs(queue') = QueueJobs(queue) \cup {new}
      BY <1>1, <2>1, <2>2, QueueFacts DEF new
    <2>4. UNCHANGED <<job, query_queue, batch, waiting, results, answer, spc, gpc>>
      BY <2>1 DEF mapVars, gameVars, steamVars
    <2>5. \A j \in Placed' : j \in Placed \/ (j.req = made + 1 /\ j.id = 0)
      BY <2>2, <2>3, <2>4 DEF Placed
    <2>6. spc'[s] = "ready" /\ ~InGame'
      BY <2>1, <2>4 DEF Enter, InGame
    <2> QED BY <2>1, <2>4, <2>5, <2>6, EnterAnswers
  <1> QED BY <1>2, <1>3, <1>4 DEF NewCall

\* The reply is final: an error, or the whole string.
LEMMA ReplyNowAnswers ==
    ASSUME AInv, SInv', NEW s \in Scripts, Caller(s), NEW pieces, ReplyNow(s, pieces),
           UNCHANGED <<mapVars, Placed>>,
           \/ pieces = <<>>
           \/ pieces = <<[req |-> cur.req, from |-> 0, to |-> answer[cur.req]]>>
    PROVE  AInv'
  <1>1. /\ spc'[s] = "ready" /\ got'[s] = pieces /\ ~InGame'
        /\ UNCHANGED <<key, req, made>>
        /\ \A t \in Scripts \ {s} : spc'[t] = spc[t] /\ got'[t] = got[t]
    BY DEF ReplyNow, InGame, AInv, SInv, TInv, TypeOK
  <1>2. UNCHANGED <<waiting, results, answer, Stored>>
    BY DEF mapVars, Stored
  <1>3. Numbers'
    BY <1>1 DEF AInv, Numbers
  <1>4. InTheCall(s) /\ req[s] # 0
    BY AFacts DEF AInv, Fortune, Caller, Live
  <1>5. Fortune(s)'
    <2>1. CASE pieces = <<>>
      BY <1>1, <2>1 DEF Fortune, Asking
    <2>2. CASE pieces = <<[req |-> cur.req, from |-> 0, to |-> answer[cur.req]]>>
      <3>1. Contiguous(pieces, req[s]) /\ EndOf(pieces) = answer[req[s]]
        BY <1>4, <2>2 DEF Contiguous, EndOf, InTheCall
      <3>2. HasAll(s)'
        BY <1>1, <1>2, <1>4, <3>1 DEF HasAll, InTheCall, Contiguous, EndOf
      <3> QED BY <1>1, <3>2 DEF Fortune, Asking
    <2> QED BY <2>1, <2>2
  <1>6. ASSUME NEW t \in Scripts \ {s} PROVE Fortune(t)'
    <2>1. Fortune(t) /\ spc[t] # "calling"
      BY OneCaller DEF AInv, Caller
    <2>2. Asking(t) =>
             /\ key[t] \in waiting' \cup Stored'
             /\ \A u \in Scripts : Asking(u)' /\ key'[u] = key[t] => u = t
      BY <1>1, <1>2, <2>1 DEF Fortune, Asks, Asking
    <2> QED BY <1>1, <1>2, <2>1, <2>2, Unmoved
  <1> QED BY <1>3, <1>5, <1>6 DEF AInv

\* The reply is the id: the script is the only one to poll it.
LEMMA ReplyIdAnswers ==
    ASSUME AInv, SInv', NEW s \in Scripts, Caller(s), cur.id \in Ids, ReplyId(s, cur.id),
           UNCHANGED answer,
           \A j \in Placed : j.id # cur.id,
           \A j \in Placed' : j \in Placed \/ j = cur,
           \/ cur.id \in waiting /\ UNCHANGED <<waiting, results>>
           \/ Placed' = Placed /\ SaveResult(cur.id, cur.req, answer[cur.req])
    PROVE  AInv'
  <1>1. /\ spc'[s] = "polling" /\ key'[s] = cur.id /\ ~InGame'
        /\ UNCHANGED <<got, req, made>>
        /\ \A t \in Scripts \ {s} : spc'[t] = spc[t] /\ key'[t] = key[t]
    BY DEF ReplyId, InGame, AInv, SInv, TInv, TypeOK
  <1>2. InTheCall(s) /\ req[s] # 0 /\ cur.req = req[s]
    BY AFacts DEF AInv, Fortune, Caller, Live, InTheCall
  <1>3. /\ results \in [AnyId -> Piece \cup {Absent}] /\ cur.id \in AnyId
        /\ cur.req \in Reqs /\ answer[cur.req] \in Nat
    <2>1. cur \in Job /\ answer \in [Reqs -> Nat]
      BY <1>2 DEF AInv, SInv, TInv, TypeOK, Holding, InTheCall, InGame
    <2> QED BY <2>1 DEF Job, AInv, SInv, TInv, TypeOK
  <1>4. \/ cur.id \in waiting /\ waiting' = waiting /\ results' = results /\ Stored' = Stored
        \/ /\ waiting' = waiting \ {cur.id} /\ Stored' = Stored \cup {cur.id}
           /\ results'[cur.id] = [req |-> cur.req, from |-> 0, to |-> answer[cur.req]]
           /\ \A k \in AnyId \ {cur.id} : results'[k] = results[k]
    <2>1. CASE cur.id \in waiting /\ UNCHANGED <<waiting, results>>
      BY <2>1 DEF Stored
    <2>2. CASE SaveResult(cur.id, cur.req, answer[cur.req])
      <3>1. waiting' = waiting \ {cur.id} /\ Stored' = Stored \cup ({cur.id} \cap Ids)
        BY <1>3, <2>2, StoredSave DEF AInv, SInv, SaveResult
      <3> QED BY <1>3, <2>2, <3>1 DEF SaveResult
    <2> QED BY <2>1, <2>2
  <1>5. ASSUME NEW t \in Scripts \ {s}
        PROVE  /\ Fortune(t) /\ spc[t] # "calling"
               /\ Live(t) => cur.req # req[t]
               /\ Asking(t) => cur.id # key[t] /\ Asks(t)
    <2>1. Fortune(t) /\ spc[t] # "calling"
      BY OneCaller DEF AInv, Caller
    <2>2. cur.req # req[t]
      BY <1>2 DEF AInv, Numbers
    <2> QED BY <1>2, <2>1, <2>2 DEF Fortune, Asks, InTheCall
  <1>6. Numbers'
    BY <1>1, <1>2 DEF AInv, Numbers, InTheCall
  <1>7. Fortune(s)'
    <2>1. \A j \in Placed' : j.id = cur.id <=> j.req = req[s]
      BY <1>2 DEF InTheCall
    <2>2. \A t \in Scripts : Asking(t)' /\ key'[t] = cur.id => t = s
      BY <1>1, <1>5 DEF Asking
    <2>3. cur.id \in Stored' =>
             results'[cur.id] = [req |-> req[s], from |-> EndOf(got[s]), to |-> answer[req[s]]]
      <3>1. EndOf(got[s]) = 0
        BY <1>2 DEF InTheCall, EndOf
      <3> QED BY <1>2, <1>4, <3>1, AFacts
    <2>4. cur.id \in waiting' \cup Stored'
      BY <1>4
    <2>5. Contiguous(got[s], req[s]) /\ got[s] = <<>>
      BY <1>2 DEF InTheCall, Contiguous
    <2>6. Asks(s)'
      BY <1>1, <1>2, <2>1, <2>2, <2>3, <2>4, <2>5 DEF Asks, Contiguous, EndOf
    <2> QED BY <1>1, <2>6 DEF Fortune
  <1>8. ASSUME NEW t \in Scripts \ {s} PROVE Fortune(t)'
    <2>1. /\ Fortune(t) /\ spc[t] # "calling"
          /\ Live(t) => cur.req # req[t]
          /\ Asking(t) => cur.id # key[t] /\ Asks(t)
      BY <1>5
    <2>2. Live(t) => \A j \in Placed' :
             j \in Placed \/ (j.req # req[t] /\ (Asking(t) => j.id # key[t]))
      BY <2>1
    <2>3. Asking(t) =>
             /\ key[t] \in waiting' \cup Stored'
             /\ key[t] \in Stored' <=> key[t] \in Stored
             /\ key[t] \in Stored => results'[key[t]] = results[key[t]]
             /\ \A u \in Scripts : Asking(u)' /\ key'[u] = key[t] => u = t
      <3> SUFFICES ASSUME Asking(t)
                   PROVE  /\ key[t] \in waiting' \cup Stored'
                          /\ key[t] \in Stored' <=> key[t] \in Stored
                          /\ key[t] \in Stored => results'[key[t]] = results[key[t]]
                          /\ \A u \in Scripts : Asking(u)' /\ key'[u] = key[t] => u = t
        OBVIOUS
      <3>1. Asks(t) /\ cur.id # key[t] /\ key[t] \in AnyId
        BY <2>1, AFacts DEF AnyId
      <3>2. \A u \in Scripts : Asking(u)' /\ key'[u] = key[t] => u = t
        BY <1>1, <3>1 DEF Asks, Asking
      <3> QED BY <1>4, <3>1, <3>2 DEF Asks
    <2> QED BY <1>1, <2>1, <2>2, <2>3, Unmoved
  <1> QED BY <1>6, <1>7, <1>8 DEF AInv

LEMMA ReplyAnswers ==
    ASSUME AInv, SInv', NEW s \in Scripts,
           AsyncUnknown(s) \/ AsyncPost(s) \/ SyncError(s) \/ SyncReply(s) \/ SyncSave(s)
    PROVE  AInv'
  <1>1. CASE AsyncUnknown(s) \/ SyncError(s) \/ SyncReply(s)
    <2>1. Caller(s) /\ UNCHANGED <<mapVars, Placed>>
      BY <1>1 DEF AsyncUnknown, SyncError, SyncReply, workerVars, steamVars, Placed
    <2>2. \/ ReplyNow(s, <<>>)
          \/ ReplyNow(s, <<[req |-> cur.req, from |-> 0, to |-> answer[cur.req]]>>)
      BY <1>1 DEF AsyncUnknown, SyncError, SyncReply
    <2> QED BY <2>1, <2>2, ReplyNowAnswers
  <1>2. CASE AsyncPost(s)
    <2>1. cur \in Job /\ cur.id \in Ids /\ queue \in Seq(Job) /\ cur.id # 0
      BY <1>2, NoZero DEF AInv, SInv, TInv, TypeOK, Holding, AsyncPost
    <2>2. cur.id \in waiting
      BY <1>2 DEF AInv, SInv, Routes, GameId, AsyncPost
    <2>3. \A j \in Placed : j.id # cur.id
      <3>1. \A j \in Placed :
               j.id = 0 \/ j.id \in QueueIds \cup WorkerIds \cup QueryIds \cup BatchIds
        BY DEF Placed, QueueJobs, QueueIds, WorkerIds, QueryIds, BatchIds, JobsIn
      <3>2. cur.id \notin QueueIds \cup WorkerIds \cup QueryIds \cup BatchIds
        BY <1>2 DEF AInv, SInv, Routes, Apart, GameId, AsyncPost
      <3> QED BY <2>1, <3>1, <3>2
    <2>4. QueueJobs(queue') = QueueJobs(queue) \cup {cur}
      BY <1>2, <2>1, QueueFacts DEF AsyncPost
    <2>5. \A j \in Placed' : j \in Placed \/ j = cur
      BY <1>2, <2>4 DEF AsyncPost, steamVars, Placed
    <2>6. Caller(s) /\ ReplyId(s, cur.id) /\ UNCHANGED <<waiting, results, answer>>
      BY <1>2 DEF AsyncPost, mapVars
    <2> QED BY <2>1, <2>2, <2>3, <2>5, <2>6, ReplyIdAnswers
  <1>3. CASE SyncSave(s)
    <2>1. cur.id \in Ids /\ cur.id \in InCall
      BY <1>3 DEF AInv, SInv, TInv, Holding, InCall, SyncSave
    <2>2. cur.id \notin waiting /\ cur.id # 0
      BY <2>1, NoZero DEF AInv, SInv, Owners, Apart
    <2>3. \A j \in Placed : j.id # cur.id
      BY <2>2, AFacts
    <2>4. /\ Caller(s) /\ ReplyId(s, cur.id) /\ UNCHANGED <<answer, Placed>>
          /\ SaveResult(cur.id, cur.req, answer[cur.req])
      BY <1>3 DEF SyncSave, workerVars, steamVars, Placed
    <2> QED BY <2>1, <2>3, <2>4, ReplyIdAnswers
  <1> QED BY <1>1, <1>2, <1>3

\* A part that starts where the parts received end is joined to them.
LEMMA JoinPart ==
    ASSUME NEW g \in Seq(Piece), NEW r, Contiguous(g, r), NEW p \in Piece, p.req = r,
           p.from = EndOf(g)
    PROVE  /\ Append(g, p) \in Seq(Piece) /\ Contiguous(Append(g, p), r)
           /\ EndOf(Append(g, p)) = p.to
  <1>1. /\ Append(g, p) \in Seq(Piece) /\ Len(Append(g, p)) = Len(g) + 1
        /\ DOMAIN Append(g, p) = 1..(Len(g) + 1) /\ DOMAIN g = 1..Len(g) /\ Len(g) \in Nat
        /\ Append(g, p)[Len(g) + 1] = p
        /\ \A n \in 1..Len(g) : Append(g, p)[n] = g[n]
    OBVIOUS
  <1>2. EndOf(Append(g, p)) = p.to
    BY <1>1 DEF EndOf
  <1>3. ASSUME NEW n \in 1..(Len(g) + 1)
        PROVE  /\ Append(g, p)[n].req = r
               /\ Append(g, p)[n].from = IF n = 1 THEN 0 ELSE Append(g, p)[n - 1].to
    <2>1. CASE n \in 1..Len(g)
      <3>1. n # 1 => n - 1 \in 1..Len(g)
        BY <1>1, <2>1
      <3> QED BY <1>1, <2>1, <3>1 DEF Contiguous
    <2>2. CASE n = Len(g) + 1 /\ n = 1
      <3>1. g = <<>>
        BY <1>1, <2>2
      <3> QED BY <1>1, <2>2, <3>1 DEF EndOf
    <2>3. CASE n = Len(g) + 1 /\ n # 1
      <3>1. g # <<>> /\ Len(g) \in 1..Len(g)
        BY <1>1, <2>3
      <3> QED BY <1>1, <2>3, <3>1 DEF EndOf
    <2> QED BY <1>1, <2>1, <2>2, <2>3
  <1> QED BY <1>1, <1>2, <1>3 DEF Contiguous

\* What a script reads does not concern the others.
LEMMA ReadOthers ==
    ASSUME AInv, SInv', NEW s \in Scripts, Asking(s), ~InGame,
           UNCHANGED <<waiting, answer, gameVars, workerVars, steamVars, key, req, made>>,
           \A t \in Scripts \ {s} : spc'[t] = spc[t] /\ got'[t] = got[t],
           \A k \in AnyId \ {key[s]} : results'[k] = results[k],
           Fortune(s)'
    PROVE  AInv'
  <1>1. UNCHANGED <<Placed, waiting>> /\ ~InGame'
    BY DEF gameVars, workerVars, steamVars, Placed, InGame
  <1>2. Numbers'
    BY <1>1 DEF AInv, Numbers
  <1>3. Asks(s)
    BY DEF AInv, Fortune
  <1>4. ASSUME NEW t \in Scripts \ {s} PROVE Fortune(t)'
    <2>1. Fortune(t)
      BY DEF AInv
    <2>2. spc[t] # "calling"
      BY <2>1 DEF Fortune, InTheCall
    <2>3. Asking(t) =>
             /\ key[t] \in waiting' \cup Stored'
             /\ key[t] \in Stored' <=> key[t] \in Stored
             /\ key[t] \in Stored => results'[key[t]] = results[key[t]]
             /\ \A u \in Scripts : Asking(u)' /\ key'[u] = key[t] => u = t
      <3> SUFFICES ASSUME Asking(t)
                   PROVE  /\ key[t] \in waiting' \cup Stored'
                          /\ key[t] \in Stored' <=> key[t] \in Stored
                          /\ key[t] \in Stored => results'[key[t]] = results[key[t]]
                          /\ \A u \in Scripts : Asking(u)' /\ key'[u] = key[t] => u = t
        OBVIOUS
      <3>1. Asks(t) /\ key[t] \in AnyId /\ key[t] # key[s]
        BY <1>3, <2>1, AFacts DEF Fortune, Asks, AnyId
      <3>2. \A u \in Scripts : Asking(u)' /\ key'[u] = key[t] => u = t
        <4> SUFFICES ASSUME NEW u \in Scripts, Asking(u)', key[u] = key[t] PROVE u = t
          OBVIOUS
        <4>1. u # s
          BY <3>1
        <4>2. Asking(u)
          BY <4>1 DEF Asking
        <4> QED BY <3>1, <4>2 DEF Asks
      <3> QED BY <3>1, <3>2 DEF Asks, Stored
    <2> QED BY <1>1, <2>1, <2>2, <2>3, Unmoved
  <1> QED BY <1>2, <1>4 DEF AInv

\* What a script that polls finds: the rest of its own answer, which no job
\* will touch.
LEMMA FindsOwn ==
    ASSUME AInv, NEW s \in Scripts, Asking(s), ~(results[key[s]] = Absent /\ key[s] \in waiting)
    PROVE  /\ Asks(s) /\ key[s] \in Ids /\ key[s] \in AnyId /\ key[s] \in Stored
           /\ results[key[s]] # Absent /\ results[key[s]] \in Piece
           /\ results[key[s]]
                = [req |-> req[s], from |-> EndOf(got[s]), to |-> answer[req[s]]]
           /\ got[s] \in Seq(Piece)
           /\ \A j \in Placed : j.req # req[s]
  <1>1. Asks(s) /\ key[s] \in Ids /\ key[s] \in AnyId
    BY AFacts DEF AInv, Fortune, AnyId
  <1>2. key[s] \in Stored
    BY <1>1, AFacts DEF Asks, Stored
  <1>3. results[key[s]] # Absent /\ results[key[s]] \in Piece /\ got[s] \in Seq(Piece)
    BY <1>1, <1>2 DEF AInv, SInv, TInv, TypeOK, Stored
  <1>4. \A j \in Placed : j.id # key[s]
    BY <1>1, <1>2, AFacts
  <1> QED BY <1>1, <1>2, <1>3, <1>4 DEF Asks

\* "4:<id>": the whole string, or the news that it comes in parts.
LEMMA SinglePartAnswers ==
    ASSUME AInv, SInv', NEW s \in Scripts, GetSinglePart(s) PROVE AInv'
  <1> DEFINE k == key[s]
             p == results[k]
  <1>1. /\ Asking(s) /\ spc[s] = "polling" /\ ~InGame /\ ~(p = Absent /\ k \in waiting)
        /\ UNCHANGED <<waiting, answer, gameVars, workerVars, steamVars, key, req, made>>
    BY DEF GetSinglePart, Asking, InGame
  <1>2. /\ Asks(s) /\ k \in Ids /\ k \in AnyId /\ k \in Stored /\ p # Absent /\ p \in Piece
        /\ p = [req |-> req[s], from |-> EndOf(got[s]), to |-> answer[req[s]]]
        /\ \A j \in Placed : j.req # req[s]
    BY <1>1, FindsOwn
  <1>3. got[s] = <<>> /\ p.from = 0 /\ p.req = req[s] /\ p.to = answer[req[s]] /\ req[s] # 0
    BY <1>1, <1>2 DEF Asks, EndOf
  <1>4. /\ spc \in [Scripts -> {"ready", "calling", "polling", "parts"}]
        /\ got \in [Scripts -> Seq(Piece)] /\ results \in [AnyId -> Piece \cup {Absent}]
    BY DEF AInv, SInv, TInv, TypeOK
  <1>5. UNCHANGED Placed /\ ~InGame'
    BY <1>1 DEF gameVars, workerVars, steamVars, Placed, InGame
  <1>6. CASE spc' = [spc EXCEPT ![s] = "parts"] /\ UNCHANGED <<results, free, got>>
    <2>1. Fortune(s)'
      <3>1. spc'[s] = "parts" /\ \A t \in Scripts : Asking(t)' => Asking(t)
        BY <1>1, <1>4, <1>6 DEF Asking
      <3>2. UNCHANGED Stored
        BY <1>6 DEF Stored
      <3>3. Asks(s)'
        BY <1>1, <1>2, <1>3, <1>5, <1>6, <3>1, <3>2 DEF Asks, Contiguous, EndOf
      <3> QED BY <3>1, <3>3 DEF Fortune
    <2> QED BY <1>1, <1>4, <1>6, <2>1, ReadOthers
  <1>7. CASE /\ results' = [results EXCEPT ![k] = Absent]
             /\ got' = [got EXCEPT ![s] = <<p>>]
             /\ spc' = [spc EXCEPT ![s] = "ready"]
    <2>1. got'[s] = <<p>> /\ spc'[s] = "ready"
      BY <1>4, <1>7
    <2> HIDE DEF p
    <2>2. Contiguous(<<p>>, req[s]) /\ EndOf(<<p>>) = answer[req[s]]
      BY <1>3 DEF Contiguous, EndOf
    <2>3. HasAll(s)'
      BY <1>1, <1>2, <1>3, <1>5, <2>1, <2>2 DEF HasAll, Contiguous, EndOf
    <2>4. Fortune(s)'
      BY <2>1, <2>3 DEF Fortune, Asking
    <2> QED BY <1>1, <1>4, <1>7, <2>4, ReadOthers
  <1> QED BY <1>2, <1>6, <1>7 DEF GetSinglePart

\* "5:<id>": the next part, or the empty string after the last.
LEMMA MultiPartAnswers ==
    ASSUME AInv, SInv', NEW s \in Scripts, GetMultiPart(s) PROVE AInv'
  <1> DEFINE k == key[s]
             p == results[k]
             part == [p EXCEPT !.to = Cut(p)]
             rest == [p EXCEPT !.from = RestFrom(p)]
  <1>1. /\ Asking(s) /\ spc[s] = "parts" /\ ~InGame /\ ~(p = Absent /\ k \in waiting)
        /\ UNCHANGED <<waiting, answer, gameVars, workerVars, steamVars, key, req, made>>
    BY DEF GetMultiPart, Asking, InGame
  <1>2. /\ Asks(s) /\ k \in Ids /\ k \in AnyId /\ k \in Stored /\ p # Absent /\ p \in Piece
        /\ p = [req |-> req[s], from |-> EndOf(got[s]), to |-> answer[req[s]]]
        /\ got[s] \in Seq(Piece)
        /\ \A j \in Placed : j.req # req[s]
    BY <1>1, FindsOwn
  <1>3. /\ p.from = EndOf(got[s]) /\ p.req = req[s] /\ p.to = answer[req[s]] /\ req[s] # 0
        /\ Contiguous(got[s], req[s])
    BY <1>2 DEF Asks
  <1>4. /\ spc \in [Scripts -> {"ready", "calling", "polling", "parts"}]
        /\ got \in [Scripts -> Seq(Piece)] /\ results \in [AnyId -> Piece \cup {Absent}]
    BY DEF AInv, SInv, TInv, TypeOK
  <1>5. UNCHANGED Placed /\ ~InGame'
    BY <1>1 DEF gameVars, workerVars, steamVars, Placed, InGame
  <1>6. CASE /\ Size(p) = 0 /\ results' = [results EXCEPT ![k] = Absent]
             /\ spc' = [spc EXCEPT ![s] = "ready"] /\ UNCHANGED got
    <2>1. spc'[s] = "ready"
      BY <1>4, <1>6
    <2>2. EndOf(got[s]) = answer[req[s]]
      BY <1>2, <1>3, <1>6 DEF Size, Piece
    <2>3. HasAll(s)'
      BY <1>1, <1>2, <1>3, <1>5, <1>6, <2>2 DEF HasAll, Contiguous, EndOf
    <2>4. Fortune(s)'
      BY <2>1, <2>3 DEF Fortune, Asking
    <2> QED BY <1>1, <1>4, <1>6, <2>4, ReadOthers
  <1>7. CASE /\ results' = [results EXCEPT ![k].from = RestFrom(p)]
             /\ got' = [got EXCEPT ![s] = Append(@, part)]
             /\ UNCHANGED <<free, spc>>
    <2>1. /\ part \in Piece /\ part.req = req[s] /\ part.from = EndOf(got[s])
          /\ part.to = Cut(p)
          /\ rest \in Piece
          /\ rest = [req |-> req[s], from |-> Cut(p), to |-> answer[req[s]]]
      <3>1. part \in Piece /\ rest \in Piece /\ Cut(p) \in Nat
        BY <1>2, PartType
      <3> QED BY <1>2, <1>3, <3>1 DEF Piece, RestFrom
    <2>2. results'[k] = rest /\ \A i \in AnyId \ {k} : results'[i] = results[i]
      BY <1>2, <1>4, <1>7
    <2> HIDE DEF part, rest
    <2>3. /\ Contiguous(Append(got[s], part), req[s])
          /\ EndOf(Append(got[s], part)) = Cut(p)
      BY <1>2, <1>3, <2>1, JoinPart
    <2>4. got'[s] = Append(got[s], part)
      BY <1>4, <1>7
    <2>5. rest # Absent
      BY <1>3, <2>1 DEF Absent
    <2>6. Stored' = Stored
      BY <1>2, <2>2, <2>5 DEF Stored, AnyId
    <2>7. results'[k] = [req |-> req[s], from |-> EndOf(got'[s]), to |-> answer[req[s]]]
      BY <2>1, <2>2, <2>3, <2>4
    <2>8. Contiguous(got'[s], req[s])
      BY <2>3, <2>4
    <2>9. Asks(s)'
      <3>1. \A t \in Scripts : Asking(t)' /\ key'[t] = key'[s] => t = s
        BY <1>1, <1>2, <1>7 DEF Asks, Asking
      <3>2. spc'[s] = "parts" /\ key'[s] \in Stored'
        BY <1>1, <1>2, <1>7, <2>6
      <3> QED BY <1>1, <1>2, <1>3, <1>5, <2>6, <2>7, <2>8, <3>1, <3>2
           DEF Asks, Contiguous, EndOf
    <2>10. Fortune(s)'
      BY <1>1, <1>7, <2>9 DEF Fortune
    <2> QED BY <1>1, <1>4, <1>7, <2>2, <2>10, ReadOthers
  <1> QED BY <1>2, <1>6, <1>7 DEF GetMultiPart

-----------------------------------------------------------------------------
LEMMA AInit == Init => AInv
  <1> SUFFICES ASSUME Init PROVE AInv
    OBVIOUS
  <1>1. \A j \in Placed : j = NoJob
    BY QueueFacts DEF Init, Placed, QueueJobs
  <1>2. made = 0 /\ ~InGame /\ \A s \in Scripts : spc[s] = "ready" /\ got[s] = <<>> /\ req[s] = 0
    BY DEF Init, InGame
  <1>3. Numbers
    BY <1>1, <1>2 DEF Numbers, NoJob
  <1>4. \A s \in Scripts : Fortune(s)
    BY <1>2 DEF Fortune, Asking
  <1> QED BY <1>3, <1>4, InitSafe DEF AInv

LEMMA ANext ==
    ASSUME AInv, [Next]_vars, ~clashed' PROVE AInv'
  <1>1. SInv'
    BY NextSafe DEF AInv
  <1>2. CASE GameStep
    BY <1>1, <1>2, GameAnswers, SyncResultAnswers, ReplyAnswers DEF GameStep
  <1>3. CASE StartVac \/ Stop \/ TakeIdFromEmpty
    BY <1>1, <1>3, GameAnswers
  <1>4. CASE SteamStep
    BY <1>1, <1>4, SteamAnswers
  <1>5. ASSUME NEW s \in Scripts, NewCall(s) \/ Poll(s) PROVE AInv'
    BY <1>1, <1>5, NewCallAnswers, SinglePartAnswers, MultiPartAnswers DEF Poll
  <1>6. ASSUME NEW w \in Workers, WorkerStep(w) PROVE AInv'
    BY <1>1, <1>6, WorkerAnswers
  <1>7. CASE UNCHANGED vars
    <2>1. UNCHANGED <<scriptVars, waiting, results, answer, cur, Placed, InGame>>
      BY <1>7 DEF vars, mapVars, gameVars, workerVars, steamVars, Placed, InGame
    <2> QED BY <1>1, <2>1, StillAnswers
  <1> QED BY <1>2, <1>3, <1>4, <1>5, <1>6, <1>7 DEF Next

\* Whatever the threads do, a script that polls an id finds its own request
\* there, although ids are reused at once: its id waits, or what is stored is
\* the rest of its own answer.  This holds for every number of scripts,
\* workers, ids and calls and every output_size, up to the first procedure that
\* frees the id of another.
THEOREM ScriptsFindTheirOwn == Spec => [](~clashed => OwnAnswer)
  <1>1. (clashed \/ AInv) /\ [Next]_vars => (clashed \/ AInv)'
    BY ANext, ClashStays
  <1>2. clashed \/ AInv => (~clashed => OwnAnswer)
    BY FindsOwn DEF OwnAnswer, Asking
  <1> QED BY AInit, <1>1, <1>2, PTL DEF Spec

\* Until then a script that has received parts has joined all of them, in order
\* and without a gap, into the string that answers its request.
THEOREM ScriptsGetWholeAnswers == Spec => [](~clashed => WholeAnswer)
  <1>1. (clashed \/ AInv) /\ [Next]_vars => (clashed \/ AInv)'
    BY ANext, ClashStays
  <1>2. clashed \/ AInv => (~clashed => WholeAnswer)
    BY DEF WholeAnswer, AInv, Fortune, HasAll
  <1> QED BY AInit, <1>1, <1>2, PTL DEF Spec

-----------------------------------------------------------------------------
(* That an answer is on its way.                                           *)

\* No query loses its answer by itself: none comes without ids, and no profile
\* asked for lacks the list that is read from its document.
QueriesReturn == \A c \in Calls : c.kind \notin {"vacShort", "vacPrivate"}

\* The ids of the calls some thread is still to answer.
OnWay == GameId \cup QueueIds \cup WorkerIds \cup QueryIds \cup BatchIds

\* A call with an id has been found to be of a protocol that is loaded.
Loaded ==
    /\ gpc = "post" => cur.call.kind # "unknown"
    /\ \A j \in QueueJobs(queue) \cup {job[w] : w \in Workers} :
          j.call.kind = "unknown" => j.id = 0

Drained == gpc = "stopped" => queue = <<>> /\ \A w \in Workers : wpc[w] = "idle"

\* A thread at rest has no job.
Resting ==
    /\ \A w \in Workers : wpc[w] = "idle" => job[w] = NoJob
    /\ steam \notin {"lookup", "answer"} => batch = <<>>

WInv == TInv /\ Resting /\ Loaded /\ waiting \subseteq OnWay /\ steam # "dead" /\ Drained

\* The kind of a job is that of a call.
LEMMA JobKinds ==
    ASSUME QueriesReturn, NEW j \in Job
    PROVE  j.call.kind \notin {"vacShort", "vacPrivate"}
  <1>1. j.call \in Calls
    BY DEF Job
  <1> QED BY <1>1 DEF QueriesReturn

\* The ids of the other workers stay.
LEMMA FinishKeeps ==
    ASSUME TInv, NEW w \in Workers, Finish(w)
    PROVE  WorkerIds \ {job[w].id} \subseteq WorkerIds'
  <1>1. \A v \in Workers \ {w} : job'[v] = job[v]
    BY DEF Finish, TInv, TypeOK
  <1> QED BY <1>1 DEF WorkerIds

\* Saving under an id ends the wait for that id and no other.
LEMMA WaitsLess ==
    ASSUME TInv, NEW i,
           (UNCHANGED mapVars /\ i = 0) \/ \E r, n : SaveResult(i, r, n)
    PROVE  waiting' = waiting \ {i}
  <1>1. 0 \notin waiting
    BY NoZero DEF TInv, TypeOK
  <1> QED BY <1>1 DEF SaveResult, mapVars

-----------------------------------------------------------------------------
LEMMA NewCallWaits ==
    ASSUME WInv, NEW s \in Scripts, NewCall(s)
    PROVE  Loaded' /\ waiting' \subseteq OnWay'
  <1>1. /\ gpc = "idle" /\ gpc' # "post"
        /\ UNCHANGED <<waiting, job, QueryIds, BatchIds, WorkerIds>>
    <2>1. gpc = "idle" /\ gpc' # "post"
      BY DEF NewCall, CallAsync, CallOneway, CallSync, Enter, gameVars
    <2>2. UNCHANGED <<waiting, job, query_queue, batch>>
      BY DEF NewCall, CallAsync, CallOneway, CallSync, mapVars, workerVars, steamVars
    <2> QED BY <2>1, <2>2 DEF QueryIds, BatchIds, WorkerIds
  <1>2. GameId = {}
    BY <1>1 DEF GameId
  <1>3. queue \in Seq(Job)
    BY DEF WInv, TInv, TypeOK
  <1>4. CASE CallAsync(s) \/ CallSync(s)
    <2>1. UNCHANGED <<queue, QueueIds>>
      BY <1>4 DEF CallAsync, CallSync, workerVars, QueueIds
    <2> QED BY <1>1, <1>2, <2>1 DEF WInv, OnWay, Loaded
  <1>5. CASE CallOneway(s)
    <2>1. PICK call \in Calls :
             /\ Enter(s)
             /\ queue' = Append(queue, [call |-> call, req |-> made + 1, id |-> OnewayId])
      BY <1>5 DEF CallOneway
    <2> DEFINE new == [call |-> call, req |-> made + 1, id |-> OnewayId]
    <2>2. new \in Job /\ new.id = 0
      <3>1. made + 1 \in Reqs
        BY <2>1, EnterType DEF WInv
      <3> QED BY <3>1 DEF Job, AnyId, OnewayId
    <2> HIDE DEF new
    <2>3. queue' = Append(queue, new)
      BY <2>1 DEF new
    <2>4. QueueJobs(queue') = QueueJobs(queue) \cup {new} /\ QueueIds \subseteq QueueIds'
      BY <1>3, <2>2, <2>3, QueueFacts, AppendIds DEF QueueIds
    <2> QED BY <1>1, <1>2, <2>2, <2>4 DEF WInv, OnWay, Loaded
  <1> QED BY <1>4, <1>5 DEF NewCall

LEMMA GameWaits ==
    ASSUME WInv, GameStep \/ StartVac \/ Stop \/ TakeIdFromEmpty
    PROVE  Loaded' /\ waiting' \subseteq OnWay'
  <1>1. UNCHANGED <<job, QueryIds, BatchIds, WorkerIds>>
    BY DEF GameStep, AsyncRegister, SyncResult, SyncTakeId, WorkersJoined, AsyncUnknown,
       AsyncPost, SyncError, SyncReply, SyncSave, StartVac, Stop, TakeIdFromEmpty,
       workerVars, steamVars, QueryIds, BatchIds, WorkerIds
  <1>2. CASE AsyncRegister
    <2>1. /\ GameId = {} /\ GameId' = {cur.id} /\ waiting' = waiting \cup {cur.id}
          /\ UNCHANGED <<queue, QueueIds, cur>> /\ cur.call.kind # "unknown"
      BY <1>2 DEF AsyncRegister, GameId, workerVars, QueueIds
    <2> QED BY <1>1, <2>1 DEF WInv, OnWay, Loaded
  <1>3. ASSUME NEW s \in Scripts, AsyncPost(s) PROVE Loaded' /\ waiting' \subseteq OnWay'
    <2>1. cur \in Job /\ cur.id \in Ids /\ cur.id # 0 /\ queue \in Seq(Job)
      BY <1>3, NoZero DEF WInv, TInv, TypeOK, Holding, AsyncPost
    <2>2. /\ GameId = {cur.id} /\ gpc' = "idle" /\ waiting' = waiting
          /\ queue' = Append(queue, cur) /\ cur.call.kind # "unknown"
      BY <1>3 DEF AsyncPost, ReplyId, GameId, mapVars, WInv, Loaded
    <2>3. /\ QueueIds' = QueueIds \cup {cur.id}
          /\ QueueJobs(queue') = QueueJobs(queue) \cup {cur}
      BY <2>1, <2>2, AppendIds, QueueFacts DEF QueueIds
    <2> QED BY <1>1, <2>2, <2>3 DEF WInv, OnWay, Loaded
  <1>4. CASE \/ SyncResult \/ SyncTakeId \/ WorkersJoined \/ StartVac \/ Stop
             \/ TakeIdFromEmpty
             \/ \E s \in Scripts : AsyncUnknown(s) \/ SyncError(s) \/ SyncReply(s) \/ SyncSave(s)
    <2>1. /\ waiting' \subseteq waiting /\ UNCHANGED <<queue, QueueIds>>
          /\ \/ GameId = {} /\ gpc' # "post"
             \/ UNCHANGED <<gpc, cur, GameId>>
      BY <1>4 DEF SyncResult, SyncTakeId, WorkersJoined, AsyncUnknown, SyncError, SyncReply,
         SyncSave, StartVac, Stop, TakeIdFromEmpty, ReplyNow, ReplyId, SaveResult, mapVars,
         gameVars, workerVars, QueueIds, GameId
    <2> QED BY <1>1, <2>1 DEF WInv, OnWay, Loaded
  <1> QED BY <1>2, <1>3, <1>4 DEF GameStep

LEMMA WorkerWaits ==
    ASSUME QueriesReturn, WInv, NEW w \in Workers, WorkerStep(w)
    PROVE  Loaded' /\ waiting' \subseteq OnWay'
  <1>1. UNCHANGED <<gpc, cur, GameId, batch, BatchIds>>
    BY DEF WorkerStep, Take, Answer, DropUnknown, Throw, Offload, SteamDisabled, ReturnFalse,
       ProcTakeId, ProcName, ProcFree, ProcError, ProcReturn, gameVars, steamVars, GameId,
       BatchIds
  <1>2. /\ queue \in Seq(Job) /\ query_queue \in Seq(Job) /\ NoJob.id = 0
        /\ job \in [Workers -> Job \cup {NoJob}]
    BY DEF WInv, TInv, TypeOK, NoJob
  <1>3. CASE Take(w)
    <2>1. /\ queue # <<>> /\ queue' = Tail(queue)
          /\ UNCHANGED <<waiting, query_queue, QueryIds>> /\ job[w].id = 0
          /\ \A v \in Workers : job'[v] = IF v = w THEN Head(queue) ELSE job[v]
      BY <1>2, <1>3 DEF Take, mapVars, steamVars, QueryIds, WInv, Resting, NoJob
    <2>2. /\ QueueIds \ {Head(queue).id} \subseteq QueueIds'
          /\ Head(queue) \in QueueJobs(queue) /\ QueueJobs(queue') \subseteq QueueJobs(queue)
      BY <1>2, <2>1, TailKeeps, QueueFacts DEF QueueIds
    <2>3. WorkerIds \cup ({Head(queue).id} \ {0}) \subseteq WorkerIds'
      BY <2>1 DEF WorkerIds
    <2>4. Loaded'
      BY <1>1, <2>1, <2>2 DEF WInv, Loaded
    <2>5. 0 \notin waiting
      BY NoZero DEF WInv, TInv, TypeOK
    <2> QED BY <1>1, <2>1, <2>2, <2>3, <2>4, <2>5 DEF WInv, OnWay
  <1>4. CASE Answer(w) \/ ProcReturn(w) \/ SteamDisabled(w) \/ DropUnknown(w) \/ Offload(w)
    <2>1. /\ Finish(w) /\ wpc[w] # "idle" /\ UNCHANGED <<queue, QueueIds>>
          /\ \A v \in Workers : job'[v] = IF v = w THEN NoJob ELSE job[v]
      BY <1>2, <1>4 DEF Answer, ProcReturn, SteamDisabled, DropUnknown, Offload, Returned,
         Finish, Runs, QueueIds
    <2>2. job[w] \in Job
      BY <2>1 DEF WInv, TInv, Holding
    <2>3. WorkerIds \ {job[w].id} \subseteq WorkerIds'
      BY <2>1, FinishKeeps DEF WInv
    <2>4. Loaded'
      BY <1>1, <1>2, <2>1 DEF WInv, Loaded
    <2>5. CASE Answer(w) \/ ProcReturn(w) \/ SteamDisabled(w) \/ DropUnknown(w)
      <3>1. /\ UNCHANGED <<query_queue, QueryIds>>
            /\ \/ UNCHANGED mapVars /\ job[w].id = 0
               \/ \E r, n : SaveResult(job[w].id, r, n)
        BY <2>5 DEF Answer, ProcReturn, SteamDisabled, DropUnknown, Returned, steamVars,
           QueryIds, Runs, WInv, Loaded
      <3>2. waiting' = waiting \ {job[w].id}
        BY <2>2, <3>1, WaitsLess DEF WInv
      <3> QED BY <1>1, <2>1, <2>3, <2>4, <3>1, <3>2 DEF WInv, OnWay
    <2>6. CASE Offload(w)
      <3>1. waiting' = waiting /\ query_queue' = Append(query_queue, job[w])
        BY <2>6 DEF Offload, mapVars
      <3>2. QueryIds' = QueryIds \cup ({job[w].id} \ {0})
        BY <1>2, <2>2, <3>1, AppendIds DEF QueryIds
      <3>3. 0 \notin waiting
        BY NoZero DEF WInv, TInv, TypeOK
      <3> QED BY <1>1, <2>1, <2>3, <2>4, <3>1, <3>2, <3>3 DEF WInv, OnWay
    <2> QED BY <1>4, <2>5, <2>6
  <1>5. CASE ReturnFalse(w)
    <2>1. job[w] \in Job /\ job[w].call.kind = "vacShort"
      BY <1>5 DEF ReturnFalse, Runs, WInv, TInv, Holding
    <2> QED BY <2>1, JobKinds
  <1>6. CASE Throw(w) \/ ProcTakeId(w) \/ ProcName(w) \/ ProcFree(w) \/ ProcError(w)
    <2>1. UNCHANGED <<waiting, queue, job, QueueIds, QueryIds, WorkerIds>>
      BY <1>6 DEF Throw, ProcTakeId, ProcName, ProcFree, ProcError, mapVars, workerVars,
         steamVars, QueueIds, QueryIds, WorkerIds
    <2> QED BY <1>1, <2>1 DEF WInv, OnWay, Loaded
  <1> QED BY <1>3, <1>4, <1>5, <1>6 DEF WorkerStep

LEMMA SteamWaits ==
    ASSUME QueriesReturn, WInv, SteamStep
    PROVE  Loaded' /\ waiting' \subseteq OnWay' /\ steam' # "dead"
  <1>1. UNCHANGED <<gpc, cur, queue, job, GameId, QueueIds, WorkerIds>>
    BY DEF SteamStep, SteamUp, SteamTake, SteamLookup, SteamThrow, SteamAnswer, gameVars,
       workerVars, GameId, QueueIds, WorkerIds
  <1>2. Loaded'
    BY <1>1 DEF WInv, Loaded
  <1>3. batch \in Seq(Job)
    BY DEF WInv, TInv, TypeOK
  <1>4. CASE SteamUp \/ SteamLookup
    <2>1. UNCHANGED <<waiting, QueryIds, BatchIds>> /\ steam' # "dead"
      BY <1>4 DEF SteamUp, SteamLookup, mapVars, QueryIds, BatchIds
    <2> QED BY <1>1, <1>2, <2>1 DEF WInv, OnWay
  <1>5. CASE SteamTake
    <2>1. batch = <<>> /\ batch' = query_queue /\ waiting' = waiting /\ steam' # "dead"
      BY <1>5 DEF SteamTake, mapVars, WInv, Resting
    <2>2. BatchIds = {} /\ BatchIds' = QueryIds
      BY <2>1, EmptyIds DEF BatchIds, QueryIds
    <2> QED BY <1>1, <1>2, <2>1, <2>2 DEF WInv, OnWay
  <1>6. CASE SteamThrow
    <2>1. PICK i \in 1..Len(batch) : batch[i].call.kind = "vacPrivate"
      BY <1>6 DEF SteamThrow
    <2>2. batch[i] \in Job
      BY <1>3
    <2> QED BY <2>1, <2>2, JobKinds
  <1>7. CASE SteamAnswer
    <2> DEFINE q == Head(batch)
    <2>1. /\ batch # <<>> /\ batch' = Tail(batch) /\ steam' # "dead"
          /\ UNCHANGED QueryIds
      BY <1>7 DEF SteamAnswer, QueryIds
    <2>2. q \in Job /\ BatchIds \ {q.id} \subseteq BatchIds'
      BY <1>3, <2>1, TailKeeps DEF BatchIds
    <2>3. (UNCHANGED mapVars /\ q.id = 0) \/ \E r, n : SaveResult(q.id, r, n)
      <3>1. q.id \in AnyId
        BY <2>2 DEF Job
      <3>2. Answerable(q) \/ q.id = 0
        BY <3>1, IdsAssumption DEF Answerable, AnyId, Ids
      <3> QED BY <1>7, <3>2 DEF SteamAnswer
    <2> HIDE DEF q
    <2>4. waiting' = waiting \ {q.id}
      BY <2>3, WaitsLess DEF WInv
    <2> QED BY <1>1, <1>2, <2>1, <2>2, <2>4 DEF WInv, OnWay
  <1> QED BY <1>4, <1>5, <1>6, <1>7 DEF SteamStep

LEMMA WInit == Init => WInv
  <1> SUFFICES ASSUME Init PROVE WInv
    OBVIOUS
  <1>1. /\ waiting = {} /\ steam = "off" /\ gpc = "idle" /\ queue = <<>>
        /\ job = [w \in Workers |-> NoJob]
    BY DEF Init
  <1>2. QueueJobs(queue) = {} /\ \A w \in Workers : job[w].id = 0
    BY <1>1, QueueFacts DEF NoJob, QueueJobs
  <1>3. Resting
    BY <1>1 DEF Init, Resting
  <1> QED BY <1>1, <1>2, <1>3, InitType DEF WInv, Loaded, Drained

\* A worker drops its job as it goes idle, and the Steam thread its batch.
LEMMA RestingNext ==
    ASSUME TInv, Resting, [Next]_vars PROVE Resting'
  <1>1. /\ wpc \in [Workers -> {"idle", "run", "procName", "procSql", "procDone"}]
        /\ job \in [Workers -> Job \cup {NoJob}]
    BY DEF TInv, TypeOK
  <1>2. CASE \E w \in Workers : WorkerStep(w)
    <2>1. PICK w \in Workers : WorkerStep(w)
      BY <1>2
    <2>2. UNCHANGED <<steam, batch>>
      BY <2>1 DEF WorkerStep, Take, Answer, DropUnknown, Throw, Offload, SteamDisabled,
         ReturnFalse, ProcTakeId, ProcName, ProcFree, ProcError, ProcReturn, steamVars
    <2>3. \A v \in Workers \ {w} : wpc'[v] = wpc[v] /\ job'[v] = job[v]
      BY <1>1, <2>1 DEF WorkerStep, Take, Answer, DropUnknown, Throw, Offload, SteamDisabled,
         ReturnFalse, Returned, Finish, ProcTakeId, ProcName, ProcFree, ProcError, ProcReturn,
         workerVars
    <2>4. wpc'[w] = "idle" => job'[w] = NoJob
      BY <1>1, <2>1 DEF WorkerStep, Take, Answer, DropUnknown, Throw, Offload, SteamDisabled,
         ReturnFalse, Returned, Finish, ProcTakeId, ProcName, ProcFree, ProcError, ProcReturn,
         workerVars, Resting
    <2> QED BY <2>2, <2>3, <2>4 DEF Resting
  <1>3. CASE SteamStep
    BY <1>3 DEF SteamStep, SteamUp, SteamTake, SteamLookup, SteamThrow, SteamAnswer,
       workerVars, Resting
  <1>4. CASE ~SteamStep /\ ~\E w \in Workers : WorkerStep(w)
    <2>1. UNCHANGED <<wpc, job, batch>> /\ (steam' = steam \/ (steam = "off" /\ steam' = "starting"))
      BY <1>4 DEF Next, GameStep, AsyncRegister, SyncResult, SyncTakeId, WorkersJoined,
         AsyncUnknown, AsyncPost, SyncError, SyncReply, SyncSave, StartVac, Stop,
         TakeIdFromEmpty, NewCall, CallAsync, CallOneway, CallSync, Poll, GetSinglePart,
         GetMultiPart, workerVars, steamVars, vars
    <2> QED BY <2>1 DEF Resting
  <1> QED BY <1>2, <1>3, <1>4

LEMMA WNext ==
    ASSUME QueriesReturn, WInv, [Next]_vars PROVE WInv'
  <1>1. TInv' /\ Resting'
    BY NextType, RestingNext DEF WInv
  <1>2. Loaded' /\ waiting' \subseteq OnWay'
    <2>1. CASE UNCHANGED vars
      <3>1. UNCHANGED <<waiting, gpc, cur, queue, job, query_queue, batch>>
        BY <2>1 DEF vars, mapVars, gameVars, workerVars, steamVars
      <3> QED BY <3>1 DEF WInv, Loaded, OnWay, GameId, QueueIds, WorkerIds, QueryIds, BatchIds
    <2>2. ASSUME NEW s \in Scripts, Poll(s) PROVE Loaded' /\ waiting' \subseteq OnWay'
      <3>1. UNCHANGED <<waiting, gpc, cur, queue, job, query_queue, batch>>
        BY <2>2 DEF Poll, GetSinglePart, GetMultiPart, gameVars, workerVars, steamVars
      <3> QED BY <3>1 DEF WInv, Loaded, OnWay, GameId, QueueIds, WorkerIds, QueryIds, BatchIds
    <2> QED BY <2>1, <2>2, NewCallWaits, GameWaits, WorkerWaits, SteamWaits DEF Next
  <1>3. steam' # "dead"
    <2>1. CASE SteamStep
      BY <2>1, SteamWaits
    <2>2. CASE ~SteamStep
      <3>1. steam' = steam \/ steam' = "starting"
        BY <2>2 DEF Next, GameStep, AsyncRegister, SyncResult, SyncTakeId, WorkersJoined,
           AsyncUnknown, AsyncPost, SyncError, SyncReply, SyncSave, StartVac, Stop,
           TakeIdFromEmpty, NewCall, CallAsync, CallOneway, CallSync, Poll, GetSinglePart,
           GetMultiPart, WorkerStep, Take, Answer, DropUnknown, Throw, Offload, SteamDisabled,
           ReturnFalse, ProcTakeId, ProcName, ProcFree, ProcError, ProcReturn, steamVars, vars
      <3> QED BY <3>1 DEF WInv
    <2> QED BY <2>1, <2>2
  <1>4. Drained'
    <2>1. CASE gpc = "stopped"
      <3>1. UNCHANGED vars
        BY <2>1 DEF Next, GameStep, AsyncRegister, SyncResult, SyncTakeId, WorkersJoined,
           AsyncUnknown, AsyncPost, SyncError, SyncReply, SyncSave, StartVac, Stop,
           TakeIdFromEmpty, NewCall, CallAsync, CallOneway, CallSync, Enter, Poll,
           GetSinglePart, GetMultiPart, WorkerStep, Take, Answer, DropUnknown, Throw, Offload,
           SteamDisabled, ReturnFalse, ProcTakeId, ProcName, ProcFree, ProcError, ProcReturn,
           SteamStep, SteamUp, SteamTake, SteamLookup, SteamThrow, SteamAnswer, Running, Runs
      <3> QED BY <2>1, <3>1 DEF WInv, Drained, vars, gameVars, workerVars
    <2>2. CASE gpc # "stopped" /\ gpc' = "stopped"
      <3>1. WorkersJoined
        BY <2>2 DEF Next, GameStep, AsyncRegister, SyncResult, SyncTakeId,
           AsyncUnknown, AsyncPost, SyncError, SyncReply, SyncSave, ReplyNow, ReplyId,
           StartVac, Stop,
           TakeIdFromEmpty, NewCall, CallAsync, CallOneway, CallSync, Poll,
           GetSinglePart, GetMultiPart, WorkerStep, Take, Answer, DropUnknown, Throw, Offload,
           SteamDisabled, ReturnFalse, ProcTakeId, ProcName, ProcFree, ProcError, ProcReturn,
           SteamStep, SteamUp, SteamTake, SteamLookup, SteamThrow, SteamAnswer, gameVars, vars
      <3> QED BY <3>1 DEF WorkersJoined, Drained, workerVars
    <2> QED BY <2>1, <2>2 DEF Drained
  <1> QED BY <1>1, <1>2, <1>3, <1>4 DEF WInv

\* An id on its way has a producer.
LEMMA WayProducers ==
    ASSUME NEW i
    PROVE  /\ i \in GameId => <<"game", 0>> \in Producers(i)
           /\ i \in QueueIds => \E n : <<"posted", n>> \in Producers(i)
           /\ i \in WorkerIds => \E w : <<"worker", w>> \in Producers(i)
           /\ i \in QueryIds => \E n : <<"steam", n>> \in Producers(i)
           /\ i \in BatchIds => \E n : <<"batch", n>> \in Producers(i)
  <1>1. i \in GameId => <<"game", 0>> \in Producers(i)
    BY DEF GameId, Producers
  <1>2. ASSUME i \in QueueIds PROVE \E n : <<"posted", n>> \in Producers(i)
    <2>1. PICK n \in DOMAIN queue : queue[n].id = i
      BY <1>2 DEF QueueIds, JobsIn
    <2>2. <<"posted", n>> \in {<<"posted", m>> : m \in {k \in DOMAIN queue : queue[k].id = i}}
      BY <2>1
    <2> QED BY <2>2 DEF Producers
  <1>3. ASSUME i \in WorkerIds PROVE \E w : <<"worker", w>> \in Producers(i)
    <2>1. PICK w \in Workers : job[w].id = i
      BY <1>3 DEF WorkerIds
    <2>2. <<"worker", w>> \in {<<"worker", v>> : v \in {u \in Workers : job[u].id = i}}
      BY <2>1
    <2> QED BY <2>2 DEF Producers
  <1>4. ASSUME i \in QueryIds PROVE \E n : <<"steam", n>> \in Producers(i)
    <2>1. PICK n \in DOMAIN query_queue : query_queue[n].id = i
      BY <1>4 DEF QueryIds, JobsIn
    <2>2. <<"steam", n>> \in {<<"steam", m>> :
                                m \in {k \in DOMAIN query_queue : query_queue[k].id = i}}
      BY <2>1
    <2> QED BY <2>2 DEF Producers
  <1>5. ASSUME i \in BatchIds PROVE \E n : <<"batch", n>> \in Producers(i)
    <2>1. PICK n \in DOMAIN batch : batch[n].id = i
      BY <1>5 DEF BatchIds, JobsIn
    <2>2. <<"batch", n>> \in {<<"batch", m>> : m \in {k \in DOMAIN batch : batch[k].id = i}}
      BY <2>1
    <2> QED BY <2>2 DEF Producers
  <1> QED BY <1>1, <1>2, <1>3, <1>4, <1>5

\* abstract_protocol.cpp says that where callProtocol returns FALSE, another
\* thread "will manage Result itself": every id that waits is in the hands of
\* some thread that will answer it, for every number of scripts, workers, ids
\* and calls, also once procedures mix up their ids.  The condition on queries
\* is needed: a VAC query without ids waits for nobody, and a document without
\* the list ends the Steam thread, whose batch then waits for ever.
THEOREM AnswersAreComing ==
    ASSUME QueriesReturn PROVE Spec => []AnswerComing
  <1>1. WInv /\ [Next]_vars => WInv'
    BY WNext
  <1>2. WInv => AnswerComing
    <2> SUFFICES ASSUME WInv, NEW i \in waiting PROVE \E p \in Producers(i) : steam # "dead"
      BY DEF AnswerComing
    <2>1. i \in OnWay /\ steam # "dead"
      BY DEF WInv
    <2>2. \E p : p \in Producers(i)
      BY <2>1, WayProducers DEF OnWay
    <2> QED BY <2>1, <2>2
  <1> QED BY WInit, <1>1, <1>2, PTL DEF Spec

\* When Ext::stop has joined the workers, every posted call has been run, and
\* no id waits but for those the Steam thread has, under the same condition.
THEOREM StopLeavesNothing ==
    ASSUME QueriesReturn PROVE Spec => []StopDrains
  <1>1. WInv /\ [Next]_vars => WInv'
    BY WNext
  <1>2. WInv => StopDrains
    <2> SUFFICES ASSUME WInv, gpc = "stopped"
                 PROVE  /\ queue = <<>>
                        /\ \A i \in waiting : \E p \in Producers(i) : p[1] \in {"steam", "batch"}
      BY DEF StopDrains
    <2>1. queue = <<>> /\ \A w \in Workers : job[w] = NoJob
      BY DEF WInv, Drained, Resting
    <2>2. GameId = {} /\ QueueIds = {} /\ WorkerIds = {}
      BY <2>1, EmptyIds DEF GameId, QueueIds, WorkerIds, NoJob
    <2>3. waiting \subseteq QueryIds \cup BatchIds
      BY <2>2 DEF WInv, OnWay
    <2>4. ASSUME NEW i \in waiting PROVE \E p \in Producers(i) : p[1] \in {"steam", "batch"}
      <3>1. (\E n : <<"steam", n>> \in Producers(i)) \/ (\E n : <<"batch", n>> \in Producers(i))
        BY <2>3, WayProducers
      <3> QED BY <3>1
    <2> QED BY <2>1, <2>4
  <1> QED BY WInit, <1>1, <1>2, PTL DEF Spec

-----------------------------------------------------------------------------
(* The promise to scripts, CallContract: a request is in the hands of one  *)
(* thread at a time, which is why it is answered once.                     *)

ReqsIn(q) == {q[n].req : n \in DOMAIN q}
OneEach(q) == \A m, n \in DOMAIN q : q[m].req = q[n].req => m = n

GameReq    == IF InGame THEN {cur.req} ELSE {}
WorkerReqs == {job[w].req : w \in Workers} \ {0}

Tasks ==
    /\ Apart(GameReq, ReqsIn(queue), WorkerReqs, ReqsIn(query_queue), ReqsIn(batch))
    /\ OneEach(queue) /\ OneEach(query_queue) /\ OneEach(batch)
    /\ \A v, w \in Workers : job[v].req = job[w].req /\ job[v].req # 0 => v = w

\* The requests that have no answer yet.
Answering == gpc \in {"syncReply", "syncSave"}
Open == (IF Answering THEN {} ELSE GameReq)
           \cup ReqsIn(queue) \cup WorkerReqs \cup ReqsIn(query_queue) \cup ReqsIn(batch)

Unanswered ==
    /\ \A r \in Open : answer[r] = 0
    /\ \A r \in Reqs : r > made => answer[r] = 0

\* No answer is the empty string: it is wrapped.
Wrapped ==
    /\ Answering => answer[cur.req] # 0
    /\ \A i \in AnyId : results[i] # Absent => results[i].to # 0

CInv == AInv /\ Tasks /\ Unanswered /\ Wrapped

\* A job at the end of a queue, and one taken from its front.
LEMMA AppendReqs ==
    ASSUME NEW q \in Seq(Job), NEW j \in Job
    PROVE  /\ ReqsIn(Append(q, j)) = ReqsIn(q) \cup {j.req}
           /\ OneEach(q) /\ j.req \notin ReqsIn(q) => OneEach(Append(q, j))
  <1>1. /\ DOMAIN Append(q, j) = 1..(Len(q) + 1) /\ DOMAIN q = 1..Len(q)
        /\ \A n \in 1..Len(q) : Append(q, j)[n] = q[n]
        /\ Append(q, j)[Len(q) + 1] = j
        /\ Len(q) \in Nat
    OBVIOUS
  <1>2. ReqsIn(Append(q, j)) = ReqsIn(q) \cup {j.req}
    BY <1>1 DEF ReqsIn
  <1>3. ASSUME OneEach(q), j.req \notin ReqsIn(q) PROVE OneEach(Append(q, j))
    BY <1>1, <1>3 DEF OneEach, ReqsIn
  <1> QED BY <1>2, <1>3

LEMMA TailReqs ==
    ASSUME NEW q \in Seq(Job), q # <<>>, OneEach(q)
    PROVE  /\ ReqsIn(Tail(q)) = ReqsIn(q) \ {Head(q).req}
           /\ OneEach(Tail(q))
           /\ Head(q).req \in ReqsIn(q) /\ Head(q) \in Job
  <1>1. /\ DOMAIN Tail(q) = 1..(Len(q) - 1) /\ DOMAIN q = 1..Len(q)
        /\ \A n \in 1..(Len(q) - 1) : Tail(q)[n] = q[n + 1]
        /\ Head(q) = q[1] /\ Head(q) \in Job
        /\ Len(q) \in Nat \ {0}
    OBVIOUS
  <1>2. \A n \in DOMAIN q : n = 1 \/ (n - 1 \in DOMAIN Tail(q) /\ q[n] = Tail(q)[n - 1])
    BY <1>1
  <1>3. \A n \in DOMAIN Tail(q) : n + 1 \in DOMAIN q /\ n + 1 # 1 /\ Tail(q)[n] = q[n + 1]
    BY <1>1
  <1>4. Head(q) = q[1] /\ 1 \in DOMAIN q
    BY <1>1
  <1>5. ReqsIn(Tail(q)) \subseteq ReqsIn(q) \ {Head(q).req}
    <2> SUFFICES ASSUME NEW n \in DOMAIN Tail(q)
                 PROVE  Tail(q)[n].req \in ReqsIn(q) \ {Head(q).req}
      BY DEF ReqsIn
    <2>1. q[n + 1].req # q[1].req
      BY <1>3, <1>4 DEF OneEach
    <2> QED BY <2>1, <1>3, <1>4 DEF ReqsIn
  <1>6. ReqsIn(q) \ {Head(q).req} \subseteq ReqsIn(Tail(q))
    <2> SUFFICES ASSUME NEW n \in DOMAIN q, q[n].req # Head(q).req
                 PROVE  q[n].req \in ReqsIn(Tail(q))
      BY DEF ReqsIn
    <2>1. n - 1 \in DOMAIN Tail(q) /\ q[n] = Tail(q)[n - 1]
      BY <1>2, <1>4
    <2> QED BY <2>1 DEF ReqsIn
  <1>7. OneEach(Tail(q))
    BY <1>1 DEF OneEach
  <1> QED BY <1>1, <1>4, <1>5, <1>6, <1>7 DEF ReqsIn

LEMMA NoReqs == ReqsIn(<<>>) = {} /\ OneEach(<<>>)
  BY DEF ReqsIn, OneEach

\* Requests in hand have been made.
LEMMA TaskBounds ==
    ASSUME AInv
    PROVE  /\ made \in Nat
           /\ GameReq \subseteq 1..made /\ ReqsIn(queue) \subseteq 1..made
           /\ WorkerReqs \subseteq 1..made /\ ReqsIn(query_queue) \subseteq 1..made
           /\ ReqsIn(batch) \subseteq 1..made
           /\ 1..made \subseteq Reqs
  <1>1. made \in 0..MaxCalls
    BY DEF AInv, SInv, TInv, TypeOK
  <1>2. GameReq \subseteq 1..made
    BY DEF GameReq, AInv, Numbers
  <1>3. \A j \in Placed : j.req \in Nat /\ j.req <= made /\ (j.req # 0 => j.req \in 1..made)
    BY <1>1, AFacts
  <1>4. WorkerReqs \subseteq 1..made
    BY <1>3 DEF WorkerReqs, Placed
  <1>5. ASSUME NEW q \in Seq(Job), QueueJobs(q) \subseteq Placed PROVE ReqsIn(q) \subseteq 1..made
    <2> SUFFICES ASSUME NEW n \in DOMAIN q PROVE q[n].req \in 1..made
      BY DEF ReqsIn
    <2>1. q[n] \in Job /\ q[n] \in Placed
      BY <1>5 DEF QueueJobs
    <2>2. q[n].req # 0
      BY <2>1 DEF Job, Reqs
    <2> QED BY <1>3, <2>1, <2>2
  <1>6. queue \in Seq(Job) /\ query_queue \in Seq(Job) /\ batch \in Seq(Job)
    BY DEF AInv, SInv, TInv, TypeOK
  <1>7. 1..made \subseteq Reqs
    BY <1>1, BoundsAssumption DEF Reqs
  <1> QED BY <1>1, <1>2, <1>4, <1>5, <1>6, <1>7 DEF Placed

\* A step answers at most one request, which some thread has.
Gives(r) == /\ r \in Open
            /\ \E n \in Nat \ {0} : answer' = [answer EXCEPT ![r] = n]
AtMostOne == answer' = answer \/ \E r \in 1..made : Gives(r)

\* A step that answers nothing, and one that answers a request.
LEMMA StillUnanswered ==
    ASSUME CInv, answer' = answer, made' \in Nat, made' >= made,
           \A r \in Open' : r \in Open \/ (r \in Reqs /\ r > made)
    PROVE  Unanswered' /\ AtMostOne
  <1>1. made \in Nat /\ Reqs \subseteq Nat
    BY TaskBounds DEF CInv, Reqs
  <1>2. \A r \in Reqs : r > made' => r > made
    BY <1>1
  <1> QED BY <1>2 DEF CInv, Unanswered, AtMostOne

LEMMA OneAnswered ==
    ASSUME CInv, NEW r \in 1..made, Gives(r), made' = made, Open' \subseteq Open \ {r}
    PROVE  Unanswered' /\ AtMostOne
  <1>1. made \in Nat /\ answer \in [Reqs -> Nat] /\ r \in Reqs
    BY TaskBounds DEF CInv, AInv, SInv, TInv, TypeOK
  <1>2. PICK n \in Nat \ {0} : answer' = [answer EXCEPT ![r] = n]
    BY DEF Gives
  <1>3. Open \subseteq Reqs
    BY TaskBounds DEF CInv, Open
  <1>4. \A k \in Reqs \ {r} : answer'[k] = answer[k]
    BY <1>1, <1>2
  <1>5. \A k \in Open' : answer'[k] = 0
    BY <1>3, <1>4 DEF CInv, Unanswered
  <1>6. \A k \in Reqs : k > made => k # r
    BY <1>1
  <1> QED BY <1>4, <1>5, <1>6 DEF CInv, Unanswered, AtMostOne

-----------------------------------------------------------------------------
LEMMA NewCallTasks ==
    ASSUME CInv, NEW s \in Scripts, NewCall(s) PROVE Tasks' /\ Unanswered' /\ AtMostOne
  <1>1. /\ GameReq = {} /\ made' = made + 1 /\ made + 1 \in Reqs /\ made \in Nat
        /\ UNCHANGED <<answer, job, query_queue, batch>>
    <2>1. Enter(s)
      BY DEF NewCall, CallAsync, CallOneway, CallSync
    <2>2. made + 1 \in Reqs /\ made \in Nat
      BY <2>1, EnterType, TaskBounds DEF CInv, AInv, SInv
    <2> QED BY <2>1, <2>2 DEF Enter, GameReq, InGame, NewCall, CallAsync, CallOneway, CallSync,
         mapVars, workerVars, steamVars
  <1>2. UNCHANGED <<WorkerReqs, ReqsIn(query_queue), ReqsIn(batch)>>
    BY <1>1 DEF WorkerReqs, ReqsIn
  <1>3. /\ made + 1 \notin ReqsIn(queue) /\ made + 1 \notin WorkerReqs
        /\ made + 1 \notin ReqsIn(query_queue) /\ made + 1 \notin ReqsIn(batch)
    <2>1. made + 1 \notin 1..made
      BY <1>1
    <2> QED BY <2>1, TaskBounds DEF CInv
  <1>4. CASE CallAsync(s) \/ CallSync(s)
    <2>1. /\ GameReq' = {made + 1} /\ ~Answering' /\ UNCHANGED <<queue, ReqsIn(queue)>>
      BY <1>4 DEF CallAsync, CallSync, GameReq, InGame, Answering, workerVars, ReqsIn
    <2>2. Tasks'
      BY <1>1, <1>2, <1>3, <2>1 DEF CInv, Tasks, Apart, OneEach
    <2>3. \A r \in Open' : r \in Open \/ r = made + 1
      BY <1>2, <2>1 DEF Open
    <2> QED BY <1>1, <2>2, <2>3, StillUnanswered
  <1>5. CASE CallOneway(s)
    <2>1. PICK call \in Calls :
             queue' = Append(queue, [call |-> call, req |-> made + 1, id |-> OnewayId])
      BY <1>5 DEF CallOneway
    <2> DEFINE new == [call |-> call, req |-> made + 1, id |-> OnewayId]
    <2>2. new \in Job /\ new.req = made + 1
      BY <1>1 DEF Job, AnyId, OnewayId
    <2> HIDE DEF new
    <2>3. queue' = Append(queue, new) /\ queue \in Seq(Job) /\ OneEach(queue)
      BY <2>1 DEF new, CInv, AInv, SInv, TInv, TypeOK, Tasks
    <2>4. ReqsIn(queue') = ReqsIn(queue) \cup {made + 1} /\ OneEach(queue')
      BY <1>3, <2>2, <2>3, AppendReqs
    <2>5. GameReq' = {} /\ Answering' = Answering /\ ~Answering
      BY <1>5 DEF CallOneway, gameVars, Enter, GameReq, InGame, Answering
    <2>6. Tasks'
      BY <1>1, <1>2, <1>3, <2>4, <2>5 DEF CInv, Tasks, Apart, OneEach
    <2>7. \A r \in Open' : r \in Open \/ r = made + 1
      BY <1>1, <1>2, <2>4, <2>5 DEF Open
    <2> QED BY <1>1, <2>6, <2>7, StillUnanswered
  <1> QED BY <1>4, <1>5 DEF NewCall

\* The steps of the game thread in a call: it passes the request on, answers
\* it, or is done with it.
LEMMA GameTasks ==
    ASSUME CInv, GameStep \/ StartVac \/ Stop \/ TakeIdFromEmpty
    PROVE  Tasks' /\ Unanswered' /\ AtMostOne
  <1>1. /\ made' = made /\ made \in Nat
        /\ UNCHANGED <<job, query_queue, batch, WorkerReqs, ReqsIn(query_queue), ReqsIn(batch)>>
    <2>1. UNCHANGED <<made, job, query_queue, batch>>
      BY DEF GameStep, AsyncRegister, SyncResult, SyncTakeId, WorkersJoined, AsyncUnknown,
         AsyncPost, SyncError, SyncReply, SyncSave, StartVac, Stop, TakeIdFromEmpty,
         ReplyNow, ReplyId, workerVars, steamVars, scriptVars
    <2> QED BY <2>1, TaskBounds DEF CInv, WorkerReqs, ReqsIn
  <1>2. CASE SyncResult
    <2>1. /\ GameReq = {cur.req} /\ GameReq' = {cur.req} /\ ~Answering /\ Answering'
          /\ UNCHANGED <<queue, ReqsIn(queue)>>
      BY <1>2 DEF SyncResult, GameReq, InGame, Answering, workerVars, ReqsIn
    <2>2. Tasks'
      BY <1>1, <2>1 DEF CInv, Tasks, OneEach
    <2>3. Open' \subseteq Open \ {cur.req}
      BY <1>1, <2>1 DEF Open, CInv, Tasks, Apart
    <2>4. PICK n \in Lengths : answer' = [answer EXCEPT ![cur.req] = n + Wrap]
      BY <1>2 DEF SyncResult
    <2>5. n + Wrap \in Nat \ {0}
      BY AnswerLength
    <2>6. Gives(cur.req)
      BY <2>1, <2>4, <2>5 DEF Gives, Open
    <2>7. cur.req \in 1..made
      BY <2>1, TaskBounds DEF CInv
    <2> QED BY <1>1, <2>2, <2>3, <2>6, <2>7, OneAnswered
  <1>3. CASE AsyncRegister \/ SyncTakeId \/ WorkersJoined \/ StartVac \/ Stop \/ TakeIdFromEmpty
    <2>1. UNCHANGED <<answer, queue, ReqsIn(queue), InGame, Answering>>
      BY <1>3 DEF AsyncRegister, SyncTakeId, WorkersJoined, StartVac, Stop, TakeIdFromEmpty,
         mapVars, gameVars, workerVars, InGame, Answering, ReqsIn
    <2>2. cur'.req = cur.req
      <3>1. CASE SyncTakeId
        BY <3>1 DEF SyncTakeId, CInv, AInv, SInv, TInv, Holding, Job
      <3> QED BY <1>3, <3>1 DEF AsyncRegister, WorkersJoined, StartVac, Stop, TakeIdFromEmpty,
           gameVars
    <2>3. GameReq' = GameReq
      BY <2>1, <2>2 DEF GameReq
    <2>4. Tasks' /\ Open' = Open
      BY <1>1, <2>1, <2>3 DEF CInv, Tasks, Open, OneEach
    <2> QED BY <1>1, <2>1, <2>4, StillUnanswered
  <1>4. CASE \E s \in Scripts : AsyncUnknown(s) \/ SyncError(s) \/ SyncReply(s) \/ SyncSave(s)
    <2>1. /\ UNCHANGED <<answer, queue, ReqsIn(queue)>> /\ GameReq' = {}
      BY <1>4 DEF AsyncUnknown, SyncError, SyncReply, SyncSave, ReplyNow, ReplyId, mapVars,
         workerVars, GameReq, InGame, ReqsIn
    <2>2. Tasks' /\ Open' \subseteq Open
      BY <1>1, <2>1 DEF CInv, Tasks, Apart, Open, OneEach
    <2> QED BY <1>1, <2>1, <2>2, StillUnanswered
  <1>5. ASSUME NEW s \in Scripts, AsyncPost(s) PROVE Tasks' /\ Unanswered' /\ AtMostOne
    <2>1. cur \in Job /\ queue \in Seq(Job) /\ OneEach(queue)
      BY <1>5 DEF CInv, AInv, SInv, TInv, TypeOK, Holding, Tasks, AsyncPost
    <2>2. /\ GameReq = {cur.req} /\ GameReq' = {} /\ ~Answering /\ ~Answering'
          /\ queue' = Append(queue, cur) /\ answer' = answer
      BY <1>5 DEF AsyncPost, ReplyId, GameReq, InGame, Answering, mapVars
    <2>3. ReqsIn(queue') = ReqsIn(queue) \cup {cur.req} /\ OneEach(queue')
      BY <2>1, <2>2, AppendReqs DEF CInv, Tasks, Apart
    <2>4. Tasks' /\ Open' = Open
      BY <1>1, <2>2, <2>3 DEF CInv, Tasks, Apart, Open, OneEach
    <2> QED BY <1>1, <2>2, <2>4, StillUnanswered
  <1> QED BY <1>2, <1>3, <1>4, <1>5 DEF GameStep

\* What a worker leaves behind when its handler ends.
LEMMA FinishTasks ==
    ASSUME CInv, NEW w \in Workers, Finish(w)
    PROVE  /\ WorkerReqs' = WorkerReqs \ {job[w].req}
           /\ \A u, v \in Workers : job'[u].req = job'[v].req /\ job'[u].req # 0 => u = v
  <1>1. /\ \A v \in Workers : job'[v] = IF v = w THEN NoJob ELSE job[v]
        /\ NoJob.req = 0
    BY DEF Finish, CInv, AInv, SInv, TInv, TypeOK, NoJob
  <1>2. \A v \in Workers \ {w} : job[v].req # 0 => job[v].req # job[w].req
    BY DEF CInv, Tasks
  <1> QED BY <1>1, <1>2 DEF WorkerReqs, CInv, Tasks

\* The steps of a worker: it takes a request, passes it on, answers it, or
\* drops it.
LEMMA WorkerTasks ==
    ASSUME CInv, NEW w \in Workers, WorkerStep(w) PROVE Tasks' /\ Unanswered' /\ AtMostOne
  <1>1. /\ UNCHANGED <<GameReq, Answering, ReqsIn(batch), batch, made>> /\ made \in Nat
    <2>1. UNCHANGED <<gpc, cur, batch, made>>
      BY DEF WorkerStep, Take, Answer, DropUnknown, Throw, Offload, SteamDisabled, ReturnFalse,
         ProcTakeId, ProcName, ProcFree, ProcError, ProcReturn, gameVars, steamVars, scriptVars
    <2> QED BY <2>1, TaskBounds DEF CInv, GameReq, InGame, Answering, ReqsIn
  <1>2. /\ queue \in Seq(Job) /\ query_queue \in Seq(Job)
        /\ job \in [Workers -> Job \cup {NoJob}]
    BY DEF CInv, AInv, SInv, TInv, TypeOK
  <1>3. CASE Take(w)
    <2>1. /\ queue # <<>> /\ queue' = Tail(queue) /\ OneEach(queue)
          /\ UNCHANGED <<answer, query_queue, ReqsIn(query_queue)>>
          /\ job[w] = NoJob
          /\ \A v \in Workers : job'[v] = IF v = w THEN Head(queue) ELSE job[v]
      BY <1>2, <1>3 DEF Take, mapVars, steamVars, ReqsIn, CInv, AInv, SInv, Local, Tasks
    <2>2. /\ ReqsIn(queue') = ReqsIn(queue) \ {Head(queue).req} /\ OneEach(queue')
          /\ Head(queue).req \in ReqsIn(queue)
      BY <1>2, <2>1, TailReqs
    <2>3. Head(queue).req # 0
      BY <2>2, TaskBounds DEF CInv
    <2>4. WorkerReqs' = WorkerReqs \cup {Head(queue).req}
      BY <2>1, <2>3 DEF WorkerReqs, NoJob
    <2>5. \A v \in Workers : job[v].req # Head(queue).req
      BY <2>2, <2>3 DEF CInv, Tasks, Apart, WorkerReqs
    <2>6. \A u, v \in Workers : job'[u].req = job'[v].req /\ job'[u].req # 0 => u = v
      BY <2>1, <2>5 DEF CInv, Tasks
    <2>7. Tasks' /\ Open' = Open
      BY <1>1, <2>1, <2>2, <2>4, <2>6 DEF CInv, Tasks, Apart, Open, OneEach
    <2> QED BY <1>1, <2>1, <2>7, StillUnanswered
  <1>4. CASE Offload(w)
    <2>1. /\ Finish(w) /\ UNCHANGED <<answer, queue, ReqsIn(queue)>> /\ wpc[w] # "idle"
          /\ query_queue' = Append(query_queue, job[w]) /\ OneEach(query_queue)
      BY <1>4 DEF Offload, Finish, Runs, mapVars, ReqsIn, CInv, Tasks
    <2>2. job[w] \in Job
      BY <2>1 DEF CInv, AInv, SInv, TInv, Holding
    <2>3. job[w].req # 0
      BY <2>2 DEF Job, Reqs
    <2>4. job[w].req \in WorkerReqs
      BY <2>3 DEF WorkerReqs
    <2>5. /\ ReqsIn(query_queue') = ReqsIn(query_queue) \cup {job[w].req}
          /\ OneEach(query_queue')
      BY <1>2, <2>1, <2>2, <2>4, AppendReqs DEF CInv, Tasks, Apart
    <2>6. Tasks' /\ Open' = Open
      BY <1>1, <2>1, <2>4, <2>5, FinishTasks DEF CInv, Tasks, Apart, Open, OneEach
    <2> QED BY <1>1, <2>1, <2>6, StillUnanswered
  <1>5. CASE Answer(w) \/ ProcReturn(w) \/ SteamDisabled(w) \/ DropUnknown(w) \/ ReturnFalse(w)
    <2>1. /\ Finish(w) /\ wpc[w] # "idle"
          /\ UNCHANGED <<queue, query_queue, ReqsIn(queue), ReqsIn(query_queue)>>
          /\ \/ answer' = answer
             \/ \E n \in Lengths : answer' = [answer EXCEPT ![job[w].req] = n + Wrap]
      BY <1>5 DEF Answer, ProcReturn, SteamDisabled, DropUnknown, ReturnFalse, Returned,
         Finish, Runs, mapVars, steamVars, ReqsIn
    <2>2. job[w] \in Job
      BY <2>1 DEF CInv, AInv, SInv, TInv, Holding
    <2>3. job[w].req # 0
      BY <2>2 DEF Job, Reqs
    <2>4. job[w].req \in WorkerReqs
      BY <2>3 DEF WorkerReqs
    <2>5. Tasks' /\ Open' \subseteq Open \ {job[w].req}
      BY <1>1, <2>1, <2>4, FinishTasks DEF CInv, Tasks, Apart, Open, OneEach
    <2>6. CASE answer' = answer
      BY <1>1, <2>5, <2>6, StillUnanswered
    <2>7. CASE \E n \in Lengths : answer' = [answer EXCEPT ![job[w].req] = n + Wrap]
      <3>1. PICK n \in Lengths : answer' = [answer EXCEPT ![job[w].req] = n + Wrap]
        BY <2>7
      <3>2. n + Wrap \in Nat \ {0}
        BY AnswerLength
      <3>3. Gives(job[w].req) /\ job[w].req \in 1..made
        BY <2>4, <3>1, <3>2, TaskBounds DEF Gives, Open, CInv
      <3> QED BY <1>1, <2>5, <3>3, OneAnswered
    <2> QED BY <2>1, <2>5, <2>6, <2>7
  <1>6. CASE Throw(w) \/ ProcTakeId(w) \/ ProcName(w) \/ ProcFree(w) \/ ProcError(w)
    <2>1. UNCHANGED <<answer, queue, job, query_queue, ReqsIn(queue), ReqsIn(query_queue),
                      WorkerReqs>>
      BY <1>6 DEF Throw, ProcTakeId, ProcName, ProcFree, ProcError, mapVars, workerVars,
         steamVars, ReqsIn, WorkerReqs
    <2>2. Tasks' /\ Open' = Open
      BY <1>1, <2>1 DEF CInv, Tasks, Open, OneEach
    <2> QED BY <1>1, <2>1, <2>2, StillUnanswered
  <1> QED BY <1>3, <1>4, <1>5, <1>6 DEF WorkerStep

\* The steps of the Steam thread.
LEMMA SteamTasks ==
    ASSUME CInv, SteamStep PROVE Tasks' /\ Unanswered' /\ AtMostOne
  <1>1. /\ UNCHANGED <<GameReq, Answering, queue, job, ReqsIn(queue), WorkerReqs, made>>
        /\ made \in Nat
    <2>1. UNCHANGED <<gpc, cur, queue, job, made>>
      BY DEF SteamStep, SteamUp, SteamTake, SteamLookup, SteamThrow, SteamAnswer, gameVars,
         workerVars, scriptVars
    <2> QED BY <2>1, TaskBounds DEF CInv, GameReq, InGame, Answering, ReqsIn, WorkerReqs
  <1>2. batch \in Seq(Job) /\ OneEach(batch)
    BY DEF CInv, AInv, SInv, TInv, TypeOK, Tasks
  <1>3. CASE SteamUp \/ SteamLookup
    <2>1. UNCHANGED <<answer, query_queue, batch, ReqsIn(query_queue), ReqsIn(batch)>>
      BY <1>3 DEF SteamUp, SteamLookup, mapVars, ReqsIn
    <2>2. Tasks' /\ Open' = Open
      BY <1>1, <2>1 DEF CInv, Tasks, Open, OneEach
    <2> QED BY <1>1, <2>1, <2>2, StillUnanswered
  <1>4. CASE SteamTake
    <2>1. batch = <<>> /\ batch' = query_queue /\ query_queue' = <<>> /\ answer' = answer
      BY <1>4 DEF SteamTake, mapVars, CInv, AInv, SInv, Local
    <2>2. /\ ReqsIn(batch) = {} /\ ReqsIn(batch') = ReqsIn(query_queue)
          /\ ReqsIn(query_queue') = {} /\ OneEach(query_queue')
      BY <2>1, NoReqs DEF ReqsIn
    <2>3. Tasks' /\ Open' = Open
      BY <1>1, <2>1, <2>2 DEF CInv, Tasks, Apart, Open, OneEach
    <2> QED BY <1>1, <2>1, <2>3, StillUnanswered
  <1>5. CASE SteamThrow
    <2>1. batch' = <<>> /\ query_queue' = query_queue /\ answer' = answer
      BY <1>5 DEF SteamThrow, mapVars
    <2>2. /\ ReqsIn(batch') = {} /\ OneEach(batch')
          /\ ReqsIn(query_queue') = ReqsIn(query_queue)
      BY <2>1, NoReqs DEF ReqsIn
    <2>3. Tasks' /\ Open' \subseteq Open
      BY <1>1, <2>1, <2>2 DEF CInv, Tasks, Apart, Open, OneEach
    <2> QED BY <1>1, <2>1, <2>3, StillUnanswered
  <1>6. CASE SteamAnswer
    <2> DEFINE r == Head(batch).req
    <2>1. /\ batch # <<>> /\ batch' = Tail(batch)
          /\ UNCHANGED <<query_queue, ReqsIn(query_queue)>>
          /\ \/ answer' = answer
             \/ \E n \in Lengths : answer' = [answer EXCEPT ![r] = n + Wrap]
      BY <1>6 DEF SteamAnswer, mapVars, ReqsIn
    <2>2. ReqsIn(batch') = ReqsIn(batch) \ {r} /\ OneEach(batch') /\ r \in ReqsIn(batch)
      BY <1>2, <2>1, TailReqs
    <2>3. Tasks' /\ Open' \subseteq Open \ {r}
      BY <1>1, <2>1, <2>2 DEF CInv, Tasks, Apart, Open, OneEach
    <2>4. CASE answer' = answer
      BY <1>1, <2>3, <2>4, StillUnanswered
    <2>5. CASE \E n \in Lengths : answer' = [answer EXCEPT ![r] = n + Wrap]
      <3>1. PICK n \in Lengths : answer' = [answer EXCEPT ![r] = n + Wrap]
        BY <2>5
      <3>2. n + Wrap \in Nat \ {0}
        BY AnswerLength
      <3>3. Gives(r) /\ r \in 1..made
        BY <2>2, <3>1, <3>2, TaskBounds DEF Gives, Open, CInv
      <3> QED BY <1>1, <2>3, <3>3, OneAnswered
    <2> QED BY <2>1, <2>3, <2>4, <2>5
  <1> QED BY <1>3, <1>4, <1>5, <1>6 DEF SteamStep

-----------------------------------------------------------------------------
\* What is saved is not empty, and stays so until it is erased.
LEMMA SaveWrapped ==
    ASSUME CInv, NEW i \in AnyId, NEW r, NEW n \in Nat \ {0}, SaveResult(i, r, n)
    PROVE  \A k \in AnyId : results'[k] # Absent => results'[k].to # 0
  <1>1. results \in [AnyId -> Piece \cup {Absent}]
    BY DEF CInv, AInv, SInv, TInv, TypeOK
  <1>2. \A k \in AnyId : results'[k] = IF k = i THEN [req |-> r, from |-> 0, to |-> n]
                                       ELSE results[k]
    BY <1>1 DEF SaveResult
  <1> QED BY <1>2 DEF CInv, Wrapped

LEMMA WorkerWrapped ==
    ASSUME CInv, NEW w \in Workers, WorkerStep(w)
    PROVE  \A k \in AnyId : results'[k] # Absent => results'[k].to # 0
  <1>1. CASE Answer(w) \/ ProcReturn(w) \/ SteamDisabled(w)
    <2>1. wpc[w] # "idle"
      BY <1>1 DEF Answer, ProcReturn, SteamDisabled, Runs
    <2>2. job[w].id \in AnyId
      BY <2>1 DEF CInv, AInv, SInv, TInv, Holding, Job
    <2>3. \/ results' = results
          \/ \E n \in Lengths : SaveResult(job[w].id, job[w].req, n + Wrap)
      BY <1>1 DEF Answer, ProcReturn, SteamDisabled, Returned, mapVars
    <2>4. \A n \in Lengths : n + Wrap \in Nat \ {0}
      BY AnswerLength
    <2>5. CASE results' = results
      BY <2>5 DEF CInv, Wrapped
    <2> QED BY <2>2, <2>3, <2>4, <2>5, SaveWrapped
  <1>2. CASE ~(Answer(w) \/ ProcReturn(w) \/ SteamDisabled(w))
    <2>1. results' = results
      BY <1>2 DEF WorkerStep, Take, DropUnknown, Throw, Offload, ReturnFalse, ProcTakeId,
         ProcName, ProcFree, ProcError, mapVars
    <2> QED BY <2>1 DEF CInv, Wrapped
  <1> QED BY <1>1, <1>2

LEMMA SteamWrapped ==
    ASSUME CInv, SteamStep
    PROVE  \A k \in AnyId : results'[k] # Absent => results'[k].to # 0
  <1>1. CASE results' = results
    BY <1>1 DEF CInv, Wrapped
  <1>2. CASE SteamAnswer /\ results' # results
    <2>1. batch \in Seq(Job) /\ batch # <<>>
      BY <1>2 DEF CInv, AInv, SInv, TInv, TypeOK, SteamAnswer
    <2>2. Head(batch) \in Job
      BY <2>1
    <2>3. Head(batch).id \in AnyId
      BY <2>2 DEF Job
    <2>4. PICK n \in Lengths : SaveResult(Head(batch).id, Head(batch).req, n + Wrap)
      BY <1>2 DEF SteamAnswer, mapVars
    <2>5. n + Wrap \in Nat \ {0}
      BY AnswerLength
    <2> QED BY <2>3, <2>4, <2>5, SaveWrapped
  <1> QED BY <1>1, <1>2 DEF SteamStep, SteamUp, SteamTake, SteamLookup, SteamThrow, mapVars

LEMMA GameWrapped ==
    ASSUME CInv, GameStep \/ StartVac \/ Stop \/ TakeIdFromEmpty
    PROVE  \A k \in AnyId : results'[k] # Absent => results'[k].to # 0
  <1>1. CASE results' = results
    BY <1>1 DEF CInv, Wrapped
  <1>2. ASSUME NEW s \in Scripts, SyncSave(s)
        PROVE  \A k \in AnyId : results'[k] # Absent => results'[k].to # 0
    <2>1. cur \in Job /\ answer \in [Reqs -> Nat]
      BY <1>2 DEF CInv, AInv, SInv, TInv, TypeOK, Holding, SyncSave
    <2>2. cur.id \in AnyId /\ answer[cur.req] \in Nat
      BY <2>1 DEF Job
    <2>3. answer[cur.req] # 0
      BY <1>2 DEF SyncSave, CInv, Wrapped, Answering
    <2> QED BY <1>2, <2>2, <2>3, SaveWrapped DEF SyncSave
  <1> QED BY <1>1, <1>2 DEF GameStep, AsyncRegister, SyncResult, SyncTakeId, WorkersJoined,
       AsyncUnknown, AsyncPost, SyncError, SyncReply, StartVac, Stop, TakeIdFromEmpty, mapVars

LEMMA PollWrapped ==
    ASSUME CInv, NEW s \in Scripts, Poll(s)
    PROVE  \A k \in AnyId : results'[k] # Absent => results'[k].to # 0
  <1>1. results \in [AnyId -> Piece \cup {Absent}]
    BY DEF CInv, AInv, SInv, TInv, TypeOK
  <1>2. CASE results' = results
    BY <1>2 DEF CInv, Wrapped
  <1>3. ASSUME NEW i \in AnyId, Erases(i)
        PROVE  \A k \in AnyId : results'[k] # Absent => results'[k].to # 0
    BY <1>1, <1>3 DEF Erases, CInv, Wrapped
  <1>4. ASSUME NEW i \in AnyId, Moves(i)
        PROVE  \A k \in AnyId : results'[k] # Absent => results'[k].to # 0
    <2>1. results[i] \in Piece
      BY <1>1, <1>4 DEF Moves
    <2>2. \A k \in AnyId : results'[k] = IF k = i
                              THEN [results[i] EXCEPT !.from = RestFrom(results[i])]
                              ELSE results[k]
      BY <1>1, <1>4 DEF Moves
    <2>3. [results[i] EXCEPT !.from = RestFrom(results[i])].to = results[i].to
      BY <2>1 DEF Piece
    <2> QED BY <1>4, <2>2, <2>3 DEF CInv, Wrapped, Moves
  <1> QED BY <1>2, <1>3, <1>4, PollResults DEF CInv, AInv

LEMMA CInit == Init => CInv
  <1> SUFFICES ASSUME Init PROVE CInv
    OBVIOUS
  <1>1. /\ queue = <<>> /\ query_queue = <<>> /\ batch = <<>> /\ gpc = "idle" /\ made = 0
        /\ job = [w \in Workers |-> NoJob] /\ answer = [r \in Reqs |-> 0]
        /\ results = [i \in AnyId |-> Absent]
    BY DEF Init
  <1>2. /\ GameReq = {} /\ ReqsIn(queue) = {} /\ WorkerReqs = {}
        /\ ReqsIn(query_queue) = {} /\ ReqsIn(batch) = {} /\ ~Answering
    BY <1>1, NoReqs DEF GameReq, WorkerReqs, InGame, NoJob, Answering
  <1>3. Tasks
    BY <1>1, <1>2, NoReqs DEF Tasks, Apart, NoJob
  <1>4. Unanswered /\ Wrapped
    BY <1>1, <1>2 DEF Unanswered, Open, Wrapped
  <1> QED BY <1>3, <1>4, AInit DEF CInv

LEMMA CNext ==
    ASSUME CInv, [Next]_vars, ~clashed' PROVE CInv' /\ AtMostOne
  <1>1. AInv'
    BY ANext DEF CInv
  <1>2. Tasks' /\ Unanswered' /\ AtMostOne
    <2>1. CASE UNCHANGED vars \/ \E s \in Scripts : Poll(s)
      <3>1. UNCHANGED <<gpc, cur, queue, job, query_queue, batch, made, answer>>
        BY <2>1 DEF vars, mapVars, gameVars, workerVars, steamVars, scriptVars, Poll,
           GetSinglePart, GetMultiPart
      <3>2. UNCHANGED <<GameReq, ReqsIn(queue), WorkerReqs, ReqsIn(query_queue), ReqsIn(batch),
                        Answering>>
        BY <3>1 DEF GameReq, InGame, ReqsIn, WorkerReqs, Answering
      <3>3. Tasks' /\ Open' = Open
        BY <3>1, <3>2 DEF CInv, Tasks, Open, OneEach
      <3>4. made \in Nat
        BY TaskBounds DEF CInv
      <3> QED BY <3>1, <3>3, <3>4, StillUnanswered
    <2> QED BY <2>1, NewCallTasks, GameTasks, WorkerTasks, SteamTasks DEF Next
  <1>3. \A k \in AnyId : results'[k] # Absent => results'[k].to # 0
    <2>1. CASE UNCHANGED vars \/ \E s \in Scripts : NewCall(s)
      <3>1. results' = results
        BY <2>1 DEF vars, mapVars, NewCall, CallAsync, CallOneway, CallSync
      <3> QED BY <3>1 DEF CInv, Wrapped
    <2> QED BY <2>1, PollWrapped, GameWrapped, WorkerWrapped, SteamWrapped DEF Next
  <1>4. Answering' => answer'[cur'.req] # 0
    <2> SUFFICES ASSUME Answering' PROVE answer'[cur'.req] # 0
      OBVIOUS
    <2>1. CASE SyncResult
      <3>1. cur.req \in Reqs /\ cur' = cur /\ answer \in [Reqs -> Nat]
        BY <2>1 DEF SyncResult, CInv, AInv, SInv, TInv, TypeOK, Holding, Job
      <3>2. PICK n \in Lengths : answer' = [answer EXCEPT ![cur.req] = n + Wrap]
        BY <2>1 DEF SyncResult
      <3>3. n + Wrap # 0
        BY AnswerLength
      <3> QED BY <3>1, <3>2, <3>3
    <2>2. CASE ~SyncResult
      <3>1. Answering /\ cur'.req = cur.req /\ cur \in Job
        <4>1. CASE SyncTakeId
          BY <2>2, <4>1 DEF SyncTakeId, Answering, CInv, AInv, SInv, TInv, Holding, Job
        <4>2. CASE ~SyncTakeId
          <5>1. UNCHANGED <<gpc, cur>>
            BY <2>2, <4>2 DEF Next, GameStep, AsyncRegister, WorkersJoined, AsyncUnknown,
               AsyncPost, SyncError, SyncReply, SyncSave, ReplyNow, ReplyId, StartVac, Stop,
               TakeIdFromEmpty, NewCall, CallAsync, CallOneway, CallSync, Poll,
               GetSinglePart, GetMultiPart, WorkerStep, Take, Answer, DropUnknown, Throw,
               Offload, SteamDisabled, ReturnFalse, ProcTakeId, ProcName, ProcFree, ProcError,
               ProcReturn, SteamStep, SteamUp, SteamTake, SteamLookup, SteamThrow, SteamAnswer,
               gameVars, vars, Answering
          <5> QED BY <5>1 DEF Answering, CInv, AInv, SInv, TInv, Holding
        <4> QED BY <4>1, <4>2
      <3>2. cur.req \in Reqs /\ answer[cur.req] # 0 /\ answer \in [Reqs -> Nat]
        BY <3>1 DEF CInv, Wrapped, Job, AInv, SInv, TInv, TypeOK
      <3>3. answer' = answer \/ \E r \in 1..made, n \in Nat \ {0} : answer' = [answer EXCEPT ![r] = n]
        BY <1>2 DEF AtMostOne, Gives
      <3> QED BY <3>1, <3>2, <3>3
    <2> QED BY <2>1, <2>2
  <1> QED BY <1>1, <1>2, <1>3, <1>4 DEF CInv, Wrapped

-----------------------------------------------------------------------------
(* The steps as CallContract sees them.                                    *)

PendingOf(s) == IF spc[s] = "ready" THEN 0 ELSE req[s]
ReplyOf(s) == IF spc[s] = "ready" /\ got[s] # <<>>
              THEN [req |-> IF Contiguous(got[s], req[s]) THEN req[s] ELSE 0,
                    size |-> EndOf(got[s])]
              ELSE [req |-> 0, size |-> 0]

Pending == [s \in Scripts |-> PendingOf(s)]
Replies == [s \in Scripts |-> ReplyOf(s)]

Others(s) == \A t \in Scripts \ {s} : spc'[t] = spc[t] /\ req'[t] = req[t] /\ got'[t] = got[t]

LEMMA OneScript ==
    ASSUME NEW s \in Scripts, Others(s)
    PROVE  /\ Pending' = [Pending EXCEPT ![s] = PendingOf(s)']
           /\ Replies' = [Replies EXCEPT ![s] = ReplyOf(s)']
  <1>1. ASSUME NEW t \in Scripts \ {s} PROVE PendingOf(t)' = PendingOf(t)
    BY DEF Others, PendingOf
  <1>2. ASSUME NEW t \in Scripts \ {s} PROVE ReplyOf(t)' = ReplyOf(t)
    <2>1. spc'[t] = spc[t] /\ req'[t] = req[t] /\ got'[t] = got[t]
      BY DEF Others
    <2> QED BY <2>1 DEF ReplyOf
  <1>3. Pending' = [Pending EXCEPT ![s] = PendingOf(s)']
    BY <1>1 DEF Pending
  <1>4. Replies' = [Replies EXCEPT ![s] = ReplyOf(s)']
    BY <1>2 DEF Replies
  <1> QED BY <1>3, <1>4

LEMMA SameScript ==
    ASSUME NEW s \in Scripts, Others(s), PendingOf(s)' = PendingOf(s), ReplyOf(s)' = ReplyOf(s)
    PROVE  UNCHANGED <<Pending, Replies>>
  <1>1. Pending[s] = PendingOf(s) /\ Replies[s] = ReplyOf(s)
    BY DEF Pending, Replies
  <1>2. [Pending EXCEPT ![s] = Pending[s]] = Pending /\ [Replies EXCEPT ![s] = Replies[s]] = Replies
    BY DEF Pending, Replies
  <1> QED BY <1>1, <1>2, OneScript

LEMMA SameScripts ==
    ASSUME UNCHANGED scriptVars PROVE UNCHANGED <<Pending, Replies, made>>
  <1>1. UNCHANGED <<spc, req, got, made>>
    BY DEF scriptVars
  <1> QED BY <1>1 DEF Pending, Replies, PendingOf, ReplyOf, Contiguous, EndOf

Stutter == UNCHANGED <<made, Pending, answer, Replies>>

\* A new call makes a request.
LEMMA NewCallAsks ==
    ASSUME CInv, NEW s \in Scripts, NewCall(s) PROVE Contract!Next
  <1>1. Enter(s) /\ answer' = answer /\ spc[s] = "ready"
    BY DEF NewCall, CallAsync, CallOneway, CallSync, mapVars, Enter
  <1>2. spc'[s] \in {"ready", "calling"} /\ \A t \in Scripts \ {s} : spc'[t] = spc[t]
    <2>1. spc \in [Scripts -> {"ready", "calling", "polling", "parts"}]
      BY DEF CInv, AInv, SInv, TInv, TypeOK
    <2> QED BY <1>1, <2>1 DEF NewCall, CallAsync, CallOneway, CallSync
  <1>3. /\ req'[s] = made + 1 /\ got'[s] = <<>> /\ made' = made + 1 /\ made < MaxCalls
        /\ Others(s)
    BY <1>1, <1>2 DEF Enter, Others, CInv, AInv, SInv, TInv, TypeOK
  <1>4. /\ Pending[s] = 0 /\ PendingOf(s)' \in {0, made + 1}
        /\ ReplyOf(s)' = [req |-> 0, size |-> 0]
    BY <1>1, <1>2, <1>3 DEF Pending, PendingOf, ReplyOf
  <1>5. Replies' = [Replies EXCEPT ![s] = [req |-> 0, size |-> 0]]
    BY <1>3, <1>4, OneScript
  <1>6. Pending' \in {Pending, [Pending EXCEPT ![s] = made + 1]}
    <2>1. [Pending EXCEPT ![s] = 0] = Pending
      BY <1>4 DEF Pending
    <2> QED BY <1>3, <1>4, <2>1, OneScript
  <1>7. Contract!Ask(s)
    BY <1>1, <1>3, <1>4, <1>5, <1>6
    DEF Contract!Ask, Contract!Nothing, Pending, PendingOf, Replies, ReplyOf
  <1> QED BY <1>7 DEF Contract!Next

\* The whole answer of a request is delivered to the script that made it.
LEMMA Delivers ==
    ASSUME AInv', NEW s \in Scripts, Others(s), UNCHANGED <<made, answer>>,
           spc[s] # "ready", req[s] # 0, answer[req[s]] # 0,
           spc'[s] = "ready", req'[s] = req[s], got'[s] # <<>>
    PROVE  Contract!Next
  <1>1. HasAll(s)'
    BY DEF AInv, Fortune
  <1>2. Contiguous(got[s], req[s])' /\ EndOf(got'[s]) = answer[req[s]]
    BY <1>1 DEF HasAll, EndOf
  <1>3. /\ Pending[s] = req[s] /\ PendingOf(s)' = 0
        /\ ReplyOf(s)' = [req |-> req[s], size |-> answer[req[s]]]
    BY <1>2 DEF Pending, PendingOf, ReplyOf, EndOf
  <1>4. /\ Pending' = [Pending EXCEPT ![s] = 0]
        /\ Replies' = [Replies EXCEPT ![s] = [req |-> Pending[s], size |-> answer[Pending[s]]]]
    BY <1>3, OneScript
  <1>5. Contract!Deliver(s)
    BY <1>3, <1>4 DEF Contract!Deliver, Pending, PendingOf, Replies, ReplyOf
  <1> QED BY <1>5 DEF Contract!Next

\* The game thread replies with an error, with the string, or with an id.
LEMMA RepliesContract ==
    ASSUME CInv, AInv', NEW s \in Scripts,
           AsyncUnknown(s) \/ AsyncPost(s) \/ SyncError(s) \/ SyncReply(s) \/ SyncSave(s)
    PROVE  Contract!Next \/ Stutter
  <1>1. /\ Caller(s) /\ UNCHANGED <<made, answer, req>> /\ req[s] # 0 /\ cur.req = req[s]
        /\ spc \in [Scripts -> {"ready", "calling", "polling", "parts"}]
        /\ got \in [Scripts -> Seq(Piece)]
    <2>1. Caller(s) /\ UNCHANGED <<made, answer, req>>
      BY DEF AsyncUnknown, AsyncPost, SyncError, SyncReply, SyncSave, ReplyNow, ReplyId, mapVars
    <2>2. InTheCall(s) /\ req[s] # 0
      BY <2>1, AFacts DEF CInv, AInv, Fortune, Caller, Live
    <2> QED BY <2>1, <2>2 DEF InTheCall, CInv, AInv, SInv, TInv, TypeOK
  <1>2. CASE AsyncUnknown(s) \/ SyncError(s)
    <2>1. /\ spc'[s] = "ready" /\ got'[s] = <<>> /\ Others(s)
          /\ gpc \in {"lookup", "sync"}
      BY <1>1, <1>2 DEF AsyncUnknown, SyncError, ReplyNow, Others
    <2>2. answer[req[s]] = 0
      BY <1>1, <2>1 DEF CInv, Unanswered, Open, GameReq, InGame, Answering
    <2>3. /\ Pending[s] = req[s] /\ PendingOf(s)' = 0 /\ ReplyOf(s)' = ReplyOf(s)
      BY <1>1, <2>1 DEF Pending, PendingOf, ReplyOf, Caller
    <2>4. Pending' = [Pending EXCEPT ![s] = 0] /\ Replies' = Replies
      <3>1. [Replies EXCEPT ![s] = ReplyOf(s)] = Replies
        BY DEF Replies
      <3> QED BY <2>1, <2>3, <3>1, OneScript
    <2>5. Contract!Refuse(s)
      BY <1>1, <2>2, <2>3, <2>4 DEF Contract!Refuse, Pending, PendingOf, Replies, ReplyOf
    <2> QED BY <2>5 DEF Contract!Next
  <1>3. CASE SyncReply(s)
    <2>1. /\ spc'[s] = "ready" /\ got'[s] # <<>> /\ Others(s) /\ gpc = "syncReply"
      BY <1>1, <1>3 DEF SyncReply, ReplyNow, Others
    <2>2. answer[req[s]] # 0
      BY <1>1, <2>1 DEF CInv, Wrapped, Answering
    <2> QED BY <1>1, <2>1, <2>2, Delivers DEF Caller
  <1>4. CASE AsyncPost(s) \/ SyncSave(s)
    <2>1. spc'[s] = "polling" /\ got' = got /\ Others(s)
      BY <1>1, <1>4 DEF AsyncPost, SyncSave, ReplyId, Others
    <2>2. PendingOf(s)' = PendingOf(s) /\ ReplyOf(s)' = ReplyOf(s)
      BY <1>1, <2>1 DEF PendingOf, ReplyOf, Caller
    <2> QED BY <1>1, <2>1, <2>2, SameScript DEF Stutter
  <1> QED BY <1>2, <1>3, <1>4

\* A script reads: the whole string, the news of parts, a part, or the end.
LEMMA PollContract ==
    ASSUME CInv, AInv', NEW s \in Scripts, Poll(s)
    PROVE  Contract!Next \/ Stutter
  <1> DEFINE p == results[key[s]]
  <1>1. /\ Asking(s) /\ ~(p = Absent /\ key[s] \in waiting)
        /\ UNCHANGED <<made, answer, req>> /\ spc[s] # "ready"
    BY DEF Poll, GetSinglePart, GetMultiPart, Asking
  <1>2. /\ p # Absent /\ p \in Piece /\ p.to = answer[req[s]] /\ key[s] \in AnyId
        /\ p.from = EndOf(got[s]) /\ req[s] # 0
    <2>1. Asks(s) /\ p = [req |-> req[s], from |-> EndOf(got[s]), to |-> answer[req[s]]]
      BY <1>1, FindsOwn DEF CInv
    <2> QED BY <1>1, <2>1, FindsOwn DEF CInv, Asks
  <1>3. answer[req[s]] # 0
    BY <1>2 DEF CInv, Wrapped
  <1>4. /\ spc \in [Scripts -> {"ready", "calling", "polling", "parts"}]
        /\ got \in [Scripts -> Seq(Piece)]
    BY DEF CInv, AInv, SInv, TInv, TypeOK
  <1> HIDE DEF p
  <1>5. CASE GetSinglePart(s)
    <2>1. CASE Size(p) > OutputSize
      <3>1. spc'[s] = "parts" /\ got' = got /\ Others(s)
        BY <1>1, <1>2, <1>4, <1>5, <2>1 DEF GetSinglePart, Others, p
      <3>2. PendingOf(s)' = PendingOf(s) /\ ReplyOf(s)' = ReplyOf(s)
        BY <1>1, <3>1 DEF PendingOf, ReplyOf
      <3> QED BY <1>1, <3>1, <3>2, SameScript DEF Stutter
    <2>2. CASE ~(Size(p) > OutputSize)
      <3>1. spc'[s] = "ready" /\ got'[s] = <<p>> /\ Others(s)
        BY <1>1, <1>2, <1>4, <1>5, <2>2 DEF GetSinglePart, Others, p
      <3> QED BY <1>1, <1>2, <1>3, <3>1, Delivers
    <2> QED BY <2>1, <2>2
  <1>6. CASE GetMultiPart(s)
    <2>1. CASE Size(p) = 0
      <3>1. spc'[s] = "ready" /\ got' = got /\ Others(s)
        BY <1>1, <1>2, <1>4, <1>6, <2>1 DEF GetMultiPart, Others, p
      <3>2. got[s] # <<>>
        <4>1. got[s] = <<>> => p.from = 0
          BY <1>2 DEF EndOf
        <4>2. p.from \in Nat /\ p.to \in Nat /\ p.to # 0
          BY <1>2, <1>3 DEF Piece
        <4> QED BY <2>1, <4>1, <4>2 DEF Size
      <3> QED BY <1>1, <1>2, <1>3, <3>1, <3>2, Delivers
    <2>2. CASE Size(p) # 0
      <3>1. spc' = spc /\ Others(s)
        BY <1>1, <1>2, <1>4, <1>6, <2>2 DEF GetMultiPart, Others, p
      <3>2. PendingOf(s)' = PendingOf(s) /\ ReplyOf(s)' = ReplyOf(s)
        BY <1>1, <3>1 DEF PendingOf, ReplyOf
      <3> QED BY <1>1, <3>1, <3>2, SameScript DEF Stutter
    <2> QED BY <2>1, <2>2
  <1> QED BY <1>5, <1>6 DEF Poll

\* What the scripts do not take part in answers a request or is a stutter.
LEMMA OthersContract ==
    ASSUME CInv, AtMostOne, UNCHANGED scriptVars PROVE Contract!Next \/ Stutter
  <1>1. UNCHANGED <<Pending, Replies, made>>
    BY SameScripts
  <1>2. CASE answer' = answer
    BY <1>1, <1>2 DEF Stutter
  <1>3. ASSUME NEW r \in 1..made, Gives(r) PROVE Contract!Next
    <2>1. /\ r \in Reqs /\ made \in Nat /\ r <= made /\ answer[r] = 0 /\ answer \in [Reqs -> Nat]
      BY <1>3, TaskBounds DEF CInv, Unanswered, Gives, AInv, SInv, TInv, TypeOK
    <2>2. PICK n \in Nat \ {0} : answer' = [answer EXCEPT ![r] = n]
      BY <1>3 DEF Gives
    <2>3. answer'[r] # 0 /\ answer' = [answer EXCEPT ![r] = answer'[r]]
      BY <2>1, <2>2
    <2>4. Contract!Answer(r)
      BY <1>1, <2>1, <2>3 DEF Contract!Answer, Pending, PendingOf, Replies, ReplyOf
    <2> QED BY <2>1, <2>4 DEF Contract!Next, Reqs
  <1> QED BY <1>2, <1>3 DEF AtMostOne

LEMMA ContractStep ==
    ASSUME CInv, [Next]_vars, ~clashed'
    PROVE  Contract!Next \/ Stutter
  <1>1. AInv' /\ AtMostOne
    BY CNext DEF CInv
  <1>2. ASSUME NEW s \in Scripts, NewCall(s) PROVE Contract!Next
    BY <1>2, NewCallAsks
  <1>3. ASSUME NEW s \in Scripts, Poll(s) PROVE Contract!Next \/ Stutter
    BY <1>1, <1>3, PollContract
  <1>4. ASSUME NEW s \in Scripts,
               AsyncUnknown(s) \/ AsyncPost(s) \/ SyncError(s) \/ SyncReply(s) \/ SyncSave(s)
        PROVE  Contract!Next \/ Stutter
    BY <1>1, <1>4, RepliesContract
  <1>5. CASE UNCHANGED scriptVars
    BY <1>1, <1>5, OthersContract
  <1>6. ASSUME NEW w \in Workers, WorkerStep(w) PROVE UNCHANGED scriptVars
    BY <1>6 DEF WorkerStep, Take, Answer, DropUnknown, Throw, Offload, SteamDisabled,
       ReturnFalse, ProcTakeId, ProcName, ProcFree, ProcError, ProcReturn
  <1>7. CASE SteamStep
    <2>1. UNCHANGED scriptVars
      BY <1>7 DEF SteamStep, SteamUp, SteamTake, SteamLookup, SteamThrow, SteamAnswer
    <2> QED BY <1>5, <2>1
  <1>8. CASE AsyncRegister \/ SyncResult \/ SyncTakeId \/ WorkersJoined \/ StartVac \/ Stop
             \/ TakeIdFromEmpty \/ UNCHANGED vars
    <2>1. UNCHANGED scriptVars
      BY <1>8 DEF AsyncRegister, SyncResult, SyncTakeId, WorkersJoined, StartVac, Stop,
         TakeIdFromEmpty, vars
    <2> QED BY <1>5, <2>1
  <1> QED BY <1>2, <1>3, <1>4, <1>5, <1>6, <1>7, <1>8 DEF Next, GameStep

\* The whole of ExtCalls, with its ids, threads, parts and queues, keeps the
\* promise of CallContract: a request is answered at most once, and a script
\* gets all of the string that answers its own request, or an error before
\* there is one.  This holds for every number of scripts, workers, ids and
\* calls, in every mode, of every kind (also those that throw or end the Steam
\* thread), in every run in which no procedure frees the id of another.
THEOREM CallsKeepContract == Spec /\ []~clashed => ContractSpec
  <1>1. Init => CInv /\ Contract!Init
    <2> SUFFICES ASSUME Init PROVE Contract!Init
      BY CInit
    <2>1. /\ made = 0 /\ answer = [r \in 1..MaxCalls |-> 0]
          /\ \A s \in Scripts : spc[s] = "ready" /\ got[s] = <<>>
      BY DEF Init, Reqs
    <2>2. /\ Pending = [s \in Scripts |-> 0]
          /\ Replies = [s \in Scripts |-> [req |-> 0, size |-> 0]]
      BY <2>1 DEF Pending, PendingOf, Replies, ReplyOf
    <2> QED BY <2>1, <2>2 DEF Contract!Init, Contract!Nothing, Pending, PendingOf, Replies, ReplyOf
  <1>2. CInv /\ [Next]_vars /\ ~clashed' => CInv' /\ [Contract!Next]_(Contract!vars)
    <2> SUFFICES ASSUME CInv, [Next]_vars, ~clashed' PROVE CInv' /\ [Contract!Next]_(Contract!vars)
      OBVIOUS
    <2>1. Contract!Next \/ Stutter
      BY ContractStep
    <2>2. Stutter => UNCHANGED Contract!vars
      BY DEF Stutter, Contract!vars, Pending, PendingOf, Replies, ReplyOf
    <2>3. CInv'
      BY CNext
    <2> QED BY <2>1, <2>2, <2>3
  <1> QED BY <1>1, <1>2, PTL DEF Spec, ContractSpec, Contract!Spec
=============================================================================
