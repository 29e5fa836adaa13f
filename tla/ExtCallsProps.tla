--------------------------- MODULE ExtCallsProps ---------------------------
(***************************************************************************)
(* What must hold of the life of a call, and what the documentation says   *)
(* of it.                                                                  *)
(***************************************************************************)
EXTENDS ExtCalls, FiniteSets

\* Every variable has its type: ids are ids of the pool, jobs are calls some
\* script made, and what is stored is a piece of the answer to a request.
TypeOK ==
    /\ alive \in BOOLEAN
    /\ free \subseteq Ids /\ waiting \subseteq Ids
    /\ results \in [AnyId -> Piece \cup {Absent}]
    /\ queue \in Seq(Job) /\ query_queue \in Seq(Job) /\ batch \in Seq(Job)
    /\ gpc \in {"idle", "lookup", "post", "sync", "syncReply", "syncSave",
                "stopping", "stopped"}
    /\ cur \in Job \cup {NoJob}
    /\ wpc \in [Workers -> {"idle", "run", "procName", "procSql", "procDone"}]
    /\ job \in [Workers -> Job \cup {NoJob}]
    /\ unique_id_proc \in AnyId
    /\ taken \in [Workers -> AnyId] /\ named \in [Workers -> AnyId]
    /\ clashed \in BOOLEAN
    /\ steam \in {"off", "starting", "sleep", "lookup", "answer", "dead"}
    /\ spc \in [Scripts -> {"ready", "calling", "polling", "parts"}]
    /\ key \in [Scripts -> AnyId] /\ req \in [Scripts -> 0..MaxCalls]
    /\ got \in [Scripts -> Seq(Piece)]
    /\ made \in 0..MaxCalls
    /\ answer \in [Reqs -> Nat]

-----------------------------------------------------------------------------
InCall == IF gpc \in {"lookup", "syncSave"} THEN {cur.id} ELSE {}
Stored == {i \in Ids : results[i] # Absent}
TakenBy(w) == {taken[w]} \ {0}

\* An id has one owner at a time: it is free, or in the hands of the game
\* thread, or waiting, or the key of a stored result, or taken by one worker
\* for its procedure, which db_procedure_v2.cpp:139 does to be "sure no clashing
\* of Output Values".  With procedures on two workers at once it is false.
OneOwner ==
    /\ free \cap (InCall \cup waiting \cup Stored) = {}
    /\ InCall \cap (waiting \cup Stored) = {}
    /\ waiting \cap Stored = {}
    /\ \A w \in Workers :
          /\ TakenBy(w) \cap (free \cup InCall \cup waiting \cup Stored) = {}
          /\ \A v \in Workers \ {w} : TakenBy(v) \cap TakenBy(w) = {}

\* Ids have one owner, whichever workers run procedures at once, up to the
\* first procedure that gives back an id another worker took.
OwnersApart == ~clashed => OneOwner

\* Where an answer for id i may still come from.
Producers(i) ==
    (IF gpc = "post" /\ cur.id = i THEN {<<"game", 0>>} ELSE {})
    \cup {<<"posted", n>> : n \in {m \in DOMAIN queue : queue[m].id = i}}
    \cup {<<"worker", w>> : w \in {v \in Workers : job[v].id = i}}
    \cup {<<"steam", n>> : n \in {m \in DOMAIN query_queue : query_queue[m].id = i}}
    \cup {<<"batch", n>> : n \in {m \in DOMAIN batch : batch[m].id = i}}

\* At most one thread is to save a result under an id, and none once it is
\* saved: no result is replaced while a script reads it (saveResult), unless
\* its id was given away as above.
NoSecondAnswer ==
    ~clashed => \A i \in Ids : /\ Cardinality(Producers(i)) <= 1
                               /\ Producers(i) # {} => i \in waiting

\* abstract_protocol.cpp: callProtocol returns FALSE when another thread "will
\* manage Result itself", so every waiting id has a thread that will answer
\* it, be it a worker or the living Steam thread.  Calls without "vacShort" and
\* "vacPrivate": a query without ids returns FALSE with nobody to answer it, and a
\* document without the list ends the Steam thread.
AnswerComing ==
    alive => \A i \in waiting :
                \E p \in Producers(i) : p[1] = "steam" => steam # "dead"

\* A script that polls an id finds its own request there: its id waits, or
\* what is stored is the rest of its own answer, right after what it has got.
EndOf(g) == IF g = <<>> THEN 0 ELSE g[Len(g)].to

OwnAnswer ==
    \A s \in Scripts :
       spc[s] \in {"polling", "parts"} /\ key[s] \notin waiting =>
          results[key[s]] = [req |-> req[s], from |-> EndOf(got[s]), to |-> answer[req[s]]]

\* A script that received parts has joined all of them, in order, without a
\* gap, into the whole string that answers its own request (mode 5).
Contiguous(g, r) ==
    \A n \in DOMAIN g : /\ g[n].req = r
                        /\ g[n].from = IF n = 1 THEN 0 ELSE g[n - 1].to
WholeAnswer ==
    \A s \in Scripts :
       spc[s] = "ready" /\ got[s] # <<>> =>
          Contiguous(got[s], req[s]) /\ EndOf(got[s]) = answer[req[s]]

\* Reading takes characters off the front of a stored result; nothing else
\* ever changes it, and saveResult does not write over it.
NoOverwrite ==
    [][\A i \in Ids : results[i] # Absent /\ results'[i] # Absent =>
          /\ results'[i].req = results[i].req /\ results'[i].to = results[i].to
          /\ results'[i].from >= results[i].from]_vars

\* Changelog 35, "allow worker threads to finish up": when Ext::stop returns
\* from join_all, every posted call has been run and answered but for those
\* the workers gave the Steam thread.
StopDrains ==
    gpc = "stopped" =>
       /\ queue = <<>>
       /\ \A i \in waiting : \E p \in Producers(i) : p[1] \in {"steam", "batch"}

\* The scripts see what CallContract promises.
Contract == INSTANCE CallContract WITH
    pending <- [s \in Scripts |-> IF spc[s] = "ready" THEN 0 ELSE req[s]],
    reply <- [s \in Scripts |->
                 IF spc[s] = "ready" /\ got[s] # <<>>
                 THEN [req |-> IF Contiguous(got[s], req[s]) THEN req[s] ELSE 0,
                       size |-> EndOf(got[s])]
                 ELSE [req |-> 0, size |-> 0]]
ContractSpec == Contract!Spec

-----------------------------------------------------------------------------
\* fn_async.sqf: a script that polls gets its answer, unless the extension is
\* being unloaded.
EveryCallAnswered ==
    \A s \in Scripts :
       spc[s] \in {"calling", "polling", "parts"}
          ~> (spc[s] = "ready" \/ gpc \in {"stopping", "stopped"})

\* Ext::stop gets past join_all: the workers run out of handlers and end.
StopJoinsWorkers == gpc = "stopping" ~> gpc = "stopped"
=============================================================================
