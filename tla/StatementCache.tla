--------------------------- MODULE StatementCache ---------------------------
(***************************************************************************)
(* DB_CUSTOM_V5::callCustomProtocol on top of the session pool.  A session *)
(* carries a map from call names to the statements prepared on it; a call  *)
(* executes them when its name is there, and prepares them, keeping each   *)
(* that succeeds, when it is not.  The map belongs to the session, which   *)
(* every protocol of the database uses, and to one user at a time.         *)
(* A statement refers to the inputs it was last bound to.                  *)
(***************************************************************************)
EXTENDS SessionPool

CONSTANTS Names,        \* call names
          Templates,    \* what protocols were loaded with (see below)
          Inputs        \* values of a call's inputs

\* A template is an entry of custom_calls: the protocol that has it, the name
\* of the call, the number of its SQL statements, and whether the protocol
\* caches ("Default.Prepared Statement Cache").
ASSUME TemplatesAssumption ==
    \A t \in Templates : /\ t.name \in Names /\ t.size \in Nat
                         /\ t.cached \in BOOLEAN
                         /\ DOMAIN t = {"protocol", "name", "size", "cached"}

VARIABLES
    statements_map, \* session -> name -> sequence of statements, empty if absent
    call            \* user -> the call it executes

cacheVars == <<poolVars, statements_map, call>>

\* The i-th statement of a template.
Sql(t, i) == [protocol |-> t.protocol, name |-> t.name, line |-> i]
NoStatements == [n \in Names |-> <<>>]
NoCall == [template |-> "none"]

CacheInit ==
    /\ Init
    /\ statements_map = [s \in Sessions |-> NoStatements]
    /\ call = [u \in Users |-> NoCall]

\* The maps of sessions that leave the pool go with them.
Forget(gone) ==
    statements_map' = [s \in Sessions |->
                          IF s \in gone THEN NoStatements ELSE statements_map[s]]

Cached(u, s) == statements_map[s][call[u].template.name]

\* statements_map.find(call_name) finds an entry.
Found(s, n) == statements_map[s][n] # <<>>

\* A call starts: it gets a session and looks its name up.
Begin(u, s, t, in) ==
    /\ GetIdle(u, s) \/ GetNew(u, s)
    /\ call' = [call EXCEPT ![u] =
          [template |-> t, input |-> in, from_cache |-> Found(s, t.name),
           ran |-> <<>>, status |-> TRUE]]
    /\ Forget(Dead)

\* The pool is exhausted of connections; DB_RAW_V3 answers with an error, in
\* DB_CUSTOM_V5 the server ends (ExtCalls, Throw).
BeginFails(u) ==
    /\ GetFails(u)
    /\ Forget(Dead)
    /\ UNCHANGED call

\* How many statements the loop of the call goes through.
LoopEnd(u, s) ==
    IF call[u].from_cache THEN Len(Cached(u, s)) ELSE call[u].template.size

\* Where the loop is.
Line(u) == Len(call[u].ran) + 1

\* The call has a statement to execute: its loop is not over or broken off.
InLoop(u, s) ==
    /\ held[u] = {s}
    /\ call[u].status /\ Line(u) <= LoopEnd(u, s)

\* Mutant: bindings are added to those of the last call.
RebindAdds(statement, in) == [statement EXCEPT !.inputs = Append(@, in)]
\* bindClear, use and bindFixup: only the new inputs are bound.
Rebind(statement, in) == [statement EXCEPT !.inputs = <<in>>]

\* The statement the loop executes next.
Statement(u, s) ==
    IF call[u].from_cache
    THEN Rebind(Cached(u, s)[Line(u)], call[u].input)
    ELSE [sql |-> Sql(call[u].template, Line(u)), inputs |-> <<call[u].input>>]

\* What the entry becomes when it has been executed.
Kept(u, s, statement) ==
    IF call[u].from_cache THEN [Cached(u, s) EXCEPT ![Line(u)] = statement]
    ELSE IF call[u].template.cached THEN Append(Cached(u, s), statement)
    ELSE Cached(u, s)

\* execute succeeds on a live connection.
Execute(u, s) ==
    /\ InLoop(u, s)
    /\ s \notin lost
    /\ LET statement == Statement(u, s)
       IN /\ call' = [call EXCEPT ![u].ran = Append(@, statement)]
          /\ statements_map' =
                [statements_map EXCEPT ![s][call[u].template.name] =
                    Kept(u, s, statement)]
    /\ UNCHANGED poolVars

\* Mutant: the entry stays, with the statements that did not fail.
OnFailureKeep(u, s) == Cached(u, s)
\* statements_map.erase(call_name).
OnFailure(u, s) == <<>>

\* execute throws, as it may on a live connection too: the loop breaks off.
ExecuteFails(u, s) ==
    /\ InLoop(u, s)
    /\ call' = [call EXCEPT ![u].status = FALSE]
    /\ statements_map' =
          [statements_map EXCEPT ![s][call[u].template.name] = OnFailure(u, s)]
    /\ UNCHANGED poolVars

\* The loop is over: all statements ran, or one failed.
LoopOver(u, s) ==
    /\ held[u] = {s}
    /\ ~call[u].status \/ Line(u) > LoopEnd(u, s)

\* The map that goes when s is put back.
Drops(s) == {s} \cap lost

\* The call returns: the session goes back to the pool.
Finish(u, s) ==
    /\ LoopOver(u, s)
    /\ PutBackLive(u, s) \/ PutBackDead(u, s)
    /\ call' = [call EXCEPT ![u] = NoCall]
    /\ Forget(Drops(s))

\* The janitor closes sessions; their statements go with them.
JanitorCloses == JanitorRuns /\ Forget(Surplus) /\ UNCHANGED call

\* The rest of the pool, and what happens to it.
PoolOnly ==
    /\ \/ ConnectFails \/ JanitorWakes
       \/ ShutdownBegins \/ TimerEnds \/ ShutdownEnds
       \/ \E s \in Sessions : ConnectOk(s) \/ Drop(s) \/ GrowsOld(s)
    /\ UNCHANGED <<statements_map, call>>

CacheNext ==
    \/ PoolOnly \/ JanitorCloses
    \/ \E u \in Users : BeginFails(u)
    \/ \E u \in Users, s \in Sessions :
          \/ \E t \in Templates, in \in Inputs : Begin(u, s, t, in)
          \/ Execute(u, s) \/ ExecuteFails(u, s) \/ Finish(u, s)

CacheSpec == CacheInit /\ [][CacheNext]_cacheVars /\ PoolFairness

-----------------------------------------------------------------------------
\* What a call ought to execute: its own statements, with its own inputs.
Own(u) == [i \in 1..call[u].template.size |->
              [sql |-> Sql(call[u].template, i), inputs |-> <<call[u].input>>]]

\* A call never executes a statement of another call, protocol or order, nor
\* one bound to the inputs of an earlier call (which are freed by then), and
\* when it ends well it has executed all of its own.  So the cache, filled
\* statement by statement by calls that may fail half-way, on connections that
\* may die, cannot be told from preparing afresh: src/README.md:33 promises the
\* statements of the protocol's own .ini file.  Where two protocols of a database
\* have a call of one name it is false: the cache is looked up by the name only.
RunsOwnStatements ==
    \A u \in Users, s \in Sessions :
        held[u] = {s} =>
            /\ Len(call[u].ran) <= call[u].template.size
            /\ \A i \in DOMAIN call[u].ran : call[u].ran[i] = Own(u)[i]
            /\ LoopOver(u, s) /\ call[u].status => call[u].ran = Own(u)

\* The statements of an entry, without what they are bound to.
SqlOf(entry) == [i \in DOMAIN entry |-> entry[i].sql]

\* On a session nobody uses, an entry is absent or whole: a call that finds it
\* will execute all statements of a template.
EntriesWhole ==
    \A s \in Idle, n \in Names :
        statements_map[s][n] # <<>> =>
            \E t \in Templates :
                /\ t.name = n
                /\ SqlOf(statements_map[s][n]) = [i \in 1..t.size |-> Sql(t, i)]

\* A session that is gone, whichever of four ways it went, has left no
\* statements for the next one: those would be of a connection that is closed.
GoneLeaveNothing == \A s \in Sessions \ InPool : statements_map[s] = NoStatements
=============================================================================
