# extDB in TLA+

extDB is an extension of the Arma 3 server. The server's game thread passes it
strings through `callExtension`; extDB runs database, logging, Steam and RCon
requests, some at once and some on worker threads, and gives the results back
in strings no longer than the server's output buffer. This directory holds TLA+
modules translated from the source, configurations that model-check them with
TLC, and proofs that TLAPS checks.

## 1. Inventory

| Part | Source | State | Operations |
|---|---|---|---|
| Unique id allocator | `uniqueid.cpp` | set of free intervals | AllocateId, FreeId, MarkAsUsed |
| Call dispatch and results | `ext.cpp` 858-1144 | `unordered_map_wait`, `unordered_map_results`, id pool | modes 0 (sync), 1 (one-way), 2 (async), 4 and 5 (fetch) |
| Worker pool | `ext.cpp` 212-291, 329-349 | io_service queue, 1 to 8 threads | post, run, stop and join |
| SQF client | `sqf/fn_async.sqf` | key, parts received | call, poll 4, poll 5 |
| VAC protocol, Steam thread | `vac.cpp`, `steam.cpp` | query queue, two expiring caches, run flag | addQuery, run, Web API batches |
| DB_PROCEDURE_V2 | `db_procedure_v2.cpp` | the member `unique_id_proc` | callProtocol |
| Constructor, system calls (mode 9) | `ext.cpp` 40-327, 414-855, 1145-1300, `main.cpp` | configuration file, logger registry, protocol map, connector flags, lock | start, START_VAC, START_RCON, DATABASE, ADD, LOCK, VERSION |
| Setup script | `sqf/init.sqf` | `extDB_ID` | VERSION, DATABASE, ADD, LOCK once per mission |
| Session pool | Poco `SessionPool.cpp` (changed copy) | idle and active sessions, janitor timer | get, putBack, purge, janitor, shutdown |
| DB_CUSTOM_V5 | `db_custom_v5.cpp` | call table, statement cache of each session | init, callProtocol |
| DB_CUSTOM_V3 | `db_custom_v3.cpp` | call table | init, callProtocol |
| RCon client, console program | `bercon.cpp` | connection, run flag, timer, command queue, multi-part replies | connect, mainLoop, addCommand, disconnect, main |
| MISC, MISC_V2 | `misc.cpp`, `misc_v2.cpp` | the random strings handed out | callProtocol |
| DB_RAW_V3, LOG, RCON protocols | `protocols/` | none that outlives a call | init, callProtocol |
| Asynchronous logging | `spdlog/details/` | ring of lines, worker thread, daily file | log, worker loop, drop |
| Poco timer | Poco `Timer.cpp` (changed copy) | interval, skip flag | start, stop, restart |

How they interact: the game thread enters `Ext::callExtenion` for one call at a
time. An async call takes an id (`mutex_unique_id`), registers it as waiting
(`mutex_unordered_map_results`), posts a handler to the io_service, and returns
the id. A worker runs the handler: the protocol either returns a string, which
`saveResult` stores under the id, or returns false because it gave the call to
the Steam thread, which calls `saveResult` later. Scripts poll the id with mode
4, and with mode 5 when the string is longer than the output buffer; the read
that takes the last of it erases the entry and frees the id, which the next
call gets. Protocols take database sessions from a session pool under the
mutex of their database. RCon commands, those with which the Steam thread bans
players among them, go through a queue to the RCon thread. Which protocols there
are, and with which database, is decided by system calls, which the game thread
executes one at a time while workers look into the same map; init.sqf makes
them once per mission and then locks the extension. Threads that log to a file
of the LOG protocol may do so through a ring that a worker thread empties.

What is hard here: the id is reused as soon as it is freed, so a save, a poll
or a free that comes late touches another script's call; registration, post,
save and poll come from different threads under two mutexes; a protocol can
answer from another thread, later, or never; exceptions leave threads by paths
no test covers; and the extension is unloaded while calls are in flight. The
list, line by line, is `hazards` in `PROJECT.json`.

What makes each part correct: the allocator never hands out an id twice; a call
is answered once and its script gets all of its own answer; what was accepted
is run before the extension is unloaded; a session is given to one user at a
time and a dead one to none; the RCon thread logs in before it sends, loses and
repeats no command while the network works, and stops when told to; a protocol
that ADD accepted is found and has its database; what a call executes is its
template with its own inputs, those checked that the template says to check;
the Steam thread tells the truth about a player and bans it once; no line of a
log is lost, doubled or overtaken between the threads.

## 2. Modules

| Module | Models |
|---|---|
| `IdOps` | what the allocator does to a set of free ids, as operators |
| `IdPool` | the allocator's promise: a set of free ids |
| `IdManager` | `uniqueid.cpp`: the ordered set of intervals and its three methods |
| `IdManagerProofs` | theorems about `IdManager` |
| `ExtCalls` | the life of a call: game thread, scripts, workers, Steam thread, stop |
| `CallContract` | what a script is promised, without ids, threads or parts |
| `ExtCallsProps` | the properties of `ExtCalls`, and its refinement of `CallContract` |
| `ExtCallsProofs` | theorems about `ExtCalls`: types, one owner of an id, one answer to a call, results are kept, a script finds its own answer and all of it, answers are coming, and the refinement of `CallContract` |
| `MCExtCalls` | small instances of `ExtCalls` |
| `SessionLease` | what the pool promises a thread: spare sessions, leased ones and a minimum, without lists, counter and timer |
| `SessionPool` | the pool of database sessions, its janitor and shutdown |
| `StatementCache` | DB_CUSTOM_V5's calls and the statements they keep in sessions; extends `SessionPool` |
| `DatabaseProofs` | theorems about `SessionPool`: one place for a session, no leak, no more than users, and the refinement of `SessionLease`; and about `StatementCache`: a call runs its own statements |
| `MCDatabase` | small instances of `StatementCache` |
| `Startup` | the constructor: configuration file, loggers, threads, the random file name |
| `Templates` | the template files of DB_CUSTOM_V3 and V5 and what `init` makes of them |
| `Setup` | the system calls, init.sqf, and calls that run meanwhile; extends `Startup` and `Templates` |
| `SetupProofs` | theorems about `Setup` and `Startup`: protocols and queued calls find what they need, set-up stays, a start finds its file |
| `MCSetup` | small instance of `Setup` |
| `ProtocolCalls` | what each protocol does with the data of a call; extends `Templates` |
| `ProtocolCallsProofs` | theorems about `ProtocolCalls`: a statement is its template, what is to be checked is, random strings are unique |
| `MCProtocols` | small instance of `ProtocolCalls` |
| `SteamCache` | which ids the Steam thread asks for, what it keeps, answers and bans |
| `SteamCacheProofs` | theorems about `SteamCache`: no second ban, answers tell the truth |
| `MCSteam` | small instance of `SteamCache` |
| `Rcon` | the RCon client, its use by `Ext` and by the console program |
| `RconProofs` | theorems about `Rcon`: the password that is sent is alive, no command is lost or repeated, no reply mixed |
| `LogQueue` | the promise of the ring: a bounded first-in first-out queue |
| `AsyncLog` | threads that log through the lock-free ring, and its worker |
| `AsyncLogProofs` | theorems about `AsyncLog`: the ring implements `LogQueue`, and nothing is left in it |

The call runs and the database runs are separate on purpose: a protocol call is
one of the kinds of `ExtCalls` from outside (`answer`, or `throws` when
`getDBSession` fails), and a thread that takes and returns a session from
inside (`StatementCache`). For the same reason what a protocol makes of the data
of a call (`ProtocolCalls`) is apart from how calls and answers travel, what the
Steam thread answers (`SteamCache`) from when it does, and what `DATABASE` leaves
behind (`Setup`) from how a pool connects.

### IdManager

`free_` is the `std::set` of intervals. Its order makes two intervals that
overlap equivalent (`Same`), so `Insert` does nothing when an overlapping
interval is there: that is why `MarkAsUsed`, whose erase is commented out,
changes nothing. `FreeId` is translated branch by branch; when no interval lies
above the id it returns without keeping it, which `IdPool` states as
`GiveBack`. `AllocateId` on an empty set is undefined behaviour: the model sets
`overrun` and stops.

### ExtCalls

One action is what runs between two points at which another thread can see or
change shared state. Game thread: `CallAsync` (getUniqueID), `AsyncRegister`
or `AsyncUnknown` (protocol lookup, wait entry or freeUniqueID), `AsyncPost`
(post and reply); `CallOneway`; `CallSync`, `SyncResult`, then `SyncReply` or
`SyncTakeId` and `SyncSave`; `GetSinglePart` and `GetMultiPart` are one step
each because they hold the results mutex throughout; `Stop` and
`WorkersJoined`. The rest of `Ext::stop`, which disconnects RCon and joins its
thread when it was started, is in `Rcon` (`Stop`, `StopJoined`).
Workers: `Take`, then one action for each thing a protocol can do. Steam
thread: `SteamUp`, `SteamTake` (copy and clear under the queue mutex),
`SteamLookup`, `SteamThrow`, `SteamAnswer` (one query at a time).

A stored string is the piece `[req, from, to]`, the characters of the answer to
request `req` that have not been read; lengths are those of the code, with the
four characters of `[1,` and `]` and the six of the sync test. Kinds of calls
stand for the protocols: `answer` for any that fills in its result and returns
true, `vac`, `vacPrivate` and `vacShort` for VAC queries (for `vacPrivate` the
document of the Web API lacks the list the code reads, and `vacShort` has no id
in it), `procedure` for DB_PROCEDURE_V2 with outputs, `throws` for a call whose exception leaves the
protocol, `unknown` for a protocol that is not loaded. Not in the model: sync
calls of stored procedures (an assumption on `Calls`), ill-formed input
strings, which change no state, and adding protocols while calls run.

`unique_id_proc` is one member for all workers, so `ProcFree` may give back an id
that another worker took. `clashed` is the history of that: after it, ids have two
owners and little can be said of them.

A script is `fn_async.sqf`: call, poll with 4, switch to 5 on `[5]`, stop at
the empty string. A poll answered `[3]` changes nothing and is no step.

### SessionPool

`idle`, `active` and `nSessions` are the members of Poco's pool; `lost` says
which connections have died, `old` which idle sessions are past their idle
time, and `held` is the session a thread got and has not put back. Every method
holds the pool's mutex from its first line to its last, so each is one step,
the purge of dead sessions included: `GetIdle`, `GetNew` and `GetFails` are the
three ways `get` ends, `PutBackLive` and `PutBackDead` the two of `putBack`,
`JanitorRuns` is `onJanitorTimer`. The exception is `shutdown`, which waits for
the timer's thread with the mutex locked: it is `ShutdownBegins`, `TimerEnds`
and `ShutdownEnds`, and `JanitorWakes` is the callback on its way to the mutex.

`Ext::connectDatabase` makes the pool, tries one session and drops the pool
when that fails (`ConnectOk`, `ConnectFails`). That is the only shutdown: `Ext`
is never deleted. `MinSessions` is what `connectDatabase` stores in
`min_sessions`, which is the option called maxSessions. `get` compares the
number of sessions with no maximum; `NoMoreThanUsers` is the bound that holds
all the same. Names of sessions are used again, so that a name whose session is
gone stands for the next one.

`SessionPool` implements `SessionLease` (`LeaseSpec`): the idle sessions are its
spare ones, `held` says which are leased and `lost` which are broken. `get`, which
tries the front of a purged list, may there take any live spare session; `putBack`
returns one; and `Trim` closes spare sessions only as far as idle and leased ones
together stay at the minimum or above. `SessionLease` counts the sessions there are, where the
janitor reads `nSessions`. Its other steps (the timer's thread, a session that
grows old, the shutdown) change nothing in the lease.

### StatementCache

`statements_map[s][name]` is the vector of prepared statements a session keeps
under the name of a call; `call[u]` is the call a thread executes, `ran` what it
has executed. A statement is its place in a template together with the inputs
it was last bound to, of which it has only references. `Begin` is `get` and the
lookup, `Execute` one round of the loop, in either branch, `ExecuteFails` the
exception that breaks it off and erases the entry, `Finish` the end of the
call: when its connection has died, the session and its map go. All steps of
the pool are steps of this module, and those that close sessions drop their
maps (`Forget`). DB_CUSTOM_V5 lets the exception of a failed `get` end the server
(`Throw` of `ExtCalls`), DB_RAW_V3 turns it into an error message; `BeginFails`
is the pool's side of both.

### Startup and Setup

`Startup` is the constructor: `FindConf` looks through the directories in the
code's order, `MakeLogger` and `SetPattern` fill spdlog's registry, `StartThreads`
bounds the workers, `SetMode` turns on asynchronous logging for the loggers to
come (those of the extension are made already), and `RenameConf` gives the file
its random name, which the next start has to find. An exception leaves the
constructor by ending the server.

`Setup` adds the system calls. `ConnectOk` and `ConnectFails` are
`connectDatabase` with what it registers and takes back; `AddBegins` puts a
protocol into the map, where workers see it, and `InitOk`, `InitFalse` and
`InitThrows` are the ways its `init` ends: an exception is caught far outside and
leaves the protocol there. `InitOf` says which ways each protocol has; for the
two with template files they follow from the file (`Templates`), whose reading
may also never end. init.sqf is `MissionBegins`, `MissionDatabase`, `MissionAdd`,
`MissionLock`; other scripts make any system call. Calls of protocols appear as
far as they look into the map (`PostAsync`, `PostOneway`, `LookUp`, `Take`). A worker
takes no lock for its look (ext.cpp:977, 993): a call is `waiting` in the queue, then
`looking`, and `disturbed` when the game thread inserts or erases meanwhile
(`Disturbed`); such a lookup may find its protocol or not (`TakeMisses`), and an
asynchronous call that does not ends the process. The game thread's own lookup
(ext.cpp:1055) cannot meet an ADD.

### ProtocolCalls

A text is a sequence of symbols, as few as the protocols tell apart: a quote, a
character of a number, and others. DB_CUSTOM_V3 splits the text of a statement
once per input (`Split`), strips the inputs (`Stripped`), and checks and executes
one statement after another (`V3Statement`). DB_CUSTOM_V5 makes all values
first, by the options of each line (`Value`, `Abort`), then executes. Rows are one
column or none. `Check` is `Sqf::check` for these symbols; arrays are not among
them. MISC draws random strings under its mutex in one step; a hash is a
symbol. The texts do not tell how large a number is, so any of them may be too
large for `parse64`, which throws (`MayOverflow`). An exception of `getDBSession` (`NoSession`) ends the server.

### SteamCache

A call becomes a query as in `VAC::callProtocol` (`Accepts`, `QueryOf`); the thread
copies the queue (`Wake`), asks for each friend list (`AskFriends`), for bans in
requests of `BatchSize` ids (`Requests`), and answers. Caches are sets of ids, an
entry may expire at any moment. Two histories of a round: `excused` has the ids
Steam did not answer for, or whose entry expired meanwhile, and no others; `round`
says whether it asks for more bans than one request takes, and of whose friends it
asks though their ban is in the cache. A full request loses the first character of
its first id: `Cut` is an id nobody has.

### Rcon

`thread` is where the RCon thread is in `run`, `connect` and `mainLoop`; time counts
receive time-outs, and packets that come earlier may or may not let one pass
(`Waited`). Each packet of a kind is an action, as are the branches of the
time-out (`KeepAlive`, `Reconnect`, `EarlyTimeout`) and the sending of each queued
command, during which the mutex is locked. The server and the network answer,
lose, double, reorder and delay: a packet that is on its way when a time-out ends
(`Timeout`) comes late. `Fault` counts what goes wrong. All commands have
sequence number 0, so there is one cache entry for multi-part replies. `program`
tells the extension, where several threads add commands, from the console
program, where `main` does and drops what comes before the login.

### AsyncLog

One action is one access to shared memory: load the position, read the
sequence number of its cell, claim it by compare and exchange, fill, publish;
the worker takes, releases and writes. `~async_log_helper` queues a last message
and joins. A file that cannot be written ends the worker, and the next line
logged ends the program, since it is thrown out of a destructor. The worker
writes to the daily file, which it opens anew after midnight.

## 3. Runs

| Run | Shows |
|---|---|
| `id_intervals` | intervals stay disjoint, no id is handed out twice, `IdPool` is implemented |
| `healthy_calls` | a waiting id is on its way to an answer; a polling script finds its own request; parts join to the whole answer; stored results are never written over; `stop` drains the queue; `CallContract` is implemented; under fair scheduling every call is answered, and `Ext::stop` gets past the join of the workers |
| `faulty_calls` | ids have one owner and one producer when ids leak, the pool runs out, protocols throw, the Steam thread dies, and two workers run stored procedures at once, up to the first that gives back the other's id |
| `database` | with sessions that die, age and are closed at any time: a session has one place, none leaks, dead ones are not handed out, the surplus is closed, `SessionLease` is implemented; calls run their own statements, and caches hold whole entries |
| `logging` | with a ring of two cells, two clients and a thread that drops the logger: the ring implements `LogQueue`; a claimed line gets to the file; the drop waits for all lines |
| `rcon` | no command is lost or sent twice while no send fails; the freed password is not sent; a reply put together is of one command unless packets went wrong; a stop ends the thread |
| `steam` | in rounds of one request for bans, and for friends of players whose ban is not cached, answers agree with what Steam says; a player is banned once per entry |
| `setup` | what ADD accepted is found and has a database with a pool, whatever fails; init.sqf ends with what it set up; a renamed configuration file is found again |
| `protocols` | DB_CUSTOM_V3 executes templates in which text follows every place with the inputs in their places; DB_CUSTOM_V3 statements and DB_PROCEDURE_V2 calls run with checked values only, where the call asks for it; unique strings are unique |
| `shared_member`, `steam_answers`, `failed_connect` | the first three disagreements listed below |

Bounds. `id_intervals` uses 8 ids: three intervals with gaps of every kind
between them fit, and the code looks at no more than two neighbours. The call
runs use 2 scripts and 2 workers, 3 calls, `OutputSize`
7 and lengths 1, 4 and (in `healthy_calls`) 10, so that wrapped strings have 5, 8 and 14 characters:
one that fits, one a character too long, one that is exactly two parts. Three
calls are enough for an id to be freed and handed to another script while the
first script or a worker still holds the old one. Three ids let the pool run
out only when ids leak; `faulty_calls` has a fourth, since procedures on two workers
take one each. Symmetry of scripts and threads is used where no
liveness property is checked. Deadlock is not checked because calls are
bounded and the program stops. `database` has 2 users and 3 sessions, one more
than `NoMoreThanUsers` allows, a minimum of 1, a template of two statements that
is cached and one of a single statement that is not, and 2 inputs: a second
call can find the statements of the first bound to other inputs, and a call
can fail after it cached the first of two. Nothing in it is counted, so the run
covers behaviours of every length. Its deadlocks are failed connections, which
end the pool.

`logging` has more messages than cells, so that positions wrap around the ring
several times while a slow client still holds an old one. `rcon` has a keep alive
at 2 time-outs and a reconnect at 4, for the 6 and 9 of the code (30 s and 45 s):
there is a time-out before the first and one between the two; two faults suffice for a part to be doubled
while another is lost; two commands for replies that could mix. `steam` has
three ids and requests of two, so that one request is full and one is not, and
one entry that expires. `setup` has three system calls besides two missions: a
failed or thrown ADD, a DATABASE that fails and a lock fit between the calls of
one init.sqf; one call in the queue, whose lookup every ADD may meet; two starts,
of which the first renames the file; and an `init` that returns TRUE, one that
returns FALSE and one that throws, with protocols that need a database and ones
that do not. `protocols` has templates with one, two and ten inputs, for the
prefix `$INPUT_1` of `$INPUT_10`, inputs with quotes, letters, braces and
characters to strip, and two calls, since only the random strings outlive one.
Deadlock is off in all of them: messages, commands, queries and calls are
bounded, and the program may end.

Fairness (`healthy_calls`): the game thread finishes the call it is in; the
server runs each script again and again; the operating system runs each worker
and the Steam thread. Protocol calls end because the database client and the
Web API requests have timeouts. New calls, START_VAC and stop need not happen.
In `logging` every thread that is in a call to the logger goes on, and so does the
worker: none of them waits for another with a lock held. In `rcon` the RCon
thread runs, and threads inside `addCommand`; packets need not come, commands
need not be given, nor need anyone stop it. `StopEnds` leaves out a stop
just before a connect, which sets the flag again: there the thread goes on.
In `database` and `failed_connect` the timer's thread wakes and runs its
callback when the mutex is free, and the thread in `shutdown` goes on; users and
connections need do nothing.

Disagreements between the code and what is written of it, those a run shows first:

- `shared_member`: DB_PROCEDURE_V2 keeps the id of its output variables in a member
  that all workers share, although the comment at its line 139 says it is there "to
  make sure no clashing of Output Values". Two calls at once free one id twice, and
  two scripts come to own it (`OneOwner`). `OwnersApart` is what remains.
- `steam_answers`: Changelog 18 has VAC "now work correctly", with empty answers if
  Steam does not answer in time. Of a request that is full, the first id loses its
  first character (steam.cpp:179), and Steam is asked about somebody else: in the run
  a banned player is reported without a ban, because another query of the round made
  the request full. With that line corrected the same run still fails, at a player
  whose ban is in the cache: `updateSteamFriends` looks there for whose friends are
  known (steam.cpp:291), and the friend list stays empty. `SmallRoundsRight` is what
  remains.
- `failed_connect`: `SessionPool::shutdown` stops the timer with the pool's mutex
  locked. A janitor that has been called waits for that mutex, so DATABASE,
  which is to report a failed connection, does not return, and with it the
  game thread. The janitor must wake while the first connection is tried.

The following are in the model, and make a stronger property false than those the
runs check; no run shows them.

- A VAC query without ids returns false (vac.cpp:127), and so does one whose document
  lacks `friendslist.friends`, which ends the Steam thread (steam.cpp:314). The comment
  in `abstract_protocol.cpp` (32-33) has false returned for calls that another thread
  will answer; nobody answers these. `AnswerComing` and `EveryCallAnswered` are false
  of the kinds `vacShort` and `vacPrivate`.
- ext.cpp:989 says that a call without its protocol "shouldnt happen anyways"; the
  lookup takes no lock, and an ADD may fall into it (`TakeMisses`).
- ext.cpp:762 says "Remove Class Instance if Failed to Load"; a protocol whose `init`
  throws stays in the map (`InitThrows`).
- README 32 and Changelog 163 let any statement be a DB_CUSTOM_V3 template; one that
  ends in a place, or has two in a row, is executed with the text it was split from
  still in it (db_custom_v3.cpp:216). `RunsTemplate` leaves these out.
- README 33 speaks of DB_CUSTOM_V5's statements "in a .ini file"; two protocols of
  one database with a call of one name run each other's (db_custom_v5.cpp:704).
  `RunsOwnStatements` is of names that differ (`NamesApart`).
- Changelog 47 has DB_CUSTOM_V5's input checks fixed; each check sets `abort_status`
  anew, so that a value that passes lets an earlier one through that does not
  (db_custom_v5.cpp:900). `OnlyCheckedRuns` claims nothing of DB_CUSTOM_V5.
- Changelog 48 has its error messages improved; the line for the log on a wrong
  number of inputs cannot be formatted and throws (db_custom_v5.cpp:823, `V5Refused`).
- bercon.cpp:483 has the console program's file for "rcon commands to be ran"; a
  time-out after the last line ends the thread with what is still queued
  (bercon.cpp:334). `NothingLostInFlush` counts what is queued as not lost.

No document speaks of a one-way call that finds a protocol whose `init` is running
(ext.cpp:977), nor of the statements a DB_CUSTOM_V3 call has executed before the one
it rejects (db_custom_v3.cpp:344); both are in the model.

## 4. Proofs

`IdManagerProofs` proves, for every `Lo <= Hi`: `IdManagerSafe`, that
`TypeOK`, `Disjoint` and `NoDoubleAllocation` always hold, and
`IdManagerImplementsIdPool`. The three invariants together are inductive: an
id can be told to be in no interval only while the intervals are disjoint, and
`FreeId` keeps them disjoint only when the id it gets is held, hence in none.
`IntervalsTyped` and `IntervalsDisjoint` state two of the parts alone.
The lemmas `CoveredInsert` and `CoveredErase` say what inserting and erasing an
interval does to the set of ids covered; each method is then a calculation with
sets, and the refinement follows from the same step lemma.

`ExtCallsProofs` proves `CallsTyped`, `TypeOK` of `ExtCalls` for every set of
scripts and workers, every pool, every set of calls that keeps stored
procedures out of sync mode, and every `OutputSize` and set of lengths. The
inductive invariant adds `Holding`: the game thread inside a call and a busy
worker hold a real job, and where an id is about to be used it is an id of the
pool. Without it nothing would keep the 0 of a one-way job out of the map of
waiting ids. There is one lemma per action; `FinishStepType` and `AnswerType`
do the work the handlers share.

`ExtCallsProofs` also proves `IdsHaveOneOwner` (`OwnersApart`) and
`CallsHaveOneAnswer` (`NoSecondAnswer`), with procedures on any workers at once.
They hold up to the first procedure that gives back an id it did not take
(`clashed`), and not beyond, as `shared_member` shows: `unique_id_proc` is one member
for all workers, and two calls between lines 139 and 166 free one id twice. Where
that cannot be, because no two workers run DB_PROCEDURE_V2 at once
(`ProceduresAlone`; with `Main.Threads = 1` there is one worker), it never comes
to it (`LoneProceduresKeepIds`), and the theorems hold for ever. Neither property is
inductive: that a save does not hit a stored result rests on the way the call took.
`SInv` therefore follows an id along it: `Owners` (free, in a call, waiting, stored,
taken: five sets no two of which meet), `Routes` (game thread, posted,
running, handed to Steam, in Steam's batch: five more, all within the waiting
ids), `Lines` (no two jobs of one queue share an id) and `Local` (an idle
thread holds no job, and only the worker inside a procedure has an id of its
own). Each action is then a calculation with ten sets, of which it moves one id
from one to another; `AppendIds`, `TailIds`, `StoredSave` and `StoredErase`
turn queues and maps into those sets. TLC finds `clashed \/ SInv` invariant in
the instances of `healthy_calls` and `faulty_calls`, where `clashed` holds once a
procedure has given back another's id.

The other theorems build on `SInv`. `ResultsAreKept` (`NoOverwrite`) needs one more
invariant, that a stored string does not end before it starts, and the fact that
a step saves only where nothing is stored (`ResultSteps`). `ScriptsFindTheirOwn`
(`OwnAnswer`) and `ScriptsGetWholeAnswers` (`WholeAnswer`) need to know where the
two names of a call are, the id that is used again and the request that is not.
`AInv` says so for each script (`Fortune`): while it polls, a job carries its id
if and only if it carries its request, and once a result is stored the script
has exactly what comes before it (`Asks`); while the game thread is in its call
no other job is of its request (`InTheCall`); when it has its answer no job can
change that any more (`HasAll`). `Unmoved` lists what a step must leave alone
for another script's fortune to stay as it is; the lemmas for the steps check
that list, and the script that takes the step separately. `JoinPart` is the
arithmetic of the parts. All three theorems hold up to the first clash of ids, the
first of them, which is of steps, in behaviours without one.

`AnswersAreComing` (`AnswerComing`) and `StopLeavesNothing` (`StopDrains`) hold also
after a clash, but need `QueriesReturn`: no VAC call comes without ids, for which
nobody answers, and none is for a document that ends the Steam thread. `WInv` then says that an id that waits is with the game
thread, in the queue, with a worker or with the Steam thread, that a job with an
id is of a protocol that is loaded, and that after the join nothing is left. The
five places are those of `Routes`; a step moves an id from one to the next, or
answers it and takes it out of those that wait.

`CallsKeepContract` states that `ExtCalls` implements `CallContract`
(`ContractSpec`) in every behaviour in which no ids clash. The contract speaks of requests and
the code of ids, so `CInv` follows the request as `SInv` follows the id: it is in
the hands of one thread at a time (`Tasks`), has no answer while it is
(`Unanswered`), and an answer is never the empty string (`Wrapped`), which is why a
script can take the empty string for the end. Each step then gives the call, answers
it, lets its script read or forget it, or changes nothing the contract speaks of.

`DatabaseProofs` proves `PoolTyped`, `SessionsHaveOnePlace`,
`SessionsDoNotLeak` and `UsersBoundSessions` for every finite set of users and
sessions and every minimum, and from them `SessionsStartLive`
(`NoDeadSessionHandedOut`). The four invariants need each other and a fifth,
`Unused` (a pool that is not open has neither sessions nor users):
the count is right only if no session is in the list twice, and it is bounded by
the number of users because a new session is made only when the list has none
left, so that all sessions are then held, each by a user of its own. `TakeFront`,
`PutFront`, `RestFacts` and `SizeOfList` say what the operations on the list do to
the set of its members and to its length.

The runs check `NoDeadSessionHandedOut` as a part of `SessionLease`, where a user takes
a live session; `SessionsStartLive` states it of the pool itself.

`PoolIsLease` and `CallsLeaseSessions` prove that the pool, alone and under the
calls of the protocols, implements `SessionLease`, with one lemma for each
operation under the same invariant. The janitor's is the one that
counts: the loop erases from the front while `nSessions` exceeds the minimum, which
the model states as the closable sessions with fewer than `nSessions - MinSessions`
closable ones before them. `SurplusSize` shows that these are at most
`nSessions - MinSessions`, since the number of closable sessions before each is
different for any two of them; and `NoLeak` that the counter is the
number of sessions there are.

`DatabaseProofs` proves `CallsKeepPool`, since a step of a call is a step
of the pool or leaves it alone (`CacheStep`); and `CallsRunOwnStatements`
(`RunsOwnStatements`) and `CachesStayWhole` (`EntriesWhole`, `GoneLeaveNothing`)
under `NamesApart`: no two templates have a name in common. The condition cannot
be dropped: the cache is keyed by the name of the call, and two DB_CUSTOM_V5
protocols of one database that both have a call of that name execute what the
other prepared. `CacheInv` adds what a call in progress has
left in its session's map (`Left`: nothing, as many statements as it ran, or the
whole entry it found) and that no other entry of the session is half filled
(`Others`). `Apart`, from the pool's invariant, is why a step of one call leaves
the maps of the others alone. TLC found `CacheInv` invariant in the instance of
`database` before it was proved.

`SetupProofs` proves `TypeCorrect`, `ProtocolsHaveTheirDatabase`
(`DatabaseUsable`), `QueuedCallsFindProtocol` (`CallsFindProtocol`: what is in the
map, not that a lookup without a lock finds it), `SetupStaysReady`
(`SetupIsReady`) and `StartsFindConf` (`EveryStartFindsConf`) for any names,
databases, sections, templates and bounds. `SetupInv` adds to them that a pool has
its connector (`DatabaseInv`); that only the protocol whose init runs is not ready,
and is the one that was asked for, and that whatever is past its init has its
database (`RegistryInv`); that a queued call was posted past the init of its
protocol or without a look (`QueueInv`); and how far init.sqf has come
(`ScriptInv`). For the start, a file keeps one of the names the search knows, and
the random one only on Windows (`ConfStays`), where the search looks for it. What
the init of a protocol makes of its template stays as `Templates` defines it.

`RconProofs` proves `PasswordStaysAlive` (`PasswordAlive`) for any number of
threads, commands, chat messages and faults and any two intervals, the keep
alive's the shorter. Sending the first command frees the buffer `connect` sends
the password from, so there must be no connect after it. `TimerInv` says why: a
client that sends is logged in and its timer is before the keep alive
(`SendsInTime`); from then on every packet restarts the timer, an error of the
socket clears the flag, so that the next time-out ends the thread, and a
time-out with the flag set is at most one past a time before the keep alive,
which resets the timer before the reconnect is due (`NeverReconnects`).
`CommandsNotLost` (`NothingLostInFlush`) rests on `QueueInv`: while no send fails, a
command that was accepted is in one place, with the thread that adds it, queued,
being sent or sent (`OnePlace`, `SomePlace`); the clearing of the queue meets none
because it comes before the client runs. `RepliesStayWhole` (`RepliesNotMixed`)
rests on `PartsInv`: while the network is in order the two parts of a reply follow
one another on the way, but for the part that is in the cache already
(`Together`), so that the parts that meet there are of one command.

`AsyncLogProofs` proves, for every number of clients and messages and every size
of the ring, `RingIsFifo` (`FifoSpec`): threads that claim, fill and publish cells
without a lock, and a worker that takes them, implement the bounded queue of
`LogQueue`. A position is put in the queue when it is claimed. `RingInv` says what a
cell's number means: within a round from the position the worker is at, it is the
position while that is free or claimed, and one more when its message is published
(`Cells`); claimed positions have one thread each and lie between those taken and
those claimed (`Claimers`); and a thread that read a free cell's number finds it
free at its compare-and-exchange if nobody claimed in between (`Candidates`).
`CellsApart` and `NextRound` are the arithmetic of the ring. `DroppedIsDrained`
(`DropDrains`) follows the messages on from there: those handed over are queued or
delivered (`Handed`), the one that ends the worker comes after them all
(`OffLast`), and the logger counts as dropped when the worker has ended
(`Dropping`).

`SteamCacheProofs` proves `BansAreNotRepeated` (`BannedOnce`) and `AnswersAreRight`
(`SmallRoundsRight`, not `AnswersRight`, which `steam_answers` shows to be false), for every finite set of ids, size of requests and sequence of
queries. `RequestsApart` and `RequestsCover` say what the batches of a round are:
no id is in two of them, and none is missing but the one in front of each
full request, which the loop cuts off. From the first, a ban is for an
entry that was not in the cache (`BansApart`), and bans are as many as the times
the entry expired, and one (`BansCounted`). From the second, an id of the batch
is in the cache, excused, or still to be asked for (`FriendsCovered`, but for those
whose ban is cached; `BansCovered`, in rounds of one request), and at the time of the answers nothing is still to be asked for.
The order of the ids is defined by their rank, since the prover cannot
expand `SortSeq`.

`ProtocolCallsProofs` proves `CallsRunTemplates` (`RunsTemplate`), `ChecksComeFirst`
(`OnlyCheckedRuns`) and `StringsStayUnique` (`UniqueStrings`), for every template
file that `init` accepts, all inputs and every set of strings. The state plays
a small part in them: `CallsInv` says that during a call every executed statement
was put together from what `Split` made of its template, all of it passing
(`Wrote`), and that an executed procedure call was checked; `UniqueInv` that a
string that was answered is remembered, and was answered once. What they rest on
is what the recursions over texts and lists compute. The library's induction
theorems cannot be used, so induction is stated over sets (`Induction`,
`SeqInduction`), and that a recursive function is defined is proved from the
existence of one function that obeys the equations (`Recursion`, `BackRecursion`).
Splitting a text for the inputs n, n-1, ..., 1 in turn reads it as one scan does
that takes, at each place, the longest number there is: a list of texts and
places has a meaning (`Mean`: every text scanned for the inputs not yet split for), a
text scanned up to the next place means the same in pieces (`ScanPiece`,
`ScanPlace`), and splitting for one more input keeps the meaning (`SplitInputIs`,
`SplitMeans`). It does so only if every place is followed by a text
(`TextAfterPlaces`): the code keeps a text that ends with a place whole behind its
pieces, so that of such templates the theorem says nothing. The weaker fact, that every place of the template is in the list and so
was checked (`Kept`), holds of all templates. `CallsAssumption` says what the
proofs need of the constants: files that `init` accepts, options that name an
input there is, a call that strips has a character to strip, and texts are
sequences of symbols; the model needs all but the last of it as well, since the
code indexes without a look.

The proof of `SetupProofs` found two overlapping cases in `Reply`, of which TLC took
the first; it is now one condition. For `ProtocolCallsProofs` the recursive
operators of the model became recursive functions, with the same states. Of the
invariants above, those that are not a property of a run (`SetupInv`, `RingInv`,
`DrainInv`, `WInv`, `CInv`, `BansInv`, `AnswersInv` and the parts of `CallsInv`, and
those of `RconProofs`) were checked by TLC in the instance of the run before they
were proved.

Every safety invariant and refinement that a passing run checks is now stated by
a theorem. Only model-checked: the liveness properties, which are out of the
prover's reach.

## 5. Plan

1. The safety parts of the liveness arguments that can be stated without
   `ENABLED`: which thread owes each step that `EveryCallAnswered`, `StopJoinsWorkers` and
   `SurplusCloses` wait for.

### Not modelled

- spdlog's formatting (`format.h`, `format.cc`, the pattern formatter): text without
  state. Its rotating, syslog and stdout sinks: not used by the program, or only
  print.
- redis: in no build target of this repository.
- the sanitizer's grammar beyond the values `Check` tells apart, and the allocator
  hooks, which hand calls on to the operating system.
- SQL text, rows of more than one column, the digests and the clock of MISC:
  data no property speaks of.
- `Timer::restart` and the intervals of the janitor: no caller changes them; the
  rest of Poco (`Statement.h`) as far as no session or statement is kept there.
- the test programs (`TEST_APP`) and build files.
- what the process does after `Ext::stop`: the Steam thread is not joined, queued
  log lines are dropped since `Ext` is never deleted.
