-------------------------------- MODULE Setup --------------------------------
(***************************************************************************)
(* The system calls of callExtenion (ext.cpp, "9:..."): connecting         *)
(* databases, adding protocols, starting RCon and Steam, and the lock.     *)
(* The game thread executes them one at a time; the only state the worker  *)
(* threads read meanwhile is the map of protocols, in which a protocol     *)
(* appears before its init has run.                                        *)
(*                                                                         *)
(* One client is init.sqf, once per mission; the others are scripts that   *)
(* make any system call.  How a session pool connects is in SessionPool,   *)
(* and what a call of a protocol does in ExtCalls and ProtocolCalls.       *)
(***************************************************************************)
EXTENDS Startup, Templates

CONSTANTS
    Names,         \* protocol names
    SetupName,     \* the random name init.sqf takes
    Extra,         \* ids of extra databases
    Sections,      \* section of extdb-conf.ini -> what it describes
    Files,         \* template file -> what is in it, see Templates
    SetupSection, SetupProtocol, SetupOption,   \* the parameters of init.sqf
    Additions,     \* [kind, init] that other scripts add
    MaxSystemCalls,\* bound: system calls of the other scripts
    MaxMissions,   \* bound: missions that run init.sqf
    MaxQueue       \* bound: calls queued for the workers

Default == "default"       \* the database without an id
Databases == {Default} \cup Extra
NoSection == "section not in extdb-conf.ini"
Section(s) == IF s \in DOMAIN Sections THEN Sections[s] ELSE NoSection

ASSUME SetupAssumption ==
    /\ SetupName \in Names /\ Default \notin Extra
    /\ MaxSystemCalls \in Nat /\ MaxMissions \in Nat /\ MaxQueue \in Nat

VARIABLES
    extDB_lock,
    connectors,    \* subset of {"mysql", "sqlite", "rcon", "steam"}
    database,      \* id -> [type, pool], or NoEntry
    unordered_map_protocol,   \* name -> [kind, db, state], or NotLoaded
    adding,        \* the ADD whose init is running, or Idle
    loaded,        \* history: names whose ADD was answered [1]
    mission,       \* where init.sqf is
    missions,      \* how many missions there were
    extDB_ID,      \* the name init.sqf left in the uiNamespace, or ""
    systemCalls,   \* how many system calls the others made
    queue          \* calls posted to the io_service: [mode, name, known, lookup]

connection == <<connectors, database>>
registry == <<unordered_map_protocol, adding, loaded>>
script == <<mission, missions, extDB_ID>>
extVars == <<extDB_lock, connection, registry, script, systemCalls, queue>>
vars == <<startupVars, extVars>>

NoEntry == [type |-> "no entry", pool |-> FALSE]
Empty == [type |-> "", pool |-> FALSE]
NotLoaded == [kind |-> "", db |-> "", state |-> "not loaded"]
Idle == [name |-> "", kind |-> "", db |-> "", init |-> "", by |-> ""]

\* What a process that was just started knows.
FreshDatabase == [d \in Databases |-> IF d = Default THEN Empty ELSE NoEntry]
NoProtocols == [n \in Names |-> NotLoaded]

Init ==
    /\ StartupInit
    /\ extDB_lock = FALSE /\ connectors = {} /\ database = FreshDatabase
    /\ unordered_map_protocol = NoProtocols /\ adding = Idle /\ loaded = {}
    /\ mission = "none" /\ missions = 0 /\ extDB_ID = ""
    /\ systemCalls = 0 /\ queue = <<>>

-----------------------------------------------------------------------------
(* connectDatabase.                                                        *)

\* database_extra[id] makes an entry when there is none.
Entry(d) == IF database[d] = NoEntry THEN Empty ELSE database[d]

\* Mutant: whether there is a connection is not looked at.
ConnectedNever(d) == FALSE
Connected(d) == Entry(d).type # ""

\* Mutant: the type the attempt left behind stays.
AfterFailureKeeps(d) == [type |-> "MySQL", pool |-> FALSE]
\* What a failed attempt leaves: the default entry cleared, an extra one erased.
AfterFailure(d) == IF d = Default THEN Empty ELSE NoEntry

\* The sections a pool can be made of; in the others the type is unknown, or
\* getString throws for an option that is missing ("MySQL without IP" has
\* registered the connector by then).
Connector(section) ==
    CASE Section(section) \in {"MySQL", "MySQL without IP"} -> {"mysql"}
      [] Section(section) = "SQLite" -> {"sqlite"}
      [] OTHER -> {}

\* The attempt ends with the reply [1].
ConnectOk(d, section) ==
    /\ ~Connected(d)
    /\ Section(section) \in {"MySQL", "SQLite"}
    /\ connectors' = connectors \cup Connector(section)
    /\ database' = [database EXCEPT ![d] = [type |-> Section(section), pool |-> TRUE]]

\* There is no such section, no such type, an option is missing, or the pool
\* does not get a connection.
ConnectFails(d, section) ==
    /\ ~Connected(d)
    /\ connectors' = connectors \cup Connector(section)
    /\ database' = [database EXCEPT ![d] = AfterFailure(d)]

\* The reply is an error, and nothing changes.
AlreadyConnected(d) == Connected(d) /\ UNCHANGED connection

-----------------------------------------------------------------------------
(* What the init of each protocol may do: return TRUE or FALSE, throw, or  *)
(* never return.                                                           *)

HasDatabase(d) == Entry(d).type \in {"MySQL", "SQLite"}

\* MISC, MISC_V2 and VAC.
MiscInit == {"ok"}

\* LOG: the logger of the extension, or a daily one, which may not be able to
\* open its file; other names are not in the directory of the logs.
LogInit(init) ==
    CASE init = "" -> {"ok"}
      [] init \in LogFiles -> {"ok", "false"}
      [] OTHER -> {"false"}
NewLogger(a) ==
    loggers' = IF a.kind = "LOG" /\ a.init # "" THEN Create(a.init) ELSE loggers

RconInit(init) == IF init = "" /\ "rcon" \in connectors THEN {"ok"} ELSE {"false"}

RawInit(d, init) ==
    IF HasDatabase(d) /\ init \in {"", "ADD_QUOTES"} THEN {"ok"} ELSE {"false"}

ProcedureInit(d) == IF Entry(d).type = "MySQL" THEN {"ok"} ELSE {"false"}

\* The file is looked for when there is a database and a name.
NoTemplate(d, init) == ~HasDatabase(d) \/ init = ""
NotFound(init) == init \notin DOMAIN Files
CustomInit(d, init, outcomes) ==
    IF NoTemplate(d, init) \/ NotFound(init) THEN {"false"} ELSE outcomes

Kinds == {"MISC", "MISC_V2", "VAC", "LOG", "RCON", "DB_RAW_V3", "DB_RAW_V2",
          "DB_RAW_NO_EXTRA_QUOTES_V2", "DB_PROCEDURE_V2", "DB_CUSTOM_V3", "DB_CUSTOM_V5"}
DatabaseKinds == Kinds \ {"MISC", "MISC_V2", "VAC", "LOG", "RCON"}

\* The protocols by their names in addProtocol.
InitOf(a) ==
    CASE a.kind \in {"MISC", "MISC_V2", "VAC"} -> MiscInit
      [] a.kind = "LOG" -> LogInit(a.init)
      [] a.kind = "RCON" -> RconInit(a.init)
      [] a.kind = "DB_RAW_V3" -> RawInit(a.db, a.init)
      [] a.kind = "DB_RAW_V2" -> RawInit(a.db, "ADD_QUOTES")
      [] a.kind = "DB_RAW_NO_EXTRA_QUOTES_V2" -> RawInit(a.db, "")
      [] a.kind = "DB_PROCEDURE_V2" -> ProcedureInit(a.db)
      [] a.kind = "DB_CUSTOM_V3" -> CustomInit(a.db, a.init, V3Outcomes(Files[a.init]))
      [] a.kind = "DB_CUSTOM_V5" -> CustomInit(a.db, a.init, V5Outcomes(Files[a.init]))

-----------------------------------------------------------------------------
(* addProtocol.                                                            *)

Touched(d) == database' = [database EXCEPT ![d] = Entry(d)]

\* Mutant: the map is not asked.
TakenNever(n) == FALSE
Taken(n) == unordered_map_protocol[n] # NotLoaded

\* The name is taken or the protocol unknown: the reply is an error.
AddRefused(a) ==
    /\ Taken(a.name) \/ a.kind \notin Kinds
    /\ Touched(a.db)
    /\ UNCHANGED <<connectors, registry, queue>>

\* What an insertion or an erasure does to the lookups that are under way, which
\* take no lock.
Disturbed == [i \in DOMAIN queue |-> IF queue[i].lookup = "looking"
                                     THEN [queue[i] EXCEPT !.lookup = "disturbed"] ELSE queue[i]]

\* The new protocol is in the map when its init is called.
AddBegins(a) ==
    /\ ~Taken(a.name) /\ a.kind \in Kinds
    /\ Touched(a.db)
    /\ unordered_map_protocol' = [unordered_map_protocol EXCEPT ![a.name] =
                                     [kind |-> a.kind, db |-> a.db, state |-> "init"]]
    /\ adding' = a
    /\ queue' = Disturbed
    /\ UNCHANGED <<connectors, loaded>>

\* Mutant: init.sqf goes on whatever the reply is.
ReplyIgnored(by, ok) ==
    IF by = "init.sqf" THEN mission' = IF mission = "database" THEN "add" ELSE "lock"
    ELSE UNCHANGED mission
\* Where init.sqf goes with the reply to its own call.
Reply(by, ok) ==
    IF by = "init.sqf"
    THEN mission' = IF ~ok THEN "failed" ELSE IF mission = "database" THEN "add" ELSE "lock"
    ELSE UNCHANGED mission

Adding == phase = "running" /\ adding # Idle

InitOk ==
    /\ Adding /\ "ok" \in InitOf(adding)
    /\ unordered_map_protocol' = [unordered_map_protocol EXCEPT ![adding.name].state = "ok"]
    /\ loaded' = loaded \cup {adding.name}
    /\ adding' = Idle
    /\ Reply(adding.by, TRUE)
    /\ NewLogger(adding)
    /\ UNCHANGED <<phase, path, conf_randomized, threads, async_mode, conf, starts, used>>
    /\ UNCHANGED <<extDB_lock, connection, missions, extDB_ID, systemCalls, queue>>

\* unordered_map_protocol.erase(protocol_name).
Without(n) == [unordered_map_protocol EXCEPT ![n] = NotLoaded]

InitFalse ==
    /\ Adding /\ "false" \in InitOf(adding)
    /\ unordered_map_protocol' = Without(adding.name)
    /\ queue' = Disturbed
    /\ adding' = Idle
    /\ Reply(adding.by, FALSE)
    /\ UNCHANGED <<startupVars, extDB_lock, connection, loaded, missions, extDB_ID, systemCalls>>

\* callExtenion catches the exception; nothing takes the protocol out again.
InitThrows ==
    /\ Adding /\ "throws" \in InitOf(adding)
    /\ unordered_map_protocol' = [unordered_map_protocol EXCEPT ![adding.name].state = "threw"]
    /\ adding' = Idle
    /\ Reply(adding.by, FALSE)
    /\ UNCHANGED <<startupVars, extDB_lock, connection, loaded, missions, extDB_ID, systemCalls, queue>>

-----------------------------------------------------------------------------
(* The system calls.  Locked, callExtenion answers VERSION and LOCK_STATUS *)
(* only, and every other system call is an error.                          *)

Running == phase = "running" /\ adding = Idle
Unlocked == Running /\ ~extDB_lock

\* init.sqf: VERSION, then DATABASE; the uiNamespace remembers a setup.
MissionBegins ==
    /\ Running
    /\ mission \in {"none", "failed", "done"} /\ missions < MaxMissions
    /\ missions' = missions + 1
    /\ mission' = IF extDB_ID = "" THEN "database" ELSE "done"
    /\ UNCHANGED <<startupVars, extDB_lock, connection, registry, extDB_ID, systemCalls, queue>>

ByMission == missions > 0 /\ UNCHANGED <<missions, extDB_ID, systemCalls>>
ByOthers == systemCalls < MaxSystemCalls /\ systemCalls' = systemCalls + 1
            /\ UNCHANGED script

\* "9:DATABASE:..." from init.sqf.
MissionDatabase ==
    /\ mission = "database" /\ ByMission /\ Running
    /\ \/ Unlocked /\ ConnectOk(Default, SetupSection) /\ Reply("init.sqf", TRUE)
       \/ Unlocked /\ ConnectFails(Default, SetupSection) /\ Reply("init.sqf", FALSE)
       \/ Unlocked /\ AlreadyConnected(Default) /\ Reply("init.sqf", FALSE)
       \/ ~Unlocked /\ UNCHANGED connection /\ Reply("init.sqf", FALSE)
    /\ UNCHANGED <<startupVars, extDB_lock, registry, queue>>

\* "9:ADD:..." from init.sqf.
MissionAdd ==
    LET a == [name |-> SetupName, kind |-> SetupProtocol, db |-> Default,
              init |-> SetupOption, by |-> "init.sqf"]
    IN  /\ mission = "add" /\ ByMission /\ Running
        /\ \/ Unlocked /\ AddBegins(a) /\ UNCHANGED mission
           \/ Unlocked /\ AddRefused(a) /\ Reply("init.sqf", FALSE)
           \/ ~Unlocked /\ UNCHANGED <<connection, registry, queue>> /\ Reply("init.sqf", FALSE)
        /\ UNCHANGED <<startupVars, extDB_lock>>

\* "9:LOCK" from init.sqf, which does not look at the reply.
MissionLock ==
    /\ mission = "lock" /\ Running
    /\ extDB_lock' = TRUE
    /\ extDB_ID' = SetupName
    /\ mission' = "done"
    /\ UNCHANGED <<startupVars, connection, registry, missions, systemCalls, queue>>

\* "9:DATABASE:..." and "9:DATABASE_EXTRA:...".
OtherDatabase(d, section) ==
    /\ Unlocked /\ ByOthers
    /\ ConnectOk(d, section) \/ ConnectFails(d, section) \/ AlreadyConnected(d)
    /\ UNCHANGED <<startupVars, extDB_lock, registry, queue>>

\* "9:ADD:..." and "9:ADD_EXTRA:...".
OtherAdd(a) ==
    /\ Unlocked /\ ByOthers
    /\ AddBegins(a) \/ AddRefused(a)
    /\ UNCHANGED <<startupVars, extDB_lock>>

\* "9:START_RCON:...": the flag is set whatever becomes of the login.
StartRcon(section) ==
    /\ Unlocked /\ ByOthers
    /\ Section(section) = "RCon" /\ "rcon" \notin connectors
    /\ connectors' = connectors \cup {"rcon"}
    /\ UNCHANGED <<startupVars, extDB_lock, database, registry, queue>>

\* "9:START_VAC".
StartVac ==
    /\ Unlocked /\ ByOthers
    /\ "steam" \notin connectors
    /\ connectors' = connectors \cup {"steam"}
    /\ UNCHANGED <<startupVars, extDB_lock, database, registry, queue>>

\* "9:LOCK".
OtherLock ==
    /\ Unlocked /\ ByOthers
    /\ extDB_lock' = TRUE
    /\ UNCHANGED <<startupVars, connection, registry, queue>>

-----------------------------------------------------------------------------
(* Calls of protocols, as far as they look into the map.                   *)

Post(mode, n) ==
    /\ Running /\ Len(queue) < MaxQueue
    /\ queue' = Append(queue, [mode |-> mode, name |-> n, known |-> n \in loaded,
                               lookup |-> "waiting"])
    /\ UNCHANGED <<startupVars, extDB_lock, connection, registry, script, systemCalls>>

\* "2:...": posted only when the map has the name.
PostAsync(n) == unordered_map_protocol[n] # NotLoaded /\ Post("async", n)

\* "1:...": posted without a look.
PostOneway(n) == Post("oneway", n)

\* A worker takes the next call and looks for its protocol, at any moment ...
LookUp(i) ==
    /\ phase = "running"
    /\ queue[i].lookup = "waiting" /\ \A j \in 1..i - 1 : queue[j].lookup # "waiting"
    /\ queue' = [queue EXCEPT ![i].lookup = "looking"]
    /\ UNCHANGED <<startupVars, extDB_lock, connection, registry, script, systemCalls>>

\* ... and finds it: the call is no longer in the queue, ...
Take(i) ==
    /\ phase = "running"
    /\ queue[i].lookup # "waiting"
    /\ queue' = RemoveAt(queue, i)
    /\ UNCHANGED <<startupVars, extDB_lock, connection, registry, script, systemCalls>>

\* ... or does not, as the map changed under the lookup: asyncCallProtocol calls
\* through the empty pointer operator[] makes, and the process is gone.
TakeMisses(i) ==
    /\ phase = "running"
    /\ queue[i].lookup = "disturbed" /\ queue[i].mode = "async"
    /\ queue' = <<>>
    /\ phase' = "exited"
    /\ UNCHANGED <<path, conf_randomized, threads, async_mode, loggers, conf, starts, used>>
    /\ UNCHANGED <<extDB_lock, connection, registry, script, systemCalls>>

\* The constructor works before the first call.
Load == StartupNext /\ UNCHANGED extVars

\* The server ends, and the workers have drained the queue.
Unload == Running /\ queue = <<>> /\ Detach /\ UNCHANGED extVars

\* A new process knows nothing of the last one.
Restart ==
    /\ Attach
    /\ extDB_lock' = FALSE /\ connectors' = {} /\ database' = FreshDatabase
    /\ unordered_map_protocol' = NoProtocols /\ adding' = Idle /\ loaded' = {}
    /\ mission' = "none" /\ missions' = 0 /\ extDB_ID' = ""
    /\ systemCalls' = 0 /\ queue' = <<>>

Next ==
    \/ Load \/ Unload \/ Restart
    \/ MissionBegins \/ MissionDatabase \/ MissionAdd \/ MissionLock
    \/ \E d \in Databases, section \in DOMAIN Sections \cup {NoSection} : OtherDatabase(d, section)
    \/ \E n \in Names, d \in Databases, x \in Additions :
          OtherAdd([name |-> n, kind |-> x.kind, db |-> d, init |-> x.init, by |-> "other"])
    \/ InitOk \/ InitFalse \/ InitThrows
    \/ \E section \in DOMAIN Sections : StartRcon(section)
    \/ StartVac \/ OtherLock
    \/ \E n \in Names : PostAsync(n) \/ PostOneway(n)
    \/ \E i \in DOMAIN queue : LookUp(i) \/ Take(i) \/ TakeMisses(i)

Spec == Init /\ [][Next]_vars

-----------------------------------------------------------------------------
\* Every variable has its type; there are 1 to 8 worker threads, and a
\* database has a pool exactly when it has a type.
TypeOK ==
    /\ extDB_lock \in BOOLEAN
    /\ threads \in 0..8 /\ (phase = "running" => threads > 0)
    /\ phase \in {"off", "search", "loggers", "threads", "mode", "rename", "running", "exited"}
    /\ conf \in [Directories -> ConfFiles \cup {NoFile}]
    /\ loggers \in [LoggerNames -> [async : BOOLEAN, formatter : {"none", "default", "extDB"}]]
    /\ connectors \subseteq {"mysql", "sqlite", "rcon", "steam"}
    /\ \A d \in Databases :
          /\ database[d] \in [type : {"MySQL", "SQLite", "", "no entry"}, pool : BOOLEAN]
          /\ database[d].pool <=> HasDatabase(d)
    /\ database[Default] # NoEntry
    /\ \A n \in Names :
          unordered_map_protocol[n] = NotLoaded
          \/ unordered_map_protocol[n] \in
                [kind : Kinds, db : Databases, state : {"init", "ok", "threw"}]
    /\ loaded \subseteq Names
    /\ mission \in {"none", "database", "add", "lock", "done", "failed"}
    /\ missions \in 0..MaxMissions /\ systemCalls \in 0..MaxSystemCalls
    /\ extDB_ID \in {"", SetupName}
    /\ Len(queue) <= MaxQueue

\* A protocol keeps a pointer to its database: as long as the protocol can be
\* called, the entry is there, and has a connector and a pool (getDBSession
\* follows both without a look), whatever other DATABASE calls fail meanwhile.
DatabaseUsable ==
    \A n \in Names :
       LET p == unordered_map_protocol[n]
       IN  p.kind \in DatabaseKinds /\ p.state \in {"ok", "threw"} =>
              /\ database[p.db].pool
              /\ database[p.db].type = "MySQL" => "mysql" \in connectors
              /\ database[p.db].type = "SQLite" => "sqlite" \in connectors

\* A queued call that is to save its result has its protocol in the map, past its
\* init, and one that was posted after ADD said [1] finds it ready, whatever is
\* added, refused or erased meanwhile.  (Whether the worker finds what is there is
\* another matter: TakeMisses.)
CallsFindProtocol ==
    \A i \in DOMAIN queue :
       LET state == unordered_map_protocol[queue[i].name].state
       IN  /\ queue[i].mode = "async" => state \in {"ok", "threw"}
           /\ queue[i].known => state = "ok"

\* init.sqf: once extDB_ID is set, whatever other scripts did in between, the
\* extension is locked, and the protocol of that name is loaded and has the
\* default database when it needs one.
SetupIsReady ==
    extDB_ID # "" =>
       /\ extDB_lock
       /\ unordered_map_protocol[extDB_ID] =
             [kind |-> SetupProtocol, db |-> Default, state |-> "ok"]
       /\ database[Default].pool
=============================================================================
