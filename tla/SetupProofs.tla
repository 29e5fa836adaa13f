----------------------------- MODULE SetupProofs -----------------------------
(***************************************************************************)
(* Theorems about Setup and Startup: for any names, databases, sections,   *)
(* templates and additions, and any number of missions, system calls and   *)
(* starts.  What the init of a protocol makes of its template stays as     *)
(* Templates defines it: the proofs only use that a protocol of a database *)
(* gets past its init when it found its database.                          *)
(***************************************************************************)
EXTENDS Setup, SequenceTheorems, TLAPS

Phases == {"off", "search", "loggers", "threads", "mode", "rename", "running", "exited"}
Started == {"loggers", "threads", "mode", "rename", "running"}
ConfMaps == [Directories -> ConfFiles \cup {NoFile}]
LoggerMaps == [LoggerNames -> [async : BOOLEAN, formatter : {"none", "default", "extDB"}]]

\* The types of the variables of Startup; past the search there is a path,
\* past the threads there are threads.
StartupTypes ==
    /\ phase \in Phases
    /\ conf \in ConfMaps
    /\ path \in Directories \cup {""}
    /\ threads \in 0..8
    /\ loggers \in LoggerMaps
    /\ used \subseteq Directories
    /\ phase \in {"threads", "mode", "rename", "running"} => path # ""
    /\ phase \in {"mode", "rename", "running"} => threads > 0

\* A file stays where it was found, under a name the search knows.
ConfStays ==
    /\ path # "" => conf[path] # NoFile
    /\ \A d \in used : conf[d] # NoFile
    /\ \A d \in Directories : conf[d].name = "random" => Windows
    /\ used # {} /\ phase \in Started => path # ""

StartupInv == StartupTypes /\ ConfStays

-----------------------------------------------------------------------------
(* The constructor.                                                        *)

\* A directory has a file exactly when the file has one of the two names.
LEMMA FileNames ==
    ASSUME StartupTypes, NEW d \in Directories
    PROVE  /\ conf[d].name \in {"plain", "random", "none"}
           /\ conf[d].name = "none" <=> conf[d] = NoFile
           /\ conf[d].threads \in Nat
<1>1. conf[d] \in ConfFiles \/ conf[d] = NoFile
  BY DEF StartupTypes, ConfMaps
<1>2. CASE conf[d] \in ConfFiles
  <2>1. conf[d].name \in {"plain", "random"} /\ conf[d].threads \in Nat
    BY <1>2 DEF ConfFiles
  <2> QED
    BY <2>1 DEF NoFile
<1>3. CASE conf[d] = NoFile
  BY <1>3 DEF NoFile
<1> QED
  BY <1>1, <1>2, <1>3

\* The search looks into every directory, for the random names on Windows.
LEMMA SearchesAll ==
    /\ \A i \in DOMAIN Search : Search[i][1] \in Directories /\ Search[i][2] \in {"plain", "random"}
    /\ \A d \in Directories : \E i \in DOMAIN Search : Search[i] = <<d, "plain">>
    /\ Windows => \A d \in Directories : \E i \in DOMAIN Search : Search[i] = <<d, "random">>
<1>1. CASE Windows
  <2> DEFINE S == {"dll", "current"} \X {"plain", "random"}
             s1 == <<<<"dll", "plain">>, <<"current", "plain">>>>
             s2 == <<<<"dll", "random">>, <<"current", "random">>>>
  <2>1. s1 \in Seq(S) /\ s2 \in Seq(S) /\ Len(s1) = 2 /\ Len(s2) = 2
    OBVIOUS
  <2>2. Search = s1 \o s2
    BY <1>1 DEF Search
  <2>3. s1 \o s2 \in Seq(S) /\ Len(s1 \o s2) = 4
        /\ \A i \in 1..4 : (s1 \o s2)[i] = IF i <= 2 THEN s1[i] ELSE s2[i - 2]
    <3> HIDE DEF S, s1, s2
    <3>1. /\ s1 \o s2 \in Seq(S)
          /\ Len(s1 \o s2) = Len(s1) + Len(s2)
          /\ \A i \in 1..Len(s1) + Len(s2) :
                (s1 \o s2)[i] = IF i <= Len(s1) THEN s1[i] ELSE s2[i - Len(s1)]
      BY <2>1, ConcatProperties
    <3> QED
      BY <2>1, <3>1
  <2>4. DOMAIN Search = 1..4
    <3> HIDE DEF S, s1, s2
    <3> QED
      BY <2>2, <2>3
  <2>5. /\ Search[1] = <<"dll", "plain">>
        /\ Search[2] = <<"current", "plain">>
        /\ Search[3] = <<"dll", "random">>
        /\ Search[4] = <<"current", "random">>
    <3>1. Search[1] = s1[1] /\ Search[2] = s1[2] /\ Search[3] = s2[1] /\ Search[4] = s2[2]
      <4> HIDE DEF S, s1, s2
      <4> QED
        BY <2>2, <2>3
    <3> QED
      BY <3>1
  <2>6. \A i \in 1..4 : i = 1 \/ i = 2 \/ i = 3 \/ i = 4
    OBVIOUS
  <2> HIDE DEF S, s1, s2
  <2> QED
    BY <2>4, <2>5, <2>6 DEF Directories
<1>2. CASE ~Windows
  <2>1. Search = <<<<"dll", "plain">>, <<"current", "plain">>>>
    <3>1. <<<<"dll", "plain">>, <<"current", "plain">>>> \in Seq({"dll", "current"} \X {"plain"})
      OBVIOUS
    <3> QED
      BY <1>2, <3>1, ConcatEmptySeq DEF Search
  <2>2. DOMAIN Search = {1, 2}
    BY <2>1
  <2>3. Search[1] = <<"dll", "plain">> /\ Search[2] = <<"current", "plain">>
    BY <2>1
  <2> QED
    BY <1>2, <2>2, <2>3 DEF Directories
<1> QED
  BY <1>1, <1>2

\* A file that a start was configured by is found again.
LEMMA UsedIsHit ==
    ASSUME StartupInv, used # {}
    PROVE  Hits # {}
<1>1. PICK d \in used : TRUE
  OBVIOUS
<1>2. d \in Directories /\ conf[d] # NoFile
  BY <1>1 DEF StartupInv, StartupTypes, ConfStays
<1>3. conf[d].name \in {"plain", "random"} /\ (conf[d].name = "random" => Windows)
  BY <1>2, FileNames DEF StartupInv, ConfStays
<1>4. PICK i \in DOMAIN Search : Search[i] = <<d, conf[d].name>>
  BY <1>2, <1>3, SearchesAll
<1> QED
  BY <1>4 DEF Hits

LEMMA StartupStart == ASSUME StartupInit PROVE StartupInv
<1>1. conf \in ConfMaps
      /\ \A d \in Directories : conf[d].name # "random"
  BY StartupAssumption DEF StartupInit, ConfMaps
<1>2. loggers \in LoggerMaps
  BY DEF StartupInit, NoLogger, LoggerMaps
<1>3. phase = "off" /\ path = "" /\ used = {}
  BY DEF StartupInit
<1>4. phase \in Phases /\ phase \notin Started
  BY <1>3 DEF Phases, Started
<1>5. threads = 0
  BY DEF StartupInit
<1>6. threads \in 0..8
  BY <1>5
<1> QED
  BY <1>1, <1>2, <1>3, <1>4, <1>6 DEF StartupInv, StartupTypes, ConfStays

LEMMA StartupUnchanged == ASSUME StartupInv, UNCHANGED startupVars PROVE StartupInv'
  BY DEF startupVars, process, StartupInv, StartupTypes, ConfStays

LEMMA AttachKeeps == ASSUME StartupInv, Attach PROVE StartupInv'
<1>1. loggers' \in LoggerMaps
  BY DEF Attach, NoLogger, LoggerMaps
<1>2. StartupTypes'
  <2>1. phase' = "search" /\ path' = "" /\ conf' = conf /\ used' = used
    BY DEF Attach
  <2>2. phase' \in Phases
    BY <2>1 DEF Phases
  <2>3. threads' = 0
    BY DEF Attach
  <2>4. threads' \in 0..8
    BY <2>3
  <2> QED
    BY <1>1, <2>1, <2>2, <2>4 DEF StartupInv, StartupTypes
<1>3. ConfStays'
  BY DEF Attach, StartupInv, ConfStays, Started
<1> QED
  BY <1>2, <1>3 DEF StartupInv

LEMMA DetachKeeps == ASSUME StartupInv, Detach PROVE StartupInv'
<1>1. StartupTypes'
  BY DEF Detach, StartupInv, StartupTypes, Phases
<1>2. ConfStays'
  BY DEF Detach, StartupInv, ConfStays, Started
<1> QED
  BY <1>1, <1>2 DEF StartupInv

\* Whatever logger is made, the registry keeps its type.
LEMMA CreateKeeps ==
    ASSUME StartupTypes, NEW n \in LoggerNames
    PROVE  Create(n) \in LoggerMaps
  BY DEF StartupTypes, LoggerMaps, Create, AsyncLogger, Logger

LEMMA MaxThreadsBounds ==
    ASSUME NEW wanted \in Nat, NEW cores \in Nat
    PROVE  MaxThreads(wanted, cores) \in 1..8
  BY DEF MaxThreads

LEMMA FindKeeps == ASSUME StartupInv, FindConf \/ FindNothing PROVE StartupInv'
<1>1. CASE FindConf
  <2>1. PICK i \in Hits : path' = Search[i][1]
    BY <1>1 DEF FindConf
  <2>2. i \in DOMAIN Search /\ conf[Search[i][1]].name = Search[i][2]
    BY <2>1 DEF Hits
  <2>3. path' \in Directories /\ conf[path'].name \in {"plain", "random"}
    BY <2>1, <2>2, SearchesAll
  <2>4. path' # "" /\ conf[path'] # NoFile
    BY <2>3, FileNames DEF StartupInv, Directories
  <2>5. StartupTypes'
    BY <1>1, <2>3 DEF FindConf, StartupInv, StartupTypes, Phases
  <2>6. ConfStays'
    BY <1>1, <2>3, <2>4 DEF FindConf, StartupInv, ConfStays
  <2> QED
    BY <2>5, <2>6 DEF StartupInv
<1>2. CASE FindNothing
  <2>1. used = {}
    BY <1>2, UsedIsHit DEF FindNothing
  <2> QED
    BY <1>2, <2>1 DEF FindNothing, StartupInv, StartupTypes, ConfStays, Phases, Started
<1> QED
  BY <1>1, <1>2

LEMMA LoggersKeep ==
    ASSUME StartupInv, MakeLogger \/ LoggerFails \/ SetPattern
    PROVE  StartupInv'
<1>1. CASE MakeLogger
  <2>1. PICK i \in Missing : loggers' = Create(SystemLoggers[i])
    BY <1>1 DEF MakeLogger
  <2>2. SystemLoggers \in Seq(LoggerNames)
    BY DEF SystemLoggers, LoggerNames
  <2>3. SystemLoggers[i] \in LoggerNames
    BY <2>1, <2>2 DEF Missing
  <2>4. loggers' \in LoggerMaps
    BY <2>1, <2>3, CreateKeeps DEF StartupInv
  <2>5. StartupTypes'
    BY <1>1, <2>4 DEF MakeLogger, StartupInv, StartupTypes
  <2>6. ConfStays'
    BY <1>1 DEF MakeLogger, StartupInv, ConfStays
  <2> QED
    BY <2>5, <2>6 DEF StartupInv
<1>2. CASE LoggerFails
  BY <1>2 DEF LoggerFails, StartupInv, StartupTypes, ConfStays, Phases, Started
<1>3. CASE SetPattern
  <2>1. loggers' \in LoggerMaps
    BY <1>3 DEF SetPattern, NoLogger, StartupInv, StartupTypes, LoggerMaps
  <2>2. StartupTypes'
    BY <1>3, <2>1 DEF SetPattern, StartupInv, StartupTypes, Phases
  <2>3. ConfStays'
    BY <1>3 DEF SetPattern, StartupInv, ConfStays, Started
  <2> QED
    BY <2>2, <2>3 DEF StartupInv
<1> QED
  BY <1>1, <1>2, <1>3

LEMMA ThreadsKeep ==
    ASSUME StartupInv, StartThreads \/ ThreadsThrows \/ SetMode
    PROVE  StartupInv'
<1>1. CASE StartThreads
  <2>1. conf[path].threads \in Nat
    BY <1>1, FileNames DEF StartThreads, StartupInv, StartupTypes
  <2>2. threads' \in 1..8
    BY <1>1, <2>1, MaxThreadsBounds, StartupAssumption DEF StartThreads
  <2>3. threads' \in 0..8 /\ threads' > 0 /\ phase' = "mode" /\ phase = "threads"
    BY <1>1, <2>2 DEF StartThreads
  <2>4. StartupTypes'
    BY <1>1, <2>3 DEF StartThreads, StartupInv, StartupTypes, Phases
  <2>5. ConfStays'
    BY <1>1 DEF StartThreads, StartupInv, ConfStays, Started
  <2> QED
    BY <2>4, <2>5 DEF StartupInv
<1>2. CASE ThreadsThrows
  BY <1>2 DEF ThreadsThrows, StartupInv, StartupTypes, ConfStays, Phases, Started
<1>3. CASE SetMode
  BY <1>3 DEF SetMode, StartupInv, StartupTypes, ConfStays, Phases, Started
<1> QED
  BY <1>1, <1>2, <1>3

LEMMA RenameKeeps ==
    ASSUME StartupInv, RenameConf \/ RenameThrows
    PROVE  StartupInv'
<1>1. CASE RenameConf
  <2>1. path \in Directories /\ conf[path] # NoFile
    BY <1>1 DEF RenameConf, StartupInv, StartupTypes, ConfStays
  <2>2. /\ conf' \in ConfMaps
        /\ \A d \in Directories : conf[d] # NoFile => conf'[d] # NoFile
        /\ \A d \in Directories : conf'[d].name = "random" => Windows
    <3>1. CASE Renames
      <4>1. conf[path] \in ConfFiles
        BY <2>1 DEF StartupInv, StartupTypes, ConfMaps
      <4>2. [conf[path] EXCEPT !.name = "random"] \in ConfFiles
        BY <4>1 DEF ConfFiles
      <4>3. [conf[path] EXCEPT !.name = "random"] # NoFile
        BY <4>1 DEF ConfFiles, NoFile
      <4>4. conf' = [conf EXCEPT ![path] = [conf[path] EXCEPT !.name = "random"]]
        BY <1>1, <3>1 DEF RenameConf
      <4>5. Windows
        BY <3>1 DEF Renames
      <4> HIDE DEF ConfFiles, NoFile
      <4> QED
        BY <2>1, <4>2, <4>3, <4>4, <4>5 DEF StartupInv, StartupTypes, ConfStays, ConfMaps
    <3>2. CASE ~Renames
      BY <1>1, <3>2 DEF RenameConf, StartupInv, StartupTypes, ConfStays
    <3> QED
      BY <3>1, <3>2
  <2>3. \A d \in used' : d \in Directories /\ conf'[d] # NoFile
    BY <1>1, <2>1, <2>2 DEF RenameConf, StartupInv, StartupTypes, ConfStays
  <2> QED
    BY <1>1, <2>1, <2>2, <2>3 DEF RenameConf, StartupInv, StartupTypes, ConfStays, Phases, Started
<1>2. CASE RenameThrows
  BY <1>2 DEF RenameThrows, StartupInv, StartupTypes, ConfStays, Phases, Started
<1> QED
  BY <1>1, <1>2

LEMMA StartupNextKeeps == ASSUME StartupInv, StartupNext PROVE StartupInv'
  BY FindKeeps, LoggersKeep, ThreadsKeep, RenameKeeps DEF StartupNext

\* While one directory has a file only, the path is the directory of every
\* start.
LEMMA StartupInvImplies == ASSUME StartupInv PROVE EveryStartFindsConf
<1>1. ASSUME phase \notin {"off", "search", "exited"} PROVE phase \in Started
  BY <1>1 DEF StartupInv, StartupTypes, Phases, Started
<1>2. used # {} /\ phase \notin {"off", "search", "exited"} => path # ""
  BY <1>1 DEF StartupInv, ConfStays
<1>3. ASSUME NEW e \in Directories, conf[e] = NoFile, NEW d \in used,
             phase \notin {"off", "search", "exited"}
      PROVE  path = d
  <2>1. path \in Directories /\ conf[path] # NoFile
    BY <1>2, <1>3 DEF StartupInv, StartupTypes, ConfStays
  <2>2. d \in Directories /\ conf[d] # NoFile
    BY <1>3 DEF StartupInv, StartupTypes, ConfStays
  <2> QED
    BY <1>3, <2>1, <2>2 DEF Directories
<1> QED
  BY <1>2, <1>3 DEF EveryStartFindsConf

-----------------------------------------------------------------------------
(* The system calls.                                                       *)

Entries == [type : {"MySQL", "SQLite", "", "no entry"}, pool : BOOLEAN]
Protocols == [kind : Kinds, db : Databases, state : {"init", "ok", "threw"}]
Lookups == {"waiting", "looking", "disturbed"}
Posts == [mode : {"async", "oneway"}, name : Names, known : BOOLEAN, lookup : Lookups]

\* A database of a known type has its connector and its pool.
DatabaseInv ==
    /\ connectors \subseteq {"mysql", "sqlite", "rcon", "steam"}
    /\ database \in [Databases -> Entries]
    /\ \A d \in Databases :
          /\ database[d].pool <=> database[d].type \in {"MySQL", "SQLite"}
          /\ database[d].type = "MySQL" => "mysql" \in connectors
          /\ database[d].type = "SQLite" => "sqlite" \in connectors
    /\ database[Default].type # "no entry"

\* Only the protocol whose init is running is not ready, and it is the one
\* that was asked for; the protocols past their init have their database.
RegistryInv ==
    /\ unordered_map_protocol \in [Names -> Protocols \cup {NotLoaded}]
    /\ \A n \in Names : unordered_map_protocol[n].state = "init" =>
          adding # Idle /\ adding.name = n
    /\ adding # Idle =>
          /\ adding.name \in Names /\ adding.kind \in Kinds /\ adding.db \in Databases
          /\ unordered_map_protocol[adding.name] =
                [kind |-> adding.kind, db |-> adding.db, state |-> "init"]
    /\ loaded \subseteq Names
    /\ \A n \in loaded : unordered_map_protocol[n].state = "ok"
    /\ \A n \in Names :
          unordered_map_protocol[n].kind \in DatabaseKinds
          /\ unordered_map_protocol[n].state \in {"ok", "threw"} =>
             database[unordered_map_protocol[n].db].pool

\* A queued call was posted past the init of its protocol, or without a look.
QueueInv ==
    /\ queue \in Seq(Posts)
    /\ Len(queue) <= MaxQueue
    /\ \A i \in 1..Len(queue) :
          /\ queue[i].mode = "async" =>
                unordered_map_protocol[queue[i].name].state \in {"ok", "threw"}
          /\ queue[i].known => unordered_map_protocol[queue[i].name].state = "ok"

\* init.sqf gets past each of its calls when the call did what it was for.
ScriptInv ==
    /\ extDB_lock \in BOOLEAN
    /\ mission \in {"none", "database", "add", "lock", "done", "failed"}
    /\ missions \in 0..MaxMissions /\ systemCalls \in 0..MaxSystemCalls
    /\ extDB_ID \in {"", SetupName}
    /\ mission \in {"add", "lock"} => database[Default].pool
    /\ mission = "lock" => unordered_map_protocol[SetupName] =
                              [kind |-> SetupProtocol, db |-> Default, state |-> "ok"]
    /\ adding # Idle /\ adding.by = "init.sqf" =>
          /\ mission = "add"
          /\ adding.name = SetupName /\ adding.kind = SetupProtocol /\ adding.db = Default
    /\ SetupIsReady


\* What no step but a restart undoes: pools, and protocols past their init.
PoolsKept == \A d \in Databases : database[d].pool => database'[d].pool
ReadyKept == \A n \in Names : unordered_map_protocol[n].state \in {"ok", "threw"} =>
                unordered_map_protocol'[n] = unordered_map_protocol[n]

\* What a new process knows of databases, protocols, missions and calls.
ExtFresh ==
    /\ extDB_lock = FALSE /\ connectors = {} /\ database = FreshDatabase
    /\ unordered_map_protocol = NoProtocols /\ adding = Idle /\ loaded = {}
    /\ mission = "none" /\ missions = 0 /\ extDB_ID = ""
    /\ systemCalls = 0 /\ queue = <<>>

\* An addition touches the lookups only, if anything, of the queue.
QueueStays == queue' = queue \/ queue' = Disturbed

LEMMA ExtStart == ASSUME ExtFresh PROVE DatabaseInv /\ RegistryInv /\ QueueInv /\ ScriptInv
<1>1. DatabaseInv
  BY DEF ExtFresh, DatabaseInv, FreshDatabase, Entries, Empty, NoEntry, Databases
<1>2. RegistryInv
  BY DEF ExtFresh, RegistryInv, NoProtocols, NotLoaded, DatabaseKinds, Kinds
<1>3. QueueInv
  <2>1. queue = <<>>
    BY DEF ExtFresh
  <2>2. queue \in Seq(Posts) /\ Len(queue) = 0
    BY <2>1
  <2>3. Len(queue) <= MaxQueue /\ \A i \in 1..Len(queue) : FALSE
    BY <2>2, SetupAssumption
  <2> QED
    BY <2>2, <2>3 DEF QueueInv
<1>4. ScriptInv
  <2>1. missions = 0 /\ systemCalls = 0
    BY DEF ExtFresh
  <2>2. missions \in 0..MaxMissions /\ systemCalls \in 0..MaxSystemCalls
    BY <2>1, SetupAssumption
  <2> QED
    BY <2>2 DEF ExtFresh, ScriptInv, SetupIsReady
<1> QED
  BY <1>1, <1>2, <1>3, <1>4

LEMMA ExtUnchanged ==
    ASSUME DatabaseInv, RegistryInv, QueueInv, ScriptInv, UNCHANGED extVars
    PROVE  DatabaseInv' /\ RegistryInv' /\ QueueInv' /\ ScriptInv'
<1> USE DEF extVars, connection, registry, script
<1>1. DatabaseInv'
  BY DEF DatabaseInv
<1>2. RegistryInv'
  BY DEF RegistryInv
<1>3. QueueInv'
  BY DEF QueueInv
<1>4. ScriptInv'
  BY DEF ScriptInv, SetupIsReady
<1> QED
  BY <1>1, <1>2, <1>3, <1>4

\* A database is connected exactly when it has a pool.
LEMMA EntryFacts ==
    ASSUME DatabaseInv, NEW d \in Databases
    PROVE  /\ Entry(d) \in Entries
           /\ HasDatabase(d) <=> database[d].pool
           /\ Connected(d) <=> database[d].pool
           /\ Entry(d).type = "MySQL" => database[d].pool
           /\ Entry(d).type # "no entry"
           /\ database[d].type # "no entry" => Entry(d) = database[d]
<1>1. database[d] \in Entries /\ (database[d].pool <=> database[d].type \in {"MySQL", "SQLite"})
  BY DEF DatabaseInv
<1>2. CASE database[d].type = "no entry"
  <2>1. database[d].pool = FALSE
    BY <1>1, <1>2 DEF Entries
  <2>2. database[d] = NoEntry
    BY <1>1, <1>2, <2>1 DEF Entries, NoEntry
  <2> QED
    BY <1>2, <2>1, <2>2 DEF Entry, Entries, Empty, HasDatabase, Connected
<1>3. CASE database[d].type # "no entry"
  <2>1. NoEntry.type = "no entry"
    BY DEF NoEntry
  <2>2. Entry(d) = database[d]
    BY <1>3, <2>1 DEF Entry
  <2> QED
    BY <1>1, <1>3, <2>2 DEF Entries, HasDatabase, Connected
<1> QED
  BY <1>2, <1>3

LEMMA SectionConnectors ==
    ASSUME NEW section
    PROVE  /\ Connector(section) \subseteq {"mysql", "sqlite"}
           /\ Section(section) = "MySQL" => "mysql" \in Connector(section)
           /\ Section(section) = "SQLite" => "sqlite" \in Connector(section)
  BY DEF Connector

\* An entry that is not in use is replaced by one that has the types.
LEMMA EntryReplaced ==
    ASSUME DatabaseInv, NEW d \in Databases, NEW e \in Entries,
           e.pool <=> e.type \in {"MySQL", "SQLite"},
           e.type = "MySQL" => "mysql" \in connectors',
           e.type = "SQLite" => "sqlite" \in connectors',
           d = Default => e.type # "no entry",
           database[d].pool => e.pool,
           connectors \subseteq connectors',
           connectors' \subseteq {"mysql", "sqlite", "rcon", "steam"},
           database' = [database EXCEPT ![d] = e]
    PROVE  DatabaseInv' /\ PoolsKept
<1>1. database' \in [Databases -> Entries]
  BY DEF DatabaseInv
<1>2. \A x \in Databases : database'[x] = IF x = d THEN e ELSE database[x]
  BY DEF DatabaseInv
<1>3. \A x \in Databases :
          /\ database'[x].pool <=> database'[x].type \in {"MySQL", "SQLite"}
          /\ database'[x].type = "MySQL" => "mysql" \in connectors'
          /\ database'[x].type = "SQLite" => "sqlite" \in connectors'
  BY <1>2 DEF DatabaseInv
<1>4. database'[Default].type # "no entry"
  BY <1>2 DEF DatabaseInv, Databases
<1>5. PoolsKept
  BY <1>2 DEF PoolsKept
<1> QED
  BY <1>1, <1>3, <1>4, <1>5 DEF DatabaseInv

LEMMA ConnectKeeps ==
    ASSUME DatabaseInv, NEW d \in Databases, NEW section,
           ConnectOk(d, section) \/ ConnectFails(d, section) \/ AlreadyConnected(d)
    PROVE  DatabaseInv' /\ PoolsKept
<1>1. CASE ConnectOk(d, section)
  <2>1. connectors \subseteq connectors'
        /\ connectors' \subseteq {"mysql", "sqlite", "rcon", "steam"}
    BY <1>1, SectionConnectors DEF ConnectOk, DatabaseInv
  <2>2. /\ [type |-> Section(section), pool |-> TRUE] \in Entries
        /\ Section(section) \in {"MySQL", "SQLite"}
        /\ Section(section) = "MySQL" => "mysql" \in connectors'
        /\ Section(section) = "SQLite" => "sqlite" \in connectors'
        /\ database' = [database EXCEPT ![d] = [type |-> Section(section), pool |-> TRUE]]
    BY <1>1, SectionConnectors DEF ConnectOk, Entries
  <2>3. /\ [type |-> Section(section), pool |-> TRUE].pool
        /\ [type |-> Section(section), pool |-> TRUE].type = Section(section)
    OBVIOUS
  <2> QED
    BY <2>1, <2>2, <2>3, EntryReplaced
<1>2. CASE ConnectFails(d, section)
  <2>1. connectors \subseteq connectors'
        /\ connectors' \subseteq {"mysql", "sqlite", "rcon", "steam"}
    BY <1>2, SectionConnectors DEF ConnectFails, DatabaseInv
  <2>2. /\ AfterFailure(d) \in Entries
        /\ AfterFailure(d).pool = FALSE
        /\ AfterFailure(d).type \in {"", "no entry"}
        /\ d = Default => AfterFailure(d).type # "no entry"
    BY DEF AfterFailure, Empty, NoEntry, Entries
  <2>3. database[d].pool = FALSE /\ database' = [database EXCEPT ![d] = AfterFailure(d)]
    BY <1>2, EntryFacts DEF ConnectFails, DatabaseInv, Entries
  <2> QED
    BY <2>1, <2>2, <2>3, EntryReplaced
<1>3. CASE AlreadyConnected(d)
  BY <1>3 DEF AlreadyConnected, connection, DatabaseInv, PoolsKept
<1> QED
  BY <1>1, <1>2, <1>3

LEMMA TouchKeeps ==
    ASSUME DatabaseInv, NEW d \in Databases, Touched(d), connectors' = connectors
    PROVE  DatabaseInv' /\ PoolsKept
<1>1. /\ Entry(d) \in Entries
      /\ Entry(d).pool <=> Entry(d).type \in {"MySQL", "SQLite"}
      /\ Entry(d).type # "no entry"
      /\ database[d].pool => Entry(d).pool
      /\ Entry(d).type = "MySQL" => "mysql" \in connectors
      /\ Entry(d).type = "SQLite" => "sqlite" \in connectors
  BY EntryFacts DEF DatabaseInv, Entry, Empty
<1>2. connectors \subseteq {"mysql", "sqlite", "rcon", "steam"}
  BY DEF DatabaseInv
<1>3. database' = [database EXCEPT ![d] = Entry(d)]
  BY DEF Touched
<1> QED
  BY <1>1, <1>2, <1>3, EntryReplaced

-----------------------------------------------------------------------------
(* The map of protocols, the queue and init.sqf.                           *)

LEMMA RegistryUnchanged ==
    ASSUME RegistryInv, PoolsKept, DatabaseInv, UNCHANGED registry
    PROVE  RegistryInv' /\ ReadyKept
<1>1. ASSUME NEW n \in Names, unordered_map_protocol[n].kind \in DatabaseKinds,
             unordered_map_protocol[n].state \in {"ok", "threw"}
      PROVE  database'[unordered_map_protocol[n].db].pool
  <2>1. unordered_map_protocol[n] \in Protocols \cup {NotLoaded}
    BY DEF RegistryInv
  <2>2. NotLoaded.kind \notin DatabaseKinds
    BY DEF NotLoaded, DatabaseKinds, Kinds
  <2>3. unordered_map_protocol[n].db \in Databases
    BY <1>1, <2>1, <2>2 DEF Protocols
  <2> QED
    BY <1>1, <2>3 DEF RegistryInv, PoolsKept
<1> QED
  BY <1>1 DEF registry, RegistryInv, ReadyKept

\* A queue that has the calls of the old one, with other lookups, is as good.
LEMMA LookupsChange ==
    ASSUME QueueInv, ReadyKept, queue' \in Seq(Posts), Len(queue') = Len(queue),
           \A i \in 1..Len(queue) : /\ queue'[i].mode = queue[i].mode
                                    /\ queue'[i].name = queue[i].name
                                    /\ queue'[i].known = queue[i].known
    PROVE  QueueInv'
<1>1. ASSUME NEW i \in 1..Len(queue) PROVE queue[i].name \in Names
  <2>1. queue[i] \in Posts
    BY <1>1 DEF QueueInv
  <2> QED
    BY <2>1 DEF Posts
<1> QED
  BY <1>1 DEF QueueInv, ReadyKept

LEMMA CallsLookedUp ==
    ASSUME NEW post \in Posts, NEW l \in Lookups
    PROVE  /\ [post EXCEPT !.lookup = l] \in Posts
           /\ [post EXCEPT !.lookup = l].mode = post.mode
           /\ [post EXCEPT !.lookup = l].name = post.name
           /\ [post EXCEPT !.lookup = l].known = post.known
  BY DEF Posts

LEMMA QueueKept == ASSUME QueueInv, ReadyKept, QueueStays PROVE QueueInv'
<1>1. queue \in Seq(Posts) /\ Len(queue) \in Nat /\ DOMAIN queue = 1..Len(queue)
  BY DEF QueueInv
<1>2. ASSUME NEW i \in 1..Len(queue)
      PROVE  /\ Disturbed[i] \in Posts
             /\ Disturbed[i].mode = queue[i].mode
             /\ Disturbed[i].name = queue[i].name
             /\ Disturbed[i].known = queue[i].known
  <2>1. queue[i] \in Posts
    BY <1>1, <1>2
  <2>2. Disturbed[i] = queue[i] \/ Disturbed[i] = [queue[i] EXCEPT !.lookup = "disturbed"]
    BY <1>1, <1>2 DEF Disturbed
  <2>3. "disturbed" \in Lookups
    BY DEF Lookups
  <2> DEFINE post == [queue[i] EXCEPT !.lookup = "disturbed"]
  <2>4. /\ post \in Posts /\ post.mode = queue[i].mode
        /\ post.name = queue[i].name /\ post.known = queue[i].known
    BY <2>1, <2>3, CallsLookedUp
  <2>5. Disturbed[i] = queue[i] \/ Disturbed[i] = post
    BY <2>2
  <2> HIDE DEF post
  <2> QED
    BY <2>1, <2>4, <2>5
<1>3. Disturbed \in Seq(Posts) /\ Len(Disturbed) = Len(queue)
  <2>1. DOMAIN Disturbed = 1..Len(queue)
    BY <1>1 DEF Disturbed
  <2>2. Disturbed = [i \in 1..Len(queue) |-> Disturbed[i]]
    BY <1>1 DEF Disturbed
  <2> QED
    BY <1>1, <1>2, <2>1, <2>2
<1>4. CASE queue' = queue
  BY <1>1, <1>4, LookupsChange
<1>5. CASE queue' = Disturbed
  BY <1>2, <1>3, <1>5, LookupsChange
<1> QED
  BY <1>4, <1>5 DEF QueueStays

\* Whatever the others do, init.sqf stays where it is, and a setup stays good.
LEMMA ScriptKept ==
    ASSUME ScriptInv, RegistryInv, ReadyKept, PoolsKept, UNCHANGED script,
           extDB_lock' \in BOOLEAN, extDB_lock => extDB_lock',
           systemCalls' \in 0..MaxSystemCalls,
           adding' = adding \/ adding'.by # "init.sqf"
    PROVE  ScriptInv'
<1>1. database[Default].pool => database'[Default].pool
  BY DEF PoolsKept, Databases
<1> DEFINE ready == [kind |-> SetupProtocol, db |-> Default, state |-> "ok"]
<1>4. unordered_map_protocol[SetupName] = ready => unordered_map_protocol'[SetupName] = ready
  BY SetupAssumption DEF ReadyKept
<1> HIDE DEF ready
<1>5. extDB_ID # "" => extDB_ID = SetupName
  BY DEF ScriptInv
<1>6. SetupIsReady'
  BY <1>1, <1>4, <1>5 DEF ScriptInv, SetupIsReady, script, ready
<1>7. mission' \in {"add", "lock"} => database'[Default].pool
  BY <1>1 DEF ScriptInv, script
<1>8. mission' = "lock" => unordered_map_protocol'[SetupName] = ready
  BY <1>4 DEF ScriptInv, script, ready
<1>9. adding' # Idle /\ adding'.by = "init.sqf" =>
          /\ mission' = "add"
          /\ adding'.name = SetupName /\ adding'.kind = SetupProtocol /\ adding'.db = Default
  BY DEF ScriptInv, script
<1> QED
  BY <1>6, <1>7, <1>8, <1>9 DEF ScriptInv, script, ready

\* A protocol of a database gets past its init only with its database.
LEMMA InitNeedsDatabase ==
    ASSUME DatabaseInv, RegistryInv, adding # Idle, adding.kind \in DatabaseKinds,
           NEW r \in {"ok", "throws"}, r \in InitOf(adding)
    PROVE  database[adding.db].pool
<1>1. adding.db \in Databases
  BY DEF RegistryInv
<1>2. HasDatabase(adding.db) => database[adding.db].pool
  BY <1>1, EntryFacts
<1>3. Entry(adding.db).type = "MySQL" => database[adding.db].pool
  BY <1>1, EntryFacts
<1>4. ASSUME NEW o PROVE r \in CustomInit(adding.db, adding.init, o) => HasDatabase(adding.db)
  BY DEF CustomInit, NoTemplate
<1>5. ASSUME NEW q PROVE r \in RawInit(adding.db, q) => HasDatabase(adding.db)
  BY DEF RawInit
<1>6. r \in ProcedureInit(adding.db) => Entry(adding.db).type = "MySQL"
  BY DEF ProcedureInit
<1>7. adding.kind \in {"DB_RAW_V3", "DB_RAW_V2", "DB_RAW_NO_EXTRA_QUOTES_V2",
                       "DB_PROCEDURE_V2", "DB_CUSTOM_V3", "DB_CUSTOM_V5"}
  BY DEF DatabaseKinds, Kinds
<1>8. CASE adding.kind = "DB_CUSTOM_V3"
  BY <1>2, <1>4, <1>8 DEF InitOf
<1>9. CASE adding.kind = "DB_CUSTOM_V5"
  BY <1>2, <1>4, <1>9 DEF InitOf
<1>10. CASE adding.kind = "DB_PROCEDURE_V2"
  BY <1>3, <1>6, <1>10 DEF InitOf
<1>11. CASE adding.kind \in {"DB_RAW_V3", "DB_RAW_V2", "DB_RAW_NO_EXTRA_QUOTES_V2"}
  BY <1>2, <1>5, <1>11 DEF InitOf
<1> QED
  BY <1>7, <1>8, <1>9, <1>10, <1>11

\* The outcome of an init: the protocol is kept with its new state, or erased.
LEMMA OutcomeKeeps ==
    ASSUME RegistryInv, DatabaseInv, adding # Idle, adding' = Idle, UNCHANGED connection,
           NEW state \in {"ok", "threw"},
           adding.kind \in DatabaseKinds => database[adding.db].pool,
           unordered_map_protocol' =
              [unordered_map_protocol EXCEPT ![adding.name].state = state],
           loaded' = IF state = "ok" THEN loaded \cup {adding.name} ELSE loaded
    PROVE  /\ RegistryInv' /\ ReadyKept
           /\ unordered_map_protocol'[adding.name] =
                 [kind |-> adding.kind, db |-> adding.db, state |-> state]
<1> DEFINE new == [kind |-> adding.kind, db |-> adding.db, state |-> state]
<1>1. /\ adding.name \in Names /\ adding.kind \in Kinds /\ adding.db \in Databases
      /\ unordered_map_protocol[adding.name] =
            [kind |-> adding.kind, db |-> adding.db, state |-> "init"]
      /\ unordered_map_protocol \in [Names -> Protocols \cup {NotLoaded}]
  BY DEF RegistryInv
<1>2. new \in Protocols /\ new.kind = adding.kind /\ new.db = adding.db /\ new.state = state
  BY <1>1 DEF Protocols
<1>3. [unordered_map_protocol[adding.name] EXCEPT !.state = state] = new
  BY <1>1
<1>4. \A n \in Names : unordered_map_protocol'[n] =
          IF n = adding.name THEN new ELSE unordered_map_protocol[n]
  BY <1>1, <1>3
<1>5. unordered_map_protocol' \in [Names -> Protocols \cup {NotLoaded}]
  BY <1>1, <1>2, <1>3
<1> HIDE DEF new
<1>6. unordered_map_protocol[adding.name].state = "init"
  BY <1>1
<1>7. ReadyKept
  BY <1>4, <1>6 DEF ReadyKept
<1>8. \A n \in Names : unordered_map_protocol'[n].state # "init"
  BY <1>2, <1>4 DEF RegistryInv
<1>9. loaded' \subseteq Names /\ \A n \in loaded' : unordered_map_protocol'[n].state = "ok"
  BY <1>1, <1>2, <1>4, <1>6 DEF RegistryInv
<1>10. \A n \in Names :
          unordered_map_protocol'[n].kind \in DatabaseKinds
          /\ unordered_map_protocol'[n].state \in {"ok", "threw"} =>
             database'[unordered_map_protocol'[n].db].pool
  BY <1>2, <1>4 DEF RegistryInv, connection
<1> QED
  BY <1>1, <1>4, <1>5, <1>7, <1>8, <1>9, <1>10 DEF RegistryInv, new

LEMMA EraseKeeps ==
    ASSUME RegistryInv, adding # Idle, adding' = Idle, UNCHANGED <<connection, loaded>>,
           unordered_map_protocol' = Without(adding.name)
    PROVE  RegistryInv' /\ ReadyKept
<1>1. /\ adding.name \in Names
      /\ unordered_map_protocol[adding.name].state = "init"
      /\ unordered_map_protocol \in [Names -> Protocols \cup {NotLoaded}]
  BY DEF RegistryInv
<1>2. unordered_map_protocol' \in [Names -> Protocols \cup {NotLoaded}]
  BY <1>1 DEF Without
<1>3. \A n \in Names : unordered_map_protocol'[n] =
          IF n = adding.name THEN NotLoaded ELSE unordered_map_protocol[n]
  BY <1>1 DEF Without
<1>4. NotLoaded.state = "not loaded" /\ NotLoaded.kind \notin DatabaseKinds
  BY DEF NotLoaded, DatabaseKinds, Kinds
<1>5. ReadyKept
  BY <1>1, <1>3 DEF ReadyKept
<1>6. \A n \in Names : unordered_map_protocol'[n].state # "init"
  BY <1>3, <1>4, ZenonT(30) DEF RegistryInv
<1>7. \A n \in loaded : unordered_map_protocol'[n].state = "ok"
  BY <1>1, <1>3 DEF RegistryInv
<1>8. \A n \in Names :
          unordered_map_protocol'[n].kind \in DatabaseKinds
          /\ unordered_map_protocol'[n].state \in {"ok", "threw"} =>
             database'[unordered_map_protocol'[n].db].pool
  BY <1>3, <1>4 DEF RegistryInv, connection
<1> QED
  BY <1>2, <1>5, <1>6, <1>7, <1>8 DEF RegistryInv

\* An addition puts its protocol under a name that was free.
LEMMA AddKeeps ==
    ASSUME RegistryInv, DatabaseInv, adding = Idle, NEW a, AddBegins(a),
           a.name \in Names, a.db \in Databases
    PROVE  DatabaseInv' /\ PoolsKept /\ RegistryInv' /\ ReadyKept
<1> DEFINE new == [kind |-> a.kind, db |-> a.db, state |-> "init"]
<1>1. /\ unordered_map_protocol[a.name] = NotLoaded /\ a.kind \in Kinds
      /\ Touched(a.db) /\ connectors' = connectors /\ loaded' = loaded /\ adding' = a
      /\ unordered_map_protocol' = [unordered_map_protocol EXCEPT ![a.name] = new]
  BY DEF AddBegins, Taken
<1>2. DatabaseInv' /\ PoolsKept
  BY <1>1, TouchKeeps
<1>3. new \in Protocols /\ new.kind = a.kind /\ new.db = a.db /\ new.state = "init"
  BY <1>1 DEF Protocols
<1>4. unordered_map_protocol \in [Names -> Protocols \cup {NotLoaded}]
  BY DEF RegistryInv
<1>5. /\ unordered_map_protocol' \in [Names -> Protocols \cup {NotLoaded}]
      /\ \A n \in Names : unordered_map_protocol'[n] =
            IF n = a.name THEN new ELSE unordered_map_protocol[n]
  BY <1>1, <1>3, <1>4
<1>6. a # Idle
  <2>1. Idle.kind \notin Kinds
    BY DEF Idle, Kinds
  <2> QED
    BY <1>1, <2>1
<1>7. NotLoaded.state = "not loaded"
  BY DEF NotLoaded
<1>8. ReadyKept
  BY <1>1, <1>5, <1>7 DEF ReadyKept
<1>9. \A n \in Names : unordered_map_protocol'[n].state = "init" => adding'.name = n
  BY <1>1, <1>5 DEF RegistryInv
<1>10. \A n \in loaded' : unordered_map_protocol'[n].state = "ok"
  BY <1>1, <1>5, <1>7 DEF RegistryInv
<1>11. ASSUME NEW n \in Names, unordered_map_protocol'[n].kind \in DatabaseKinds,
              unordered_map_protocol'[n].state \in {"ok", "threw"}
       PROVE  database'[unordered_map_protocol'[n].db].pool
  <2>1. n # a.name /\ unordered_map_protocol'[n] = unordered_map_protocol[n]
    BY <1>3, <1>5, <1>11
  <2>2. unordered_map_protocol[n] \in Protocols
    BY <1>4, <1>7, <1>11, <2>1
  <2>3. database[unordered_map_protocol[n].db].pool /\ unordered_map_protocol[n].db \in Databases
    BY <1>11, <2>1, <2>2 DEF RegistryInv, Protocols
  <2> QED
    BY <1>2, <2>1, <2>3 DEF PoolsKept
<1> QED
  BY <1>1, <1>2, <1>3, <1>5, <1>6, <1>8, <1>9, <1>10, <1>11 DEF RegistryInv

LEMMA RefusedKeeps ==
    ASSUME RegistryInv, DatabaseInv, NEW a, AddRefused(a), a.db \in Databases
    PROVE  DatabaseInv' /\ PoolsKept /\ RegistryInv' /\ ReadyKept
<1>1. DatabaseInv' /\ PoolsKept
  BY TouchKeeps DEF AddRefused
<1>2. UNCHANGED registry
  BY DEF AddRefused
<1> QED
  BY <1>1, <1>2, RegistryUnchanged

-----------------------------------------------------------------------------
(* The steps.                                                              *)

ExtInv == DatabaseInv /\ RegistryInv /\ QueueInv /\ ScriptInv

SetupInv == StartupInv /\ ExtInv

\* A step of other scripts, of a worker or of the constructor.
LEMMA OthersKeep ==
    ASSUME ExtInv, DatabaseInv', PoolsKept, RegistryInv', ReadyKept, UNCHANGED script,
           QueueStays, extDB_lock' \in BOOLEAN, extDB_lock => extDB_lock',
           systemCalls' \in 0..MaxSystemCalls,
           adding' = adding \/ adding'.by # "init.sqf"
    PROVE  ExtInv'
  BY QueueKept, ScriptKept DEF ExtInv

LEMMA CallCounted ==
    ASSUME ScriptInv, ByOthers
    PROVE  systemCalls' \in 0..MaxSystemCalls /\ UNCHANGED script
<1>1. systemCalls \in 0..MaxSystemCalls
  BY DEF ScriptInv
<1>2. systemCalls' = systemCalls + 1 /\ systemCalls < MaxSystemCalls
  BY DEF ByOthers
<1>3. systemCalls' \in 0..MaxSystemCalls
  BY <1>1, <1>2, SetupAssumption
<1> QED
  BY <1>3 DEF ByOthers

LEMMA OtherDatabaseKeeps ==
    ASSUME ExtInv, NEW d \in Databases, NEW section, OtherDatabase(d, section)
    PROVE  ExtInv'
<1>1. DatabaseInv' /\ PoolsKept
  BY ConnectKeeps DEF ExtInv, OtherDatabase
<1>2. RegistryInv' /\ ReadyKept
  BY <1>1, RegistryUnchanged DEF ExtInv, OtherDatabase
<1>3. systemCalls' \in 0..MaxSystemCalls /\ UNCHANGED script
  BY CallCounted DEF ExtInv, OtherDatabase
<1>4. QueueStays /\ extDB_lock' = extDB_lock /\ adding' = adding
  BY DEF OtherDatabase, registry, QueueStays
<1>5. extDB_lock' \in BOOLEAN
  BY <1>4 DEF ExtInv, ScriptInv
<1> QED
  BY <1>1, <1>2, <1>3, <1>4, <1>5, OthersKeep

LEMMA OtherAddKeeps ==
    ASSUME ExtInv, NEW n \in Names, NEW d \in Databases, NEW kind, NEW init,
           OtherAdd([name |-> n, kind |-> kind, db |-> d, init |-> init, by |-> "other"])
    PROVE  ExtInv'
<1> DEFINE a == [name |-> n, kind |-> kind, db |-> d, init |-> init, by |-> "other"]
<1>1. a.name \in Names /\ a.db \in Databases /\ a.by = "other"
  OBVIOUS
<1>2. OtherAdd(a)
  OBVIOUS
<1> HIDE DEF a
<1>3. adding = Idle
  BY <1>2 DEF OtherAdd, Unlocked, Running
<1>4. /\ DatabaseInv' /\ PoolsKept /\ RegistryInv' /\ ReadyKept
      /\ adding' = adding \/ adding' = a
  <2>1. CASE AddBegins(a)
    BY <1>1, <1>3, <2>1, AddKeeps DEF ExtInv, AddBegins
  <2>2. CASE AddRefused(a)
    BY <1>1, <2>2, RefusedKeeps DEF ExtInv, AddRefused, registry
  <2> QED
    BY <1>2, <2>1, <2>2 DEF OtherAdd
<1>5. systemCalls' \in 0..MaxSystemCalls /\ UNCHANGED script
  BY <1>2, CallCounted DEF ExtInv, OtherAdd
<1>6. QueueStays /\ extDB_lock' = extDB_lock
  BY <1>2 DEF OtherAdd, AddBegins, AddRefused, QueueStays
<1>7. extDB_lock' \in BOOLEAN
  BY <1>6 DEF ExtInv, ScriptInv
<1> QED
  BY <1>1, <1>4, <1>5, <1>6, <1>7, OthersKeep

LEMMA OtherCallsKeep ==
    ASSUME ExtInv, StartVac \/ OtherLock \/ \E section : StartRcon(section)
    PROVE  ExtInv'
<1>1. /\ connectors \subseteq connectors'
      /\ connectors' \subseteq connectors \cup {"rcon", "steam"}
      /\ database' = database
      /\ UNCHANGED registry
      /\ QueueStays
      /\ extDB_lock' = extDB_lock \/ extDB_lock' = TRUE
      /\ ByOthers
  BY DEF StartVac, OtherLock, StartRcon, connection, QueueStays
<1>2. DatabaseInv' /\ PoolsKept
  BY <1>1 DEF ExtInv, DatabaseInv, PoolsKept
<1>3. RegistryInv' /\ ReadyKept
  BY <1>1, <1>2, RegistryUnchanged DEF ExtInv
<1>4. systemCalls' \in 0..MaxSystemCalls /\ UNCHANGED script
  BY <1>1, CallCounted DEF ExtInv
<1>5. extDB_lock' \in BOOLEAN /\ (extDB_lock => extDB_lock')
  <2>1. extDB_lock \in BOOLEAN
    BY DEF ExtInv, ScriptInv
  <2>2. CASE extDB_lock' = extDB_lock
    BY <2>1, <2>2
  <2>3. CASE extDB_lock' = TRUE
    BY <2>3
  <2> QED
    BY <1>1, <2>2, <2>3
<1>6. adding' = adding
  BY <1>1 DEF registry
<1> QED
  BY <1>1, <1>2, <1>3, <1>4, <1>5, <1>6, OthersKeep

Ready == [kind |-> SetupProtocol, db |-> Default, state |-> "ok"]

\* init.sqf gets where it goes for a reason, and a setup stays good.
LEMMA ScriptMoves ==
    ASSUME ScriptInv, ReadyKept, PoolsKept,
           UNCHANGED <<extDB_ID, extDB_lock, systemCalls>>, missions' \in 0..MaxMissions,
           mission' \in {"none", "database", "add", "lock", "done", "failed"},
           mission' \in {"add", "lock"} => database'[Default].pool,
           mission' = "lock" => unordered_map_protocol'[SetupName] = Ready,
           adding' # Idle /\ adding'.by = "init.sqf" =>
              /\ mission' = "add"
              /\ adding'.name = SetupName /\ adding'.kind = SetupProtocol /\ adding'.db = Default
    PROVE  ScriptInv'
<1>1. database[Default].pool => database'[Default].pool
  BY DEF PoolsKept, Databases
<1>2. unordered_map_protocol[SetupName] = Ready => unordered_map_protocol'[SetupName] = Ready
  BY SetupAssumption DEF ReadyKept, Ready
<1>3. extDB_ID # "" => extDB_ID = SetupName
  BY DEF ScriptInv
<1>4. SetupIsReady'
  BY <1>1, <1>2, <1>3 DEF ScriptInv, SetupIsReady, Ready
<1> QED
  BY <1>4 DEF ScriptInv, Ready

LEMMA MissionBeginsKeeps == ASSUME ExtInv, MissionBegins PROVE ExtInv'
<1>1. /\ adding = Idle /\ missions < MaxMissions /\ missions' = missions + 1
      /\ mission' \in {"database", "done"}
      /\ UNCHANGED <<extDB_lock, connection, registry, extDB_ID, systemCalls>>
      /\ QueueStays
  BY DEF MissionBegins, Running, QueueStays
<1>2. DatabaseInv' /\ PoolsKept
  BY <1>1 DEF ExtInv, DatabaseInv, PoolsKept, connection
<1>3. RegistryInv' /\ ReadyKept
  BY <1>1, <1>2, RegistryUnchanged DEF ExtInv
<1>4. missions \in 0..MaxMissions
  BY DEF ExtInv, ScriptInv
<1>5. missions' \in 0..MaxMissions
  <2>1. missions < MaxMissions /\ missions' = missions + 1
    BY DEF MissionBegins
  <2> QED
    BY <1>4, <2>1, SetupAssumption
<1>6. adding' = Idle
  BY <1>1 DEF registry
<1>7. ScriptInv'
  BY <1>1, <1>2, <1>3, <1>5, <1>6, ScriptMoves DEF ExtInv
<1>8. QueueInv'
  BY <1>1, <1>3, QueueKept DEF ExtInv
<1> QED
  BY <1>2, <1>3, <1>7, <1>8 DEF ExtInv

LEMMA MissionDatabaseKeeps == ASSUME ExtInv, MissionDatabase PROVE ExtInv'
<1>1. /\ adding = Idle /\ mission = "database"
      /\ UNCHANGED <<extDB_lock, registry, missions, extDB_ID, systemCalls>>
      /\ QueueStays
  BY DEF MissionDatabase, ByMission, Running, QueueStays
<1>2. Default \in Databases
  BY DEF Databases
<1>3. /\ DatabaseInv' /\ PoolsKept
      /\ \/ mission' = "failed"
         \/ mission' = "add" /\ database'[Default].pool
  <2>1. CASE ConnectOk(Default, SetupSection) /\ Reply("init.sqf", TRUE)
    <3>1. mission' = "add"
      BY <1>1, <2>1 DEF Reply
    <3>2. database'[Default].pool
      <4>1. database' = [database EXCEPT ![Default] = [type |-> Section(SetupSection), pool |-> TRUE]]
        BY <2>1 DEF ConnectOk
      <4>2. database'[Default] = [type |-> Section(SetupSection), pool |-> TRUE]
        BY <1>2, <4>1 DEF ExtInv, DatabaseInv
      <4> QED
        BY <4>2
    <3> QED
      BY <1>2, <2>1, <3>1, <3>2, ConnectKeeps DEF ExtInv
  <2>2. CASE \/ ConnectFails(Default, SetupSection) /\ Reply("init.sqf", FALSE)
             \/ AlreadyConnected(Default) /\ Reply("init.sqf", FALSE)
    <3>1. mission' = "failed"
      BY <2>2 DEF Reply
    <3> QED
      BY <1>2, <2>2, <3>1, ConnectKeeps DEF ExtInv
  <2>3. CASE UNCHANGED connection /\ Reply("init.sqf", FALSE)
    <3>1. mission' = "failed"
      BY <2>3 DEF Reply
    <3> QED
      BY <2>3, <3>1 DEF ExtInv, DatabaseInv, PoolsKept, connection
  <2> QED
    BY <2>1, <2>2, <2>3 DEF MissionDatabase
<1>4. RegistryInv' /\ ReadyKept
  BY <1>1, <1>3, RegistryUnchanged DEF ExtInv
<1>5. missions' \in 0..MaxMissions /\ adding' = Idle
  BY <1>1 DEF ExtInv, ScriptInv, registry
<1>6. ScriptInv'
  BY <1>1, <1>3, <1>4, <1>5, ScriptMoves DEF ExtInv
<1>7. QueueInv'
  BY <1>1, <1>4, QueueKept DEF ExtInv
<1> QED
  BY <1>3, <1>4, <1>6, <1>7 DEF ExtInv

LEMMA MissionAddKeeps == ASSUME ExtInv, MissionAdd PROVE ExtInv'
<1> DEFINE a == [name |-> SetupName, kind |-> SetupProtocol, db |-> Default,
                 init |-> SetupOption, by |-> "init.sqf"]
<1>1. /\ a.name = SetupName /\ a.name \in Names /\ a.kind = SetupProtocol
      /\ a.db = Default /\ a.db \in Databases
  BY SetupAssumption DEF Databases
<1>2. /\ mission = "add" /\ adding = Idle /\ database[Default].pool
      /\ UNCHANGED <<extDB_lock, missions, extDB_ID, systemCalls>>
      /\ QueueStays
  BY DEF MissionAdd, AddBegins, AddRefused, ByMission, Running, ExtInv, ScriptInv, QueueStays
<1>3. \/ AddBegins(a) /\ mission' = mission
      \/ AddRefused(a) /\ Reply("init.sqf", FALSE)
      \/ UNCHANGED <<connection, registry>> /\ Reply("init.sqf", FALSE)
  BY DEF MissionAdd
<1> HIDE DEF a
<1>4. /\ DatabaseInv' /\ PoolsKept /\ RegistryInv' /\ ReadyKept
      /\ \/ mission' = "add" /\ adding' = a
         \/ mission' = "failed" /\ adding' = Idle
  <2>1. CASE AddBegins(a) /\ mission' = mission
    BY <1>1, <1>2, <2>1, AddKeeps DEF ExtInv, AddBegins
  <2>2. CASE AddRefused(a) /\ Reply("init.sqf", FALSE)
    <3>1. mission' = "failed" /\ adding' = Idle
      BY <1>2, <2>2 DEF Reply, AddRefused, registry
    <3> QED
      BY <1>1, <2>2, <3>1, RefusedKeeps DEF ExtInv
  <2>3. CASE UNCHANGED <<connection, registry>> /\ Reply("init.sqf", FALSE)
    <3>1. mission' = "failed" /\ adding' = Idle
      BY <1>2, <2>3 DEF Reply, registry
    <3>2. DatabaseInv' /\ PoolsKept
      BY <2>3 DEF ExtInv, DatabaseInv, PoolsKept, connection
    <3> QED
      BY <2>3, <3>1, <3>2, RegistryUnchanged DEF ExtInv
  <2> QED
    BY <1>3, <2>1, <2>2, <2>3
<1>5. database'[Default].pool
  BY <1>2, <1>4 DEF PoolsKept, Databases
<1>6. missions' \in 0..MaxMissions
  BY <1>2 DEF ExtInv, ScriptInv
<1>7. ScriptInv'
  BY <1>1, <1>2, <1>4, <1>5, <1>6, ScriptMoves DEF ExtInv
<1>8. QueueInv'
  BY <1>2, <1>4, QueueKept DEF ExtInv
<1> QED
  BY <1>4, <1>7, <1>8 DEF ExtInv

\* The setup is recorded when both of its calls were answered [1].
LEMMA MissionLockKeeps == ASSUME ExtInv, MissionLock PROVE ExtInv'
<1>1. /\ mission = "lock" /\ adding = Idle
      /\ extDB_lock' = TRUE /\ extDB_ID' = SetupName /\ mission' = "done"
      /\ UNCHANGED <<connection, registry, missions, systemCalls>>
      /\ QueueStays
  BY DEF MissionLock, Running, QueueStays
<1>2. DatabaseInv' /\ PoolsKept
  BY <1>1 DEF ExtInv, DatabaseInv, PoolsKept, connection
<1>3. RegistryInv' /\ ReadyKept
  BY <1>1, <1>2, RegistryUnchanged DEF ExtInv
<1>4. database'[Default].pool /\ unordered_map_protocol'[SetupName] = Ready /\ adding' = Idle
  BY <1>1 DEF ExtInv, ScriptInv, Ready, connection, registry
<1>5. SetupIsReady'
  BY <1>1, <1>4 DEF SetupIsReady, Ready
<1>6. ScriptInv'
  BY <1>1, <1>4, <1>5 DEF ExtInv, ScriptInv
<1>7. QueueInv'
  BY <1>1, <1>3, QueueKept DEF ExtInv
<1> QED
  BY <1>2, <1>3, <1>6, <1>7 DEF ExtInv

\* The end of an ADD: init.sqf goes on when its own addition is ready.
LEMMA InitOkKeeps == ASSUME StartupTypes, ExtInv, InitOk PROVE ExtInv'
<1>1. /\ adding # Idle /\ adding' = Idle /\ "ok" \in InitOf(adding)
      /\ unordered_map_protocol' = [unordered_map_protocol EXCEPT ![adding.name].state = "ok"]
      /\ loaded' = loaded \cup {adding.name}
      /\ Reply(adding.by, TRUE)
      /\ UNCHANGED <<extDB_lock, connection, missions, extDB_ID, systemCalls>>
      /\ QueueStays
  BY DEF InitOk, Adding, QueueStays
<1>2. adding.kind \in DatabaseKinds => database[adding.db].pool
  BY <1>1, InitNeedsDatabase DEF ExtInv
<1>3. /\ RegistryInv' /\ ReadyKept
      /\ unordered_map_protocol'[adding.name] =
            [kind |-> adding.kind, db |-> adding.db, state |-> "ok"]
  BY <1>1, <1>2, OutcomeKeeps DEF ExtInv
<1>4. DatabaseInv' /\ PoolsKept
  BY <1>1 DEF ExtInv, DatabaseInv, PoolsKept, connection
<1>5. missions' \in 0..MaxMissions
  BY <1>1 DEF ExtInv, ScriptInv
<1>6. CASE adding.by = "init.sqf"
  <2>1. /\ mission = "add" /\ mission' = "lock" /\ adding.name = SetupName
        /\ adding.kind = SetupProtocol /\ adding.db = Default /\ database[Default].pool
    BY <1>1, <1>6 DEF ExtInv, ScriptInv, Reply
  <2>2. database'[Default].pool
    BY <1>4, <2>1 DEF PoolsKept, Databases
  <2>3. unordered_map_protocol'[SetupName] = Ready
    BY <1>3, <2>1 DEF Ready
  <2> QED
    BY <1>1, <1>3, <1>4, <1>5, <2>1, <2>2, <2>3, ScriptMoves, QueueKept DEF ExtInv
<1>7. CASE adding.by # "init.sqf"
  <2>1. mission' = mission
    BY <1>1, <1>7 DEF Reply
  <2>2. Idle.by # "init.sqf"
    BY DEF Idle
  <2>3. systemCalls' \in 0..MaxSystemCalls /\ extDB_lock' \in BOOLEAN
    BY <1>1 DEF ExtInv, ScriptInv
  <2> QED
    BY <1>1, <1>3, <1>4, <2>1, <2>2, <2>3, OthersKeep DEF script
<1> QED
  BY <1>6, <1>7

LEMMA InitFailsKeeps == ASSUME ExtInv, InitFalse \/ InitThrows PROVE ExtInv'
<1>1. /\ adding # Idle /\ adding' = Idle
      /\ Reply(adding.by, FALSE)
      /\ UNCHANGED <<extDB_lock, connection, loaded, missions, extDB_ID, systemCalls>>
      /\ QueueStays
  BY DEF InitFalse, InitThrows, Adding, QueueStays
<1>2. RegistryInv' /\ ReadyKept
  <2>1. CASE InitFalse
    BY <1>1, <2>1, EraseKeeps DEF InitFalse, ExtInv
  <2>2. CASE InitThrows
    <3>1. adding.kind \in DatabaseKinds => database[adding.db].pool
      BY <1>1, <2>2, InitNeedsDatabase DEF InitThrows, ExtInv
    <3>2. unordered_map_protocol' = [unordered_map_protocol EXCEPT ![adding.name].state = "threw"]
      BY <2>2 DEF InitThrows
    <3> QED
      BY <1>1, <3>1, <3>2, OutcomeKeeps DEF ExtInv
  <2> QED
    BY <2>1, <2>2
<1>3. DatabaseInv' /\ PoolsKept
  BY <1>1 DEF ExtInv, DatabaseInv, PoolsKept, connection
<1>4. missions' \in 0..MaxMissions
  BY <1>1 DEF ExtInv, ScriptInv
<1>5. CASE adding.by = "init.sqf"
  <2>1. mission' = "failed"
    BY <1>1, <1>5 DEF Reply
  <2> QED
    BY <1>1, <1>2, <1>3, <1>4, <2>1, ScriptMoves, QueueKept DEF ExtInv
<1>6. CASE adding.by # "init.sqf"
  <2>1. mission' = mission
    BY <1>1, <1>6 DEF Reply
  <2>2. Idle.by # "init.sqf"
    BY DEF Idle
  <2>3. systemCalls' \in 0..MaxSystemCalls /\ extDB_lock' \in BOOLEAN
    BY <1>1 DEF ExtInv, ScriptInv
  <2> QED
    BY <1>1, <1>2, <1>3, <2>1, <2>2, <2>3, OthersKeep DEF script
<1> QED
  BY <1>5, <1>6

\* A logger that an init makes is one of those the registry has room for.
LEMMA InitKeepsStartup ==
    ASSUME StartupInv, InitOk \/ InitFalse \/ InitThrows
    PROVE  StartupInv'
<1>1. CASE InitFalse \/ InitThrows
  BY <1>1, StartupUnchanged DEF InitFalse, InitThrows
<1>2. CASE InitOk
  <2>1. NewLogger(adding) /\ "ok" \in InitOf(adding)
    BY <1>2 DEF InitOk
  <2>2. loggers' \in LoggerMaps
    <3>1. CASE adding.kind = "LOG" /\ adding.init # ""
      <4>1. InitOf(adding) = LogInit(adding.init)
        BY <3>1 DEF InitOf
      <4>2. adding.init \in LogFiles
        <5>1. "ok" \in LogInit(adding.init) /\ adding.init # ""
          BY <2>1, <3>1, <4>1
        <5>2. adding.init \notin LogFiles => "ok" \notin LogInit(adding.init)
          BY <5>1 DEF LogInit
        <5> QED
          BY <5>1, <5>2
      <4> QED
        BY <2>1, <3>1, <4>2, CreateKeeps DEF NewLogger, LoggerNames, StartupInv
    <3>2. CASE ~(adding.kind = "LOG" /\ adding.init # "")
      BY <2>1, <3>2 DEF NewLogger, StartupInv, StartupTypes
    <3> QED
      BY <3>1, <3>2
  <2>3. StartupTypes'
    BY <1>2, <2>2 DEF InitOk, StartupInv, StartupTypes
  <2>4. ConfStays'
    BY <1>2 DEF InitOk, StartupInv, ConfStays
  <2> QED
    BY <2>3, <2>4 DEF StartupInv
<1> QED
  BY <1>1, <1>2

\* A call is posted past a look into the map, or without; nothing else changes.
LEMMA PostKeeps ==
    ASSUME ExtInv, NEW n \in Names, PostAsync(n) \/ PostOneway(n)
    PROVE  ExtInv'
<1> DEFINE known == n \in loaded
<1>1. PICK mode \in {"async", "oneway"} :
         /\ Post(mode, n)
         /\ mode = "async" => unordered_map_protocol[n] # NotLoaded
  BY DEF PostAsync, PostOneway
<1>2. adding = Idle /\ Len(queue) < MaxQueue
      /\ UNCHANGED <<extDB_lock, connection, registry, script, systemCalls>>
  BY <1>1 DEF Post, Running
<1>3. DatabaseInv'
  BY <1>2 DEF ExtInv, DatabaseInv, connection
<1>4. RegistryInv'
  BY <1>2 DEF ExtInv, RegistryInv, connection, registry
<1>5. ScriptInv'
  BY <1>2 DEF ExtInv, ScriptInv, SetupIsReady, connection, registry, script
<1>6. unordered_map_protocol[n] # NotLoaded => unordered_map_protocol[n].state \in {"ok", "threw"}
  <2>1. unordered_map_protocol[n] \in Protocols \cup {NotLoaded}
        /\ unordered_map_protocol[n].state # "init"
    BY <1>2 DEF ExtInv, RegistryInv
  <2> QED
    BY <2>1 DEF Protocols
<1>7. known => unordered_map_protocol[n].state = "ok"
  BY DEF ExtInv, RegistryInv
<1>8. known \in BOOLEAN
  OBVIOUS
<1> HIDE DEF known
<1> DEFINE post == [mode |-> mode, name |-> n, known |-> known, lookup |-> "waiting"]
<1>9. post \in Posts /\ post.mode = mode /\ post.name = n /\ post.known = known
  BY <1>8 DEF Posts, Lookups
<1>10. queue' = Append(queue, post)
  BY <1>1 DEF Post, known
<1> HIDE DEF post
<1>11. queue \in Seq(Posts) /\ Len(queue) \in Nat
  BY DEF ExtInv, QueueInv
<1>12. /\ queue' \in Seq(Posts) /\ Len(queue') = Len(queue) + 1
       /\ \A i \in 1..Len(queue') :
             queue'[i] = IF i = Len(queue) + 1 THEN post ELSE queue[i]
  BY <1>9, <1>10, <1>11
<1>13. Len(queue') <= MaxQueue
  BY <1>2, <1>11, <1>12, SetupAssumption
<1>14. unordered_map_protocol' = unordered_map_protocol
  BY <1>2 DEF registry
<1>15. ASSUME NEW i \in 1..Len(queue')
       PROVE  /\ queue'[i].mode = "async" =>
                    unordered_map_protocol'[queue'[i].name].state \in {"ok", "threw"}
              /\ queue'[i].known => unordered_map_protocol'[queue'[i].name].state = "ok"
  <2>1. CASE i = Len(queue) + 1
    BY <1>1, <1>6, <1>7, <1>9, <1>12, <1>14, <1>15, <2>1
  <2>2. CASE i # Len(queue) + 1
    <3>1. i \in 1..Len(queue) /\ queue'[i] = queue[i]
      BY <1>11, <1>12, <1>15, <2>2
    <3> QED
      BY <1>14, <3>1 DEF ExtInv, QueueInv
  <2> QED
    BY <2>1, <2>2
<1>16. QueueInv'
  BY <1>12, <1>13, <1>15 DEF QueueInv
<1> QED
  BY <1>3, <1>4, <1>5, <1>16 DEF ExtInv

LEMMA RemoveAtProperties ==
    ASSUME NEW S, NEW s \in Seq(S), NEW k \in 1..Len(s)
    PROVE  /\ RemoveAt(s, k) \in Seq(S)
           /\ Len(RemoveAt(s, k)) = Len(s) - 1
           /\ \A i \in 1..Len(s) - 1 : RemoveAt(s, k)[i] = IF i < k THEN s[i] ELSE s[i + 1]
<1> DEFINE a == SubSeq(s, 1, k - 1)
           b == SubSeq(s, k + 1, Len(s))
<1>1. k \in Int /\ Len(s) \in Nat /\ 1 <= k /\ k <= Len(s)
  OBVIOUS
<1>2. /\ a \in Seq(S) /\ Len(a) = k - 1
      /\ \A i \in 1..k - 1 : a[i] = s[i]
  <2>1. \A i \in 1..k - 1 : s[i] \in S
    BY <1>1
  <2>2. /\ a \in Seq(S) /\ Len(a) = IF 1 <= k - 1 THEN (k - 1) - 1 + 1 ELSE 0
        /\ \A i \in 1..(k - 1) - 1 + 1 : a[i] = s[1 + i - 1]
    BY <1>1, <2>1, SubSeqProperties
  <2> QED
    BY <1>1, <2>2
<1>3. /\ b \in Seq(S) /\ Len(b) = Len(s) - k
      /\ \A i \in 1..Len(s) - k : b[i] = s[k + i]
  <2>1. \A i \in k + 1..Len(s) : s[i] \in S
    BY <1>1
  <2>2. /\ b \in Seq(S) /\ Len(b) = IF k + 1 <= Len(s) THEN Len(s) - (k + 1) + 1 ELSE 0
        /\ \A i \in 1..Len(s) - (k + 1) + 1 : b[i] = s[(k + 1) + i - 1]
    BY <1>1, <2>1, SubSeqProperties
  <2> QED
    BY <1>1, <2>2
<1> HIDE DEF a, b
<1>4. /\ a \o b \in Seq(S) /\ Len(a \o b) = Len(a) + Len(b)
      /\ \A i \in 1..Len(a) + Len(b) : (a \o b)[i] = IF i <= Len(a) THEN a[i] ELSE b[i - Len(a)]
  BY <1>2, <1>3, ConcatProperties
<1>5. Len(a) + Len(b) = Len(s) - 1
  BY <1>1, <1>2, <1>3
<1>6. ASSUME NEW i \in 1..Len(s) - 1
      PROVE  (a \o b)[i] = IF i < k THEN s[i] ELSE s[i + 1]
  <2>1. CASE i < k
    BY <1>1, <1>2, <1>4, <1>5, <2>1
  <2>2. CASE i >= k
    <3>1. i - Len(a) \in 1..Len(s) - k /\ k + (i - Len(a)) = i + 1 /\ ~(i <= Len(a))
      BY <1>1, <1>2, <2>2
    <3> QED
      BY <1>1, <1>3, <1>4, <1>5, <2>2, <3>1, SMTT(30)
  <2>3. i < k \/ i >= k
    BY <1>1
  <2> QED
    BY <2>1, <2>2, <2>3
<1> QED
  BY <1>4, <1>5, <1>6 DEF RemoveAt, a, b

\* A worker changes the queue only.
LEMMA WorkerStepKeeps ==
    ASSUME ExtInv, QueueInv', UNCHANGED <<extDB_lock, connection, registry, script, systemCalls>>
    PROVE  ExtInv'
<1>1. DatabaseInv'
  BY DEF ExtInv, DatabaseInv, connection
<1>2. RegistryInv'
  BY DEF ExtInv, RegistryInv, connection, registry
<1>3. ScriptInv'
  BY DEF ExtInv, ScriptInv, SetupIsReady, connection, registry, script
<1> QED
  BY <1>1, <1>2, <1>3 DEF ExtInv

LEMMA LookUpKeeps ==
    ASSUME ExtInv, NEW i \in DOMAIN queue, LookUp(i)
    PROVE  ExtInv'
<1>1. /\ queue' = [queue EXCEPT ![i].lookup = "looking"]
      /\ UNCHANGED <<extDB_lock, connection, registry, script, systemCalls>>
  BY DEF LookUp
<1>2. queue \in Seq(Posts) /\ Len(queue) \in Nat /\ i \in 1..Len(queue)
  BY DEF ExtInv, QueueInv
<1>3. /\ [queue[i] EXCEPT !.lookup = "looking"] \in Posts
      /\ [queue[i] EXCEPT !.lookup = "looking"].mode = queue[i].mode
      /\ [queue[i] EXCEPT !.lookup = "looking"].name = queue[i].name
      /\ [queue[i] EXCEPT !.lookup = "looking"].known = queue[i].known
  <2>1. queue[i] \in Posts /\ "looking" \in Lookups
    BY <1>2 DEF Lookups
  <2> QED
    BY <2>1, CallsLookedUp
<1> DEFINE post == [queue[i] EXCEPT !.lookup = "looking"]
<1>4. queue' = [queue EXCEPT ![i] = post]
  BY <1>1
<1>5. /\ post \in Posts /\ post.mode = queue[i].mode
      /\ post.name = queue[i].name /\ post.known = queue[i].known
  BY <1>3
<1> HIDE DEF post
<1>6. /\ queue' \in Seq(Posts) /\ Len(queue') = Len(queue)
      /\ \A j \in 1..Len(queue) : queue'[j] = IF j = i THEN post ELSE queue[j]
  BY <1>2, <1>4, <1>5
<1>7. ReadyKept
  BY <1>1 DEF ReadyKept, registry
<1>8. QueueInv'
  BY <1>5, <1>6, <1>7, LookupsChange DEF ExtInv
<1> QED
  BY <1>1, <1>8, WorkerStepKeeps

LEMMA TakeKeeps ==
    ASSUME ExtInv, NEW i \in DOMAIN queue, Take(i)
    PROVE  ExtInv'
<1>1. /\ queue' = RemoveAt(queue, i)
      /\ UNCHANGED <<extDB_lock, connection, registry, script, systemCalls>>
  BY DEF Take
<1>2. queue \in Seq(Posts) /\ Len(queue) \in Nat /\ Len(queue) <= MaxQueue /\ i \in 1..Len(queue)
  BY DEF ExtInv, QueueInv
<1>3. /\ queue' \in Seq(Posts) /\ Len(queue') = Len(queue) - 1
      /\ \A j \in 1..Len(queue) - 1 : queue'[j] = IF j < i THEN queue[j] ELSE queue[j + 1]
  BY <1>1, <1>2, RemoveAtProperties
<1>4. Len(queue') <= MaxQueue
  BY <1>2, <1>3, SetupAssumption
<1>5. \A j \in 1..Len(queue') : \E k \in 1..Len(queue) : queue'[j] = queue[k]
  <2> TAKE j \in 1..Len(queue')
  <2>1. CASE j < i
    BY <1>2, <1>3, <2>1
  <2>2. CASE ~(j < i)
    BY <1>2, <1>3, <2>2
  <2> QED
    BY <2>1, <2>2
<1>6. unordered_map_protocol' = unordered_map_protocol
  BY <1>1 DEF registry
<1>7. QueueInv'
  BY <1>3, <1>4, <1>5, <1>6 DEF ExtInv, QueueInv
<1> QED
  BY <1>1, <1>7, WorkerStepKeeps

LEMMA TakeMissesKeeps ==
    ASSUME StartupInv, ExtInv, NEW i \in DOMAIN queue, TakeMisses(i)
    PROVE  StartupInv' /\ ExtInv'
<1>1. /\ queue' = <<>> /\ phase' = "exited"
      /\ UNCHANGED <<path, conf_randomized, threads, async_mode, loggers, conf, starts, used>>
      /\ UNCHANGED <<extDB_lock, connection, registry, script, systemCalls>>
  BY DEF TakeMisses
<1>2. StartupTypes'
  BY <1>1 DEF StartupInv, StartupTypes, Phases
<1>3. ConfStays'
  BY <1>1 DEF StartupInv, ConfStays, Started
<1>4. QueueInv'
  <2>1. queue' \in Seq(Posts) /\ Len(queue') = 0
    BY <1>1
  <2>2. Len(queue') <= MaxQueue /\ \A j \in 1..Len(queue') : FALSE
    BY <2>1, SetupAssumption
  <2> QED
    BY <2>1, <2>2 DEF QueueInv
<1> QED
  BY <1>1, <1>2, <1>3, <1>4, WorkerStepKeeps DEF StartupInv

-----------------------------------------------------------------------------
LEMMA SetupStart == ASSUME Init PROVE SetupInv
<1>1. ExtFresh /\ StartupInit
  BY DEF Init, ExtFresh
<1> QED
  BY <1>1, StartupStart, ExtStart DEF SetupInv, ExtInv

LEMMA SetupStep == ASSUME SetupInv, [Next]_vars PROVE SetupInv'
<1> USE DEF SetupInv
<1>1. CASE Load
  BY <1>1, StartupNextKeeps, ExtUnchanged DEF Load, ExtInv
<1>2. CASE Unload
  BY <1>2, DetachKeeps, ExtUnchanged DEF Unload, ExtInv
<1>3. CASE Restart
  <2>1. ExtFresh'
    BY <1>3 DEF Restart, ExtFresh, FreshDatabase, NoProtocols
  <2>2. ExtInv'
    BY <2>1, ExtStart, PTL DEF ExtInv
  <2> QED
    BY <1>3, <2>2, AttachKeeps DEF Restart
<1>4. CASE MissionBegins
  BY <1>4, MissionBeginsKeeps, StartupUnchanged DEF MissionBegins
<1>5. CASE MissionDatabase
  BY <1>5, MissionDatabaseKeeps, StartupUnchanged DEF MissionDatabase
<1>6. CASE MissionAdd
  BY <1>6, MissionAddKeeps, StartupUnchanged DEF MissionAdd
<1>7. CASE MissionLock
  BY <1>7, MissionLockKeeps, StartupUnchanged DEF MissionLock
<1>8. ASSUME NEW d \in Databases, NEW section, OtherDatabase(d, section) PROVE SetupInv'
  BY <1>8, OtherDatabaseKeeps, StartupUnchanged DEF OtherDatabase
<1>9. ASSUME NEW n \in Names, NEW d \in Databases, NEW x,
             OtherAdd([name |-> n, kind |-> x.kind, db |-> d, init |-> x.init, by |-> "other"])
      PROVE  SetupInv'
  BY <1>9, OtherAddKeeps, StartupUnchanged DEF OtherAdd
<1>10. CASE InitOk
  BY <1>10, InitOkKeeps, InitKeepsStartup DEF StartupInv
<1>11. CASE InitFalse \/ InitThrows
  BY <1>11, InitFailsKeeps, InitKeepsStartup
<1>12. CASE StartVac \/ OtherLock \/ \E section \in DOMAIN Sections : StartRcon(section)
  BY <1>12, OtherCallsKeep, StartupUnchanged DEF StartVac, OtherLock, StartRcon
<1>13. ASSUME NEW n \in Names, PostAsync(n) \/ PostOneway(n) PROVE SetupInv'
  BY <1>13, PostKeeps, StartupUnchanged DEF PostAsync, PostOneway, Post
<1>14. ASSUME NEW i \in DOMAIN queue, LookUp(i) PROVE SetupInv'
  BY <1>14, LookUpKeeps, StartupUnchanged DEF LookUp
<1>15. ASSUME NEW i \in DOMAIN queue, Take(i) PROVE SetupInv'
  BY <1>15, TakeKeeps, StartupUnchanged DEF Take
<1>16. ASSUME NEW i \in DOMAIN queue, TakeMisses(i) PROVE SetupInv'
  BY <1>16, TakeMissesKeeps
<1>17. CASE UNCHANGED vars
  BY <1>17, StartupUnchanged, ExtUnchanged DEF vars, ExtInv
<1> QED
  BY <1>1, <1>2, <1>3, <1>4, <1>5, <1>6, <1>7, <1>8, <1>9, <1>10, <1>11, <1>12, <1>13, <1>14,
     <1>15, <1>16, <1>17 DEF Next

\* Every file, logger, database, protocol and call has its type at all times.
THEOREM TypeCorrect == Spec => []TypeOK
<1>1. ASSUME SetupInv PROVE TypeOK
  <2>1. \A d \in Databases :
           /\ database[d] \in Entries
           /\ database[d].pool <=> HasDatabase(d)
    BY <1>1, EntryFacts DEF SetupInv, ExtInv, DatabaseInv
  <2>2. database[Default] # NoEntry
    <3>1. NoEntry.type = "no entry"
      BY DEF NoEntry
    <3> QED
      BY <1>1, <3>1 DEF SetupInv, ExtInv, DatabaseInv
  <2>3. /\ threads \in 0..8 /\ (phase = "running" => threads > 0)
        /\ phase \in Phases /\ conf \in ConfMaps /\ loggers \in LoggerMaps
    BY <1>1 DEF SetupInv, StartupInv, StartupTypes
  <2>4. /\ connectors \subseteq {"mysql", "sqlite", "rcon", "steam"}
        /\ \A n \in Names : unordered_map_protocol[n] = NotLoaded
                           \/ unordered_map_protocol[n] \in Protocols
        /\ loaded \subseteq Names /\ Len(queue) <= MaxQueue
    BY <1>1 DEF SetupInv, ExtInv, DatabaseInv, RegistryInv, QueueInv
  <2>5. /\ extDB_lock \in BOOLEAN
        /\ mission \in {"none", "database", "add", "lock", "done", "failed"}
        /\ missions \in 0..MaxMissions /\ systemCalls \in 0..MaxSystemCalls
        /\ extDB_ID \in {"", SetupName}
    BY <1>1 DEF SetupInv, ExtInv, ScriptInv
  <2> QED
    BY <2>1, <2>2, <2>3, <2>4, <2>5, Zenon DEF TypeOK, ConfMaps, LoggerMaps, Phases, Entries, Protocols
<1> QED
  BY <1>1, SetupStart, SetupStep, PTL DEF Spec

\* A protocol of a database that can be called has its pool and its connector,
\* whichever DATABASE and ADD calls failed, in whatever order they came.
THEOREM ProtocolsHaveTheirDatabase == Spec => []DatabaseUsable
<1>1. ASSUME SetupInv PROVE DatabaseUsable
  <2>1. ASSUME NEW n \in Names,
               unordered_map_protocol[n].kind \in DatabaseKinds,
               unordered_map_protocol[n].state \in {"ok", "threw"}
        PROVE  /\ unordered_map_protocol[n].db \in Databases
               /\ database[unordered_map_protocol[n].db].pool
    <3>1. unordered_map_protocol[n] \in Protocols \cup {NotLoaded}
      BY <1>1 DEF SetupInv, ExtInv, RegistryInv
    <3>2. NotLoaded.kind \notin DatabaseKinds
      BY DEF NotLoaded, DatabaseKinds, Kinds
    <3> QED
      BY <1>1, <2>1, <3>1, <3>2 DEF SetupInv, ExtInv, RegistryInv, Protocols
  <2> QED
    BY <1>1, <2>1 DEF DatabaseUsable, SetupInv, ExtInv, DatabaseInv
<1> QED
  BY <1>1, SetupStart, SetupStep, PTL DEF Spec

\* The protocol a queued call was posted for stays in the map, past its init,
\* whatever is added, refused or erased while the call is queued.
THEOREM QueuedCallsFindProtocol == Spec => []CallsFindProtocol
<1>1. ASSUME SetupInv PROVE CallsFindProtocol
  <2>1. DOMAIN queue = 1..Len(queue)
    BY <1>1 DEF SetupInv, ExtInv, QueueInv
  <2> QED
    BY <1>1, <2>1 DEF SetupInv, ExtInv, QueueInv, CallsFindProtocol
<1> QED
  BY <1>1, SetupStart, SetupStep, PTL DEF Spec

\* What init.sqf remembers is true: a locked extension, the protocol of that
\* name, and its database.
THEOREM SetupStaysReady == Spec => []SetupIsReady
  BY SetupStart, SetupStep, PTL DEF Spec, SetupInv, ExtInv, ScriptInv

\* A server finds the configuration of its earlier starts, under either name.
THEOREM StartsFindConf == Spec => []EveryStartFindsConf
<1>1. SetupInv => EveryStartFindsConf
  BY StartupInvImplies DEF SetupInv
<1> QED
  BY <1>1, SetupStart, SetupStep, PTL DEF Spec
=============================================================================
