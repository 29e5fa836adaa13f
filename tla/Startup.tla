------------------------------- MODULE Startup -------------------------------
(***************************************************************************)
(* The constructor of Ext, which the server runs when it loads the         *)
(* library (main.cpp): it looks for extdb-conf.ini, registers the loggers, *)
(* starts the worker threads and, on Windows, may give the file a random   *)
(* name, which the next start has to find.  With it comes the registry of  *)
(* spdlog, where LOG protocols look for their loggers later.               *)
(***************************************************************************)
EXTENDS Naturals, Sequences

CONSTANTS
    Windows,       \* is the library built for Windows?
    InitialConfs,  \* what the directories hold at first: directory -> file
    LogFiles,      \* the names LOG protocols ask for
    Cores,         \* boost::thread::hardware_concurrency()
    MaxStarts      \* bound: starts of the server

Directories == {"dll", "current"}   \* of the library, and of the server
NoFile == [name |-> "none", threads |-> 0, async |-> FALSE, randomize |-> FALSE]

\* Main.Threads is 0 when it is not there, and a getInt that is no number throws.
NotNumber == 99
ConfFiles == [name : {"plain", "random"}, threads : Nat, async : BOOLEAN, randomize : BOOLEAN]

ASSUME StartupAssumption ==
    /\ Windows \in BOOLEAN
    /\ InitialConfs \subseteq [Directories -> ConfFiles \cup {NoFile}]
    /\ \A c \in InitialConfs, d \in Directories : c[d].name # "random"
    /\ "" \notin LogFiles
    /\ Cores \in Nat /\ MaxStarts \in Nat

VARIABLES
    phase,         \* where the constructor is; "running", or how it ended
    conf,          \* directory -> its extdb-conf file
    path,          \* extDB_info.path: where it was found, or ""
    conf_randomized,
    threads,       \* worker threads of the io_service
    async_mode,    \* of the registry
    loggers,       \* the registry: name -> [async, formatter], or NoLogger
    starts,        \* how often the server was started
    used           \* history: directories whose file a start was configured by

process == <<phase, path, conf_randomized, threads, async_mode, loggers>>
startupVars == <<process, conf, starts, used>>

SystemLoggers == <<"extDB Console logger", "extDB File Logger", "extDB vacBans Logger">>
LoggerNames == {"extDB Console logger", "extDB File Logger", "extDB vacBans Logger"} \cup LogFiles
NoLogger == [async |-> FALSE, formatter |-> "none"]

StartupInit ==
    /\ phase = "off"
    /\ conf \in InitialConfs
    /\ path = "" /\ conf_randomized = FALSE
    /\ threads = 0 /\ async_mode = FALSE
    /\ loggers = [n \in LoggerNames |-> NoLogger]
    /\ starts = 0 /\ used = {}

\* DllMain or extension_init: the process is new, and with it the registry.
Attach ==
    /\ phase \in {"off", "exited"} /\ starts < MaxStarts
    /\ starts' = starts + 1
    /\ phase' = "search"
    /\ path' = "" /\ conf_randomized' = FALSE
    /\ threads' = 0 /\ async_mode' = FALSE
    /\ loggers' = [n \in LoggerNames |-> NoLogger]
    /\ UNCHANGED <<conf, used>>

-----------------------------------------------------------------------------
(* The search.                                                             *)

\* Mutant: a file with a random name is looked for next to the library only.
SearchBeside == <<<<"dll", "plain">>, <<"current", "plain">>, <<"dll", "random">>>>
\* The order of the search; random names are for Windows.
Search ==
    <<<<"dll", "plain">>, <<"current", "plain">>>>
    \o IF Windows THEN <<<<"dll", "random">>, <<"current", "random">>>> ELSE <<>>

Hits == {i \in DOMAIN Search : conf[Search[i][1]].name = Search[i][2]}

FindConf ==
    /\ phase = "search"
    /\ \E i \in Hits :
          /\ \A j \in Hits : i <= j
          /\ path' = Search[i][1]
          /\ conf_randomized' = (Search[i][2] = "random")
    /\ phase' = "loggers"
    /\ UNCHANGED <<threads, async_mode, loggers, conf, starts, used>>

FindNothing ==
    /\ phase = "search" /\ Hits = {}
    /\ phase' = "loggers"
    /\ UNCHANGED <<path, conf_randomized, threads, async_mode, loggers, conf, starts, used>>

-----------------------------------------------------------------------------
(* Loggers.                                                                *)

\* The constructors; an async_logger starts a worker thread, see AsyncLog.
Logger(formatter) == [async |-> FALSE, formatter |-> formatter]
AsyncLogger(formatter) == [async |-> TRUE, formatter |-> formatter]

\* registry::create: a name that is known gives the logger there is, a new one
\* takes the mode and the formatter of the registry.
Create(n) ==
    LET formatter == IF phase = "loggers" THEN "default" ELSE "extDB"
    IN  IF loggers[n] # NoLogger THEN loggers
        ELSE [loggers EXCEPT ![n] = IF async_mode THEN AsyncLogger(formatter)
                                    ELSE Logger(formatter)]

Missing == {i \in DOMAIN SystemLoggers : loggers[SystemLoggers[i]] = NoLogger}

\* stdout_logger_mt, daily_logger_mt: the sink is made before the name is
\* looked up.
MakeLogger ==
    /\ phase = "loggers"
    /\ \E i \in Missing : (\A j \in Missing : i <= j) /\ loggers' = Create(SystemLoggers[i])
    /\ UNCHANGED <<phase, path, conf_randomized, threads, async_mode, conf, starts, used>>

\* The directories of the logs cannot be made, which nothing catches, or a sink
\* cannot open its file: spdlog_ex, and EXIT_FAILURE.
LoggerFails ==
    /\ phase = "loggers" /\ Missing # {}
    /\ phase' = "exited"
    /\ UNCHANGED <<path, conf_randomized, threads, async_mode, loggers, conf, starts, used>>

\* set_level and set_pattern reach every logger, then the conf is needed.
SetPattern ==
    /\ phase = "loggers" /\ Missing = {}
    /\ loggers' = [n \in LoggerNames |-> IF loggers[n] = NoLogger THEN NoLogger
                                         ELSE [loggers[n] EXCEPT !.formatter = "extDB"]]
    /\ phase' = IF path = "" THEN "exited" ELSE "threads"
    /\ UNCHANGED <<path, conf_randomized, threads, async_mode, conf, starts, used>>

-----------------------------------------------------------------------------
(* The rest of the constructor.                                            *)

\* Main.Threads up to 8, or the cores between 2 and 6.
MaxThreads(wanted, cores) ==
    IF wanted > 0 THEN IF wanted > 8 THEN 8 ELSE wanted
    ELSE IF cores > 6 THEN 6 ELSE IF cores <= 2 THEN 2 ELSE cores

StartThreads ==
    /\ phase = "threads" /\ conf[path].threads # NotNumber
    /\ threads' = MaxThreads(conf[path].threads, Cores)
    /\ phase' = "mode"
    /\ UNCHANGED <<path, conf_randomized, async_mode, loggers, conf, starts, used>>

\* Only spdlog_ex is caught, and the exception ends the server.
ThreadsThrows ==
    /\ phase = "threads" /\ conf[path].threads = NotNumber
    /\ phase' = "exited"
    /\ UNCHANGED <<path, conf_randomized, threads, async_mode, loggers, conf, starts, used>>

\* set_async_mode is for the loggers to come: those of the extension are made.
SetAsyncMode == async_mode' = TRUE

\* Log.Mode, then bercon.init and steam.init.
SetMode ==
    /\ phase = "mode"
    /\ IF conf[path].async THEN SetAsyncMode ELSE UNCHANGED async_mode
    /\ phase' = "rename"
    /\ UNCHANGED <<path, conf_randomized, threads, loggers, conf, starts, used>>

Renames == Windows /\ conf[path].randomize /\ ~conf_randomized

\* "Main.Randomize Config File": the file moves within its directory, once.
RenameConf ==
    /\ phase = "rename"
    /\ conf' = IF Renames THEN [conf EXCEPT ![path].name = "random"] ELSE conf
    /\ used' = used \cup {path}
    /\ phase' = "running"
    /\ UNCHANGED <<path, conf_randomized, threads, async_mode, loggers, starts>>

\* boost::filesystem::rename throws.
RenameThrows ==
    /\ phase = "rename" /\ Renames
    /\ phase' = "exited"
    /\ UNCHANGED <<path, conf_randomized, threads, async_mode, loggers, conf, starts, used>>

\* Ext::stop, when the library is unloaded.
Detach ==
    /\ phase = "running"
    /\ phase' = "off"
    /\ UNCHANGED <<path, conf_randomized, threads, async_mode, loggers, conf, starts, used>>

StartupNext ==
    \/ FindConf \/ FindNothing
    \/ MakeLogger \/ LoggerFails \/ SetPattern
    \/ StartThreads \/ ThreadsThrows \/ SetMode
    \/ RenameConf \/ RenameThrows

-----------------------------------------------------------------------------
\* README.md:27, "support for randomizing config file": a server that has a
\* configuration at one start has one at every later start, whatever the code
\* named it since, and while there is one file only it is the same one, so
\* logs and templates stay in the same directory.
EveryStartFindsConf ==
    /\ used # {} /\ phase \notin {"off", "search", "exited"} => path # ""
    /\ (\E d \in Directories : conf[d] = NoFile) =>
          \A d \in used : phase \notin {"off", "search", "exited"} => path = d
=============================================================================
