-------------------------------- MODULE Rcon --------------------------------
(***************************************************************************)
(* The BattlEye RCon client (bercon.cpp), how Ext uses it, and the console *)
(* program made of it, which reads commands from a file or the keyboard.   *)
(* Threads hand commands to a queue; the RCon thread logs in to the server *)
(* over UDP, sends what is queued, answers chat messages so that the       *)
(* server keeps the session, and puts multi-part replies together.         *)
(*                                                                         *)
(* Time is counted in receive timeouts (5 s).  The thread is assumed to    *)
(* run promptly: no time passes outside of receiveBytes.  The server and   *)
(* the network are external: a packet sent is answered by any of the       *)
(* packets that may come back, which may be lost, late, doubled and        *)
(* reordered.                                                              *)
(***************************************************************************)
EXTENDS Integers, Sequences, FiniteSets, SequencesExt

CONSTANTS Adders,          \* the threads that add commands
          Main,            \* the one of the console program
          MaxCommands,     \* bound: commands handed to addCommand
          MaxChats,        \* bound: chat messages of the server
          MaxFaults,       \* bound: faults of network, socket and server
          KeepAliveAfter,  \* 30 s, in receive timeouts
          ReconnectAfter   \* 45 s, in receive timeouts

ASSUME RconAssumption == /\ Main \in Adders
                         /\ KeepAliveAfter \in Nat \ {0}
                         /\ ReconnectAfter \in Nat
                         /\ KeepAliveAfter < ReconnectAfter
                         /\ MaxCommands \in Nat
                         /\ MaxChats \in Nat
                         /\ MaxFaults \in Nat

VARIABLES
    program,         \* "extDB", or "bercon" for the console program
    started,         \* extDB_connectors_info.rcon, or main has started the thread
    stopping,        \* Ext::stop or the end of main: "no", "joining" the thread, or "done"
    rcon_run_flag,
    adder,           \* thread -> the command it is adding, 0 for none
    accepted,        \* how many commands were handed to addCommand
    rcon_commands,
    locked,          \* the RCon thread holds mutex_rcon_commands
    thread,          \* where the RCon thread is
    onTimeout,       \* it is in the handler of TimeoutException
    sending,         \* the index of the command it is sending
    logged_in,
    elapsed,         \* rcon_timer
    cmdIsPassword,   \* rcon_packet.cmd is rcon_login.password
    passwordFreed,
    partCache,       \* the entry of rcon_msg_cache, or NoEntry
    sent,            \* the commands sent, in order
    session,         \* the server has accepted the login
    toClient,        \* packets on their way to the client
    chats, faults,   \* how many there have been
    broken,          \* parts of replies were lost, doubled, reordered or expired
    resent,          \* a send has failed
    history          \* [freedLogin, mixedReply]: what must not happen

extVars == <<program, started, stopping>>
queueVars == <<adder, accepted, rcon_commands>>
timerVars == <<logged_in, elapsed>>
passwordVars == <<cmdIsPassword, passwordFreed>>
netVars == <<session, toClient, chats, faults, broken>>
vars == <<extVars, rcon_run_flag, queueVars, locked, thread, onTimeout, sending,
          timerVars, passwordVars, partCache, sent, netVars, resent, history>>

Parts == 2           \* the parts of a multi-part reply
NoEntry == [count |-> 0, parts |-> <<0, 0>>]

LoginOk == [code |-> "login", ok |-> TRUE]
LoginBad == [code |-> "login", ok |-> FALSE]
Ack == [code |-> "ack"]
Part(c, n) == [code |-> "part", of |-> c, n |-> n]
Chat == [code |-> "chat"]

Init ==
    /\ program \in {"extDB", "bercon"}
    /\ started = FALSE
    /\ stopping = "no"
    /\ rcon_run_flag = FALSE
    /\ adder = [a \in Adders |-> 0]
    /\ accepted = 0
    /\ rcon_commands = <<>>
    /\ locked = FALSE
    /\ thread = "none"
    /\ onTimeout = FALSE
    /\ sending = 1
    /\ logged_in = FALSE
    /\ elapsed = 0
    /\ cmdIsPassword = FALSE
    /\ passwordFreed = FALSE
    /\ partCache = NoEntry
    /\ sent = <<>>
    /\ session = FALSE
    /\ toClient = <<>>
    /\ chats = 0
    /\ faults = 0
    /\ broken = FALSE
    /\ resent = FALSE
    /\ history = [freedLogin |-> FALSE, mixedReply |-> FALSE]

-----------------------------------------------------------------------------
(* START_RCON, commands, stop, and what main does instead *)

Start ==
    /\ ~started
    /\ stopping = "no"
    /\ started' = TRUE
    /\ thread' = "start"
    /\ UNCHANGED <<program, stopping, rcon_run_flag, queueVars, locked, onTimeout, sending,
                   timerVars, passwordVars, partCache, sent, netVars, resent, history>>

\* connectRCon; later calls are answered that RCon is started.
StartRcon == program = "extDB" /\ Start

\* main, when the options of the command line are complete.
MainStarts == program = "bercon" /\ Start

\* addCommand drops a command while the flag is FALSE, as before the login ...
BeginAdd(a) ==
    /\ adder[a] = 0
    /\ accepted < MaxCommands
    /\ started /\ rcon_run_flag
    /\ accepted' = accepted + 1
    /\ adder' = [adder EXCEPT ![a] = accepted + 1]
    /\ UNCHANGED <<extVars, rcon_run_flag, rcon_commands, locked, thread, onTimeout, sending,
                   timerVars, passwordVars, partCache, sent, netVars, resent, history>>

RconCommand(a) == program = "extDB" /\ BeginAdd(a)

\* A line of the file or of the keyboard; an empty line of a file only waits.
MainLine == program = "bercon" /\ stopping = "no" /\ BeginAdd(Main)

\* ... and queues it under the mutex.
AddCommand(a) ==
    /\ adder[a] # 0
    /\ ~locked
    /\ rcon_commands' = Append(rcon_commands, adder[a])
    /\ adder' = [adder EXCEPT ![a] = 0]
    /\ UNCHANGED <<extVars, rcon_run_flag, accepted, locked, thread, onTimeout, sending,
                   timerVars, passwordVars, partCache, sent, netVars, resent, history>>

\* disconnect.
Disconnect ==
    /\ started
    /\ stopping = "no"
    /\ rcon_run_flag' = FALSE
    /\ stopping' = "joining"
    /\ UNCHANGED <<program, started, queueVars, locked, thread, onTimeout, sending, timerVars,
                   passwordVars, partCache, sent, netVars, resent, history>>

Stop == program = "extDB" /\ Disconnect

\* The last line of the file, or "quit".
MainQuits == program = "bercon" /\ adder[Main] = 0 /\ Disconnect

\* There is no such file: main returns, and the thread is gone with the process.
MainNoFile ==
    /\ program = "bercon" /\ started /\ stopping = "no"
    /\ accepted = 0
    /\ stopping' = "done"
    /\ thread' = "killed"
    /\ UNCHANGED <<program, started, rcon_run_flag, queueVars, locked, onTimeout, sending,
                   timerVars, passwordVars, partCache, sent, netVars, resent, history>>

StopJoined ==
    /\ stopping = "joining"
    /\ thread = "ended"
    /\ stopping' = "done"
    /\ UNCHANGED <<program, started, rcon_run_flag, queueVars, locked, thread, onTimeout, sending,
                   timerVars, passwordVars, partCache, sent, netVars, resent, history>>

-----------------------------------------------------------------------------
(* The RCon thread: run, connect, mainLoop *)

\* What may come back: nothing when the packet or its answer is lost.
Answers(packets) == toClient' \in {toClient} \cup {toClient \o p : p \in packets}
Fault == /\ faults < MaxFaults
         /\ faults' = faults + 1
SendFails == Fault /\ resent' = TRUE

\* run: the address cannot be used.
SocketFails ==
    /\ thread = "start"
    /\ Fault
    /\ thread' = "ended"
    /\ UNCHANGED <<extVars, rcon_run_flag, queueVars, locked, onTimeout, sending, timerVars,
                   passwordVars, partCache, sent, session, toClient, chats, broken, resent, history>>

\* connect, from run and from the reconnect: a send that fails throws out of
\* either and ends the thread with the flag set.
Connect ==
    /\ thread \in {"start", "reconnect"}
    /\ logged_in' = FALSE
    /\ rcon_run_flag' = TRUE
    /\ cmdIsPassword' = TRUE
    /\ history' = [history EXCEPT !.freedLogin = @ \/ passwordFreed]
    /\ \/ /\ thread' = "receive"
          /\ \/ /\ session' = TRUE
                /\ Answers({<<LoginOk>>})
             \/ /\ Answers({<<LoginBad>>})
                /\ UNCHANGED session
          /\ UNCHANGED <<faults, resent>>
       \/ /\ thread' = "ended"
          /\ SendFails
          /\ UNCHANGED <<session, toClient>>
    /\ UNCHANGED <<extVars, queueVars, locked, onTimeout, sending, elapsed, passwordFreed,
                   partCache, sent, chats, broken>>

\* receiveBytes returns a packet after less than 5 s.
Arrives(code) ==
    /\ thread = "receive"
    /\ toClient # <<>>
    /\ Head(toClient).code = code
    /\ toClient' = Tail(toClient)

Waited == elapsed' \in {elapsed, elapsed + 1} /\ elapsed' <= ReconnectAfter

\* Mutant: the timer goes on.
RestartNever == Waited
\* rcon_timer.restart(), after a packet of the session.
Restart == elapsed' = 0

\* After a packet: flush when logged in, then look at the run flag.
AfterPacket(in) == thread' = IF in THEN "flush" ELSE "check"

LoggedIn ==
    /\ Arrives("login")
    /\ Head(toClient).ok
    /\ logged_in' = TRUE
    /\ Restart
    /\ AfterPacket(TRUE)
    /\ UNCHANGED <<extVars, rcon_run_flag, queueVars, locked, onTimeout, sending, passwordVars,
                   partCache, sent, session, chats, faults, broken, resent, history>>

LoginFailed ==
    /\ Arrives("login")
    /\ ~Head(toClient).ok
    /\ logged_in' = FALSE
    /\ rcon_run_flag' = FALSE
    /\ thread' = "ended"
    /\ UNCHANGED <<extVars, queueVars, locked, onTimeout, sending, elapsed, passwordVars,
                   partCache, sent, session, chats, faults, broken, resent, history>>

\* Acknowledgements and parts are looked at, and restart the timer, only when
\* the client knows that it is logged in.
Ignore ==
    /\ Arrives("ack") \/ Arrives("part")
    /\ ~logged_in
    /\ Waited
    /\ broken' = (broken \/ Head(toClient).code = "part")
    /\ AfterPacket(FALSE)
    /\ UNCHANGED <<extVars, rcon_run_flag, queueVars, locked, onTimeout, sending, logged_in,
                   passwordVars, partCache, sent, session, chats, faults, resent, history>>

ServerAck ==
    /\ Arrives("ack")
    /\ logged_in
    /\ Restart
    /\ AfterPacket(TRUE)
    /\ UNCHANGED <<extVars, rcon_run_flag, queueVars, locked, onTimeout, sending, logged_in,
                   passwordVars, partCache, sent, session, chats, faults, broken, resent, history>>

\* The entry counts packets; every command has sequence number 0, so there is
\* one entry for all.  With the count complete the parts are joined.
Counted(p) == [count |-> partCache.count + 1, parts |-> [partCache.parts EXCEPT ![p.n] = p.of]]

\* Mutant: the last part is not waited for.
CompleteEarly(entry) == entry.count = Parts - 1
Complete(entry) == partCache # NoEntry /\ entry.count = Parts

MultiPart ==
    /\ Arrives("part")
    /\ logged_in
    /\ Restart
    /\ LET entry == Counted(Head(toClient))
       IN  IF Complete(entry)
           THEN /\ partCache' = NoEntry
                /\ history' = [history EXCEPT !.mixedReply =
                                  @ \/ \E n \in 1..Parts : entry.parts[n] # entry.parts[1]]
           ELSE /\ partCache' = entry
                /\ UNCHANGED history
    /\ AfterPacket(TRUE)
    /\ UNCHANGED <<extVars, rcon_run_flag, queueVars, locked, onTimeout, sending, logged_in,
                   passwordVars, sent, session, chats, faults, broken, resent>>

\* A chat message tells that the login was accepted; later ones are answered.
ChatMessage ==
    /\ Arrives("chat")
    /\ logged_in' = TRUE
    /\ \/ /\ Restart
          /\ AfterPacket(TRUE)
          /\ UNCHANGED <<rcon_run_flag, faults, resent>>
       \/ /\ logged_in
          /\ SendFails
          /\ rcon_run_flag' = FALSE
          /\ UNCHANGED <<elapsed, thread>>
    /\ UNCHANGED <<extVars, queueVars, locked, onTimeout, sending, passwordVars, partCache,
                   sent, session, chats, broken, history>>

\* ConnectionRefusedException and other errors of the socket.
ReceiveFails ==
    /\ thread = "receive"
    /\ Fault
    /\ Waited
    /\ rcon_run_flag' = FALSE
    /\ UNCHANGED <<extVars, queueVars, locked, thread, onTimeout, sending, logged_in,
                   passwordVars, partCache, sent, session, toClient, chats, broken, resent, history>>

\* Mutant: the handler of the timeout does not look at the flag.
EndsOnTimeoutNever == FALSE
EndsOnTimeout == ~rcon_run_flag

\* Nothing came for 5 s, as when the network delays what is on its way.
Timeout ==
    /\ thread = "receive"
    /\ IF toClient = <<>> THEN UNCHANGED faults ELSE Fault
    /\ elapsed' = IF elapsed < ReconnectAfter THEN elapsed + 1 ELSE elapsed
    /\ onTimeout' = ~EndsOnTimeout
    /\ thread' = IF EndsOnTimeout THEN "ended" ELSE "timeout"
    /\ UNCHANGED <<extVars, rcon_run_flag, queueVars, locked, sending, logged_in,
                   passwordVars, partCache, sent, session, toClient, chats, broken, resent, history>>

\* An exception of keepAlive leaves the handler, and with it the thread.
KeepAlive ==
    /\ thread = "timeout"
    /\ elapsed >= KeepAliveAfter
    /\ elapsed < ReconnectAfter
    /\ elapsed' = 0
    /\ onTimeout' = FALSE
    /\ \/ /\ thread' = "receive"
          /\ Answers(IF session THEN {<<Ack>>} ELSE {})
          /\ UNCHANGED <<faults, resent>>
       \/ /\ thread' = "ended"
          /\ SendFails
          /\ UNCHANGED toClient
    /\ UNCHANGED <<extVars, rcon_run_flag, queueVars, locked, sending, logged_in,
                   passwordVars, partCache, sent, session, chats, broken, history>>

Reconnect ==
    /\ thread = "timeout"
    /\ elapsed >= ReconnectAfter
    /\ elapsed' = 0
    /\ onTimeout' = FALSE
    /\ thread' = "reconnect"
    /\ UNCHANGED <<extVars, rcon_run_flag, queueVars, locked, sending, logged_in,
                   passwordVars, partCache, sent, netVars, resent, history>>

EarlyTimeout ==
    /\ thread = "timeout"
    /\ elapsed < KeepAliveAfter
    /\ onTimeout' = logged_in
    /\ thread' = IF logged_in THEN "flush" ELSE "receive"
    /\ UNCHANGED <<extVars, rcon_run_flag, queueVars, locked, sending, timerVars,
                   passwordVars, partCache, sent, netVars, resent, history>>

-----------------------------------------------------------------------------
(* Sending what is queued, with the mutex locked *)

FlushBegins ==
    /\ thread = "flush"
    /\ ~locked
    /\ locked' = TRUE
    /\ sending' = 1
    /\ thread' = "send"
    /\ UNCHANGED <<extVars, rcon_run_flag, queueVars, onTimeout, timerVars, passwordVars,
                   partCache, sent, netVars, resent, history>>

\* The buffer of the packet is replaced: the first command frees the password.
NextPacket == /\ passwordFreed' = (passwordFreed \/ cmdIsPassword)
              /\ cmdIsPassword' = FALSE

SendCommand ==
    /\ thread = "send"
    /\ sending <= Len(rcon_commands)
    /\ NextPacket
    /\ sent' = Append(sent, rcon_commands[sending])
    /\ sending' = sending + 1
    /\ LET c == rcon_commands[sending]
       IN  Answers(IF session THEN {<<Ack>>, <<Part(c, 1), Part(c, 2)>>} ELSE {})
    /\ UNCHANGED <<extVars, rcon_run_flag, queueVars, locked, thread, onTimeout, timerVars,
                   partCache, session, chats, faults, broken, resent, history>>

\* The commands stay queued.  After a packet the exception is caught; in the
\* handler of the timeout it ends the thread.
SendCommandFails ==
    /\ thread = "send"
    /\ sending <= Len(rcon_commands)
    /\ NextPacket
    /\ SendFails
    /\ locked' = FALSE
    /\ IF onTimeout THEN thread' = "ended" /\ UNCHANGED rcon_run_flag
                    ELSE thread' = "receive" /\ rcon_run_flag' = FALSE
    /\ onTimeout' = FALSE
    /\ UNCHANGED <<extVars, queueVars, sending, timerVars, partCache, sent, session,
                   toClient, chats, broken, history>>

\* Mutant: the commands stay queued.
ClearedNot == rcon_commands
\* rcon_commands.clear().
Cleared == <<>>

FlushEnds ==
    /\ thread = "send"
    /\ sending > Len(rcon_commands)
    /\ rcon_commands' = Cleared
    /\ locked' = FALSE
    /\ thread' = IF onTimeout THEN "receive" ELSE "check"
    /\ onTimeout' = FALSE
    /\ sending' = 1
    /\ UNCHANGED <<extVars, rcon_run_flag, adder, accepted, timerVars, passwordVars,
                   partCache, sent, netVars, resent, history>>

CheckFlag ==
    /\ thread = "check"
    /\ thread' = IF ~rcon_run_flag /\ rcon_commands = <<>> THEN "ended" ELSE "receive"
    /\ UNCHANGED <<extVars, rcon_run_flag, queueVars, locked, onTimeout, sending, timerVars,
                   passwordVars, partCache, sent, netVars, resent, history>>

-----------------------------------------------------------------------------
(* The server and the network; the two minutes of the cache *)

ServerChats ==
    /\ session
    /\ chats < MaxChats
    /\ chats' = chats + 1
    /\ toClient' = Append(toClient, Chat)
    /\ UNCHANGED <<extVars, rcon_run_flag, queueVars, locked, thread, onTimeout, sending,
                   timerVars, passwordVars, partCache, sent, session, faults, broken, resent, history>>

NetworkFails ==
    /\ Fault
    /\ \E i \in DOMAIN toClient :
          /\ \/ toClient' = RemoveAt(toClient, i)
             \/ toClient' = Append(toClient, toClient[i])
             \/ toClient' = Append(RemoveAt(toClient, i), toClient[i])
          /\ broken' = (broken \/ toClient[i].code = "part")
    /\ UNCHANGED <<extVars, rcon_run_flag, queueVars, locked, thread, onTimeout, sending,
                   timerVars, passwordVars, partCache, sent, session, chats, resent, history>>

EntryExpires ==
    /\ partCache # NoEntry
    /\ Fault
    /\ partCache' = NoEntry
    /\ broken' = TRUE
    /\ UNCHANGED <<extVars, rcon_run_flag, queueVars, locked, thread, onTimeout, sending,
                   timerVars, passwordVars, sent, session, toClient, chats, resent, history>>

-----------------------------------------------------------------------------
Receive == LoggedIn \/ LoginFailed \/ Ignore \/ ServerAck \/ MultiPart \/ ChatMessage

Run == \/ Connect \/ Receive \/ Timeout \/ KeepAlive \/ Reconnect \/ EarlyTimeout
       \/ FlushBegins \/ SendCommand \/ FlushEnds \/ CheckFlag

Next == \/ StartRcon \/ MainStarts
        \/ \E a \in Adders : RconCommand(a) \/ AddCommand(a)
        \/ MainLine
        \/ Stop \/ MainQuits \/ MainNoFile
        \/ StopJoined
        \/ Run
        \/ SocketFails
        \/ ReceiveFails
        \/ SendCommandFails
        \/ ServerChats
        \/ NetworkFails
        \/ EntryExpires

Spec == Init /\ [][Next]_vars

\* The operating system runs the RCon thread, and the threads between the two
\* halves of addCommand.
FairSpec == /\ Spec
            /\ WF_vars(Run)
            /\ \A a \in Adders : WF_vars(AddCommand(a))
            /\ WF_vars(StopJoined)

-----------------------------------------------------------------------------
(* Properties *)

\* No command was sent twice.
SentOnce == \A i, j \in DOMAIN sent : i # j => sent[i] # sent[j]

\* While no send fails, no command is sent twice; each that was handed over is
\* sent, queued or about to be queued; and the queued ones that were sent are
\* those a flush has come past, so that the clear that ends it drops no other,
\* whatever threads queue in the meantime.
NothingLostInFlush ==
    ~resent =>
        /\ SentOnce
        /\ \A c \in 1..accepted :
              \/ Contains(sent, c)
              \/ Contains(rcon_commands, c)
              \/ \E a \in Adders : adder[a] = c
        /\ \A i \in DOMAIN rcon_commands :
              Contains(sent, rcon_commands[i]) <=> thread = "send" /\ i < sending

\* connect sends the password from the buffer that sending commands frees: no
\* login packet is made of freed memory, because a client that has been logged
\* in never waits 45 s without its timer being restarted.
PasswordAlive == ~history.freedLogin

\* A reply put together from parts is the reply to one command, unless packets
\* were lost, doubled or reordered, or half a reply expired.
RepliesNotMixed == history.mixedReply => broken

\* connect sets the run flag, whether stop has cleared it or not.
AboutToConnect == \/ thread \in {"start", "reconnect"}
                  \/ thread = "timeout" /\ elapsed >= ReconnectAfter

\* A stop that does not come just before a connect ends the thread.
StopEnds == (stopping = "joining" /\ ~rcon_run_flag /\ ~AboutToConnect) ~> (thread = "ended")
=============================================================================
