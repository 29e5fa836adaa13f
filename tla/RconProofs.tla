----------------------------- MODULE RconProofs -----------------------------
(* Theorems about Rcon: for any number of commands, faults and threads, and  *)
(* any two intervals, no login packet is made of the freed password.         *)
EXTENDS Rcon, SequenceTheorems, TLAPS

\* There is no thread before the start.  Commands are sent by a client that is
\* logged in, before the time of the keep alive.
SendsInTime ==
    /\ ~started => thread = "none" /\ ~passwordFreed
    /\ thread \in {"flush", "send"} => logged_in /\ elapsed < KeepAliveAfter

\* Once a command was sent the client stays logged in, and its thread gets to
\* a timeout with the flag set no later than at the time of the keep alive.
NeverReconnects ==
    passwordFreed =>
        /\ thread \notin {"none", "start", "reconnect"}
        /\ logged_in \/ thread \in {"ended", "killed"}
        /\ thread \in {"receive", "check"} => elapsed < KeepAliveAfter \/ ~rcon_run_flag
        /\ thread = "timeout" => elapsed <= KeepAliveAfter

TimerTypes ==
    /\ elapsed \in Nat
    /\ logged_in \in BOOLEAN
    /\ rcon_run_flag \in BOOLEAN
    /\ passwordFreed \in BOOLEAN
    /\ history \in [freedLogin : BOOLEAN, mixedReply : BOOLEAN]

TimerInv == TimerTypes /\ SendsInTime /\ NeverReconnects /\ PasswordAlive

timerState == <<started, thread, logged_in, elapsed, rcon_run_flag, passwordFreed, history>>

LEMMA TimerStart == ASSUME Init PROVE TimerInv
  BY DEF Init, TimerInv, TimerTypes, SendsInTime, NeverReconnects, PasswordAlive

LEMMA TimerUnchanged == ASSUME TimerInv, UNCHANGED timerState PROVE TimerInv'
  BY DEF timerState, TimerInv, TimerTypes, SendsInTime, NeverReconnects, PasswordAlive

\* What the other threads do: they may clear the flag, and start the thread once.
LEMMA OthersKeepTimer ==
    ASSUME TimerInv,
           \/ StartRcon \/ MainStarts
           \/ \E a \in Adders : RconCommand(a) \/ AddCommand(a)
           \/ MainLine
           \/ Stop \/ MainQuits \/ MainNoFile
           \/ StopJoined
           \/ ServerChats
           \/ NetworkFails
           \/ EntryExpires
    PROVE  TimerInv'
  <1> USE DEF extVars, queueVars, timerVars, passwordVars, netVars
  <1>1. CASE StartRcon \/ MainStarts
    BY <1>1 DEF StartRcon, MainStarts, Start, TimerInv, TimerTypes, SendsInTime,
                NeverReconnects, PasswordAlive
  <1>2. CASE \E a \in Adders : RconCommand(a) \/ AddCommand(a)
    BY <1>2, TimerUnchanged DEF RconCommand, BeginAdd, AddCommand, timerState
  <1>3. CASE MainLine
    BY <1>3, TimerUnchanged DEF MainLine, BeginAdd, timerState
  <1>4. CASE Stop \/ MainQuits
    <2>1. rcon_run_flag' = FALSE /\ started
          /\ UNCHANGED <<started, thread, logged_in, elapsed, passwordFreed, history>>
      BY <1>4 DEF Stop, MainQuits, Disconnect
    <2>2. rcon_run_flag' \in BOOLEAN /\ ~rcon_run_flag'
      BY <2>1
    <2> QED
      BY <2>1, <2>2 DEF TimerInv, TimerTypes, SendsInTime, NeverReconnects, PasswordAlive
  <1>5. CASE MainNoFile
    BY <1>5 DEF MainNoFile, TimerInv, TimerTypes, SendsInTime, NeverReconnects, PasswordAlive
  <1>6. CASE StopJoined
    BY <1>6, TimerUnchanged DEF StopJoined, timerState
  <1>7. CASE ServerChats \/ NetworkFails \/ EntryExpires
    BY <1>7, TimerUnchanged DEF ServerChats, NetworkFails, EntryExpires, Fault, timerState
  <1> QED BY <1>1, <1>2, <1>3, <1>4, <1>5, <1>6, <1>7

\* connect runs with the flag of the buffer still clear.
LEMMA ConnectKeepsTimer == ASSUME TimerInv, Connect \/ SocketFails PROVE TimerInv'
  <1> USE DEF extVars, queueVars, timerVars, passwordVars, netVars
  <1>1. CASE Connect
    <2>1. ~passwordFreed /\ UNCHANGED <<passwordFreed, started, elapsed>>
      BY <1>1 DEF Connect, TimerInv, TimerTypes, NeverReconnects
    <2>2. thread # "none" /\ thread' \in {"receive", "ended"} /\ logged_in' = FALSE /\ rcon_run_flag' = TRUE
      BY <1>1 DEF Connect
    <2>3. history' = [history EXCEPT !.freedLogin = history.freedLogin \/ passwordFreed]
      BY <1>1 DEF Connect
    <2>4. history' \in [freedLogin : BOOLEAN, mixedReply : BOOLEAN] /\ ~history'.freedLogin
      BY <2>1, <2>3 DEF TimerInv, TimerTypes, PasswordAlive
    <2> QED
      BY <2>1, <2>2, <2>4 DEF TimerInv, TimerTypes, SendsInTime, NeverReconnects, PasswordAlive
  <1>2. CASE SocketFails
    BY <1>2 DEF SocketFails, Fault, TimerInv, TimerTypes, SendsInTime, NeverReconnects,
                PasswordAlive
  <1> QED BY <1>1, <1>2

\* A packet restarts the timer of a client that is logged in.
LEMMA PacketKeepsTimer == ASSUME TimerInv, Receive PROVE TimerInv'
  <1> USE RconAssumption DEF extVars, queueVars, timerVars, passwordVars, netVars, Arrives,
          AfterPacket, Restart
  <1>1. CASE LoggedIn
    BY <1>1 DEF LoggedIn, TimerInv, TimerTypes, SendsInTime, NeverReconnects, PasswordAlive
  <1>2. CASE LoginFailed
    BY <1>2 DEF LoginFailed, TimerInv, TimerTypes, SendsInTime, NeverReconnects, PasswordAlive
  <1>3. CASE Ignore
    <2>1. ~passwordFreed /\ UNCHANGED passwordFreed
      BY <1>3 DEF Ignore, TimerInv, TimerTypes, NeverReconnects
    <2>2. thread = "receive" /\ thread' = "check"
          /\ UNCHANGED <<started, logged_in, rcon_run_flag, history>>
      BY <1>3 DEF Ignore
    <2>3. elapsed' \in Nat
      BY <1>3 DEF Ignore, Waited, TimerInv, TimerTypes
    <2> QED
      BY <2>1, <2>2, <2>3 DEF TimerInv, TimerTypes, SendsInTime, NeverReconnects, PasswordAlive
  <1>4. CASE ServerAck
    BY <1>4 DEF ServerAck, TimerInv, TimerTypes, SendsInTime, NeverReconnects, PasswordAlive
  <1>5. CASE MultiPart
    <2>1. thread' = "flush" /\ elapsed' = 0 /\ logged_in /\ thread = "receive"
          /\ UNCHANGED <<started, logged_in, rcon_run_flag, passwordFreed>>
      BY <1>5 DEF MultiPart
    <2>2. \/ UNCHANGED history
          \/ \E b \in BOOLEAN : history' = [history EXCEPT !.mixedReply = b]
      <3> DEFINE mixed == history.mixedReply \/ \E n \in 1..Parts :
                    Counted(Head(toClient)).parts[n] # Counted(Head(toClient)).parts[1]
      <3>1. \/ UNCHANGED history
            \/ history' = [history EXCEPT !.mixedReply = mixed]
        BY <1>5 DEF MultiPart
      <3>2. mixed \in BOOLEAN
        BY DEF TimerInv, TimerTypes
      <3> QED BY <3>1, <3>2
    <2>3. history' \in [freedLogin : BOOLEAN, mixedReply : BOOLEAN]
          /\ history'.freedLogin = history.freedLogin
      BY <2>2 DEF TimerInv, TimerTypes
    <2> QED
      BY <2>1, <2>3 DEF TimerInv, TimerTypes, SendsInTime, NeverReconnects, PasswordAlive
  <1>6. CASE ChatMessage
    <2>1. thread = "receive" /\ logged_in' = TRUE
          /\ UNCHANGED <<started, passwordFreed, history>>
      BY <1>6 DEF ChatMessage
    <2>2. CASE thread' = "flush" /\ elapsed' = 0 /\ UNCHANGED rcon_run_flag
      BY <2>1, <2>2 DEF TimerInv, TimerTypes, SendsInTime, NeverReconnects, PasswordAlive
    <2>3. CASE rcon_run_flag' = FALSE /\ UNCHANGED <<elapsed, thread>>
      <3>1. rcon_run_flag' \in BOOLEAN /\ ~rcon_run_flag'
        BY <2>3
      <3> QED
        BY <2>1, <2>3, <3>1 DEF TimerInv, TimerTypes, SendsInTime, NeverReconnects, PasswordAlive
    <2> QED BY <1>6, <2>2, <2>3 DEF ChatMessage
  <1> QED BY <1>1, <1>2, <1>3, <1>4, <1>5, <1>6 DEF Receive

\* What happens without a packet: a timeout ends the thread when the flag is
\* clear, and is at most one later than a time before the keep alive.
LEMMA TimeoutKeepsTimer ==
    ASSUME TimerInv, ReceiveFails \/ Timeout \/ KeepAlive \/ Reconnect \/ EarlyTimeout
    PROVE  TimerInv'
  <1> USE RconAssumption DEF extVars, queueVars, timerVars, passwordVars, netVars
  <1>1. CASE ReceiveFails
    <2>1. rcon_run_flag' = FALSE /\ thread = "receive"
          /\ UNCHANGED <<started, thread, logged_in, passwordFreed, history>>
      BY <1>1 DEF ReceiveFails
    <2>2. rcon_run_flag' \in BOOLEAN /\ ~rcon_run_flag'
      BY <2>1
    <2>3. elapsed' \in Nat
      BY <1>1 DEF ReceiveFails, Waited, TimerInv, TimerTypes
    <2> QED
      BY <2>1, <2>2, <2>3 DEF TimerInv, TimerTypes, SendsInTime, NeverReconnects, PasswordAlive
  <1>2. CASE Timeout
    BY <1>2 DEF Timeout, EndsOnTimeout, TimerInv, TimerTypes, SendsInTime, NeverReconnects,
                PasswordAlive
  <1>3. CASE KeepAlive
    BY <1>3 DEF KeepAlive, SendFails, Fault, TimerInv, TimerTypes, SendsInTime,
                NeverReconnects, PasswordAlive
  <1>4. CASE Reconnect
    BY <1>4 DEF Reconnect, TimerInv, TimerTypes, SendsInTime, NeverReconnects, PasswordAlive
  <1>5. CASE EarlyTimeout
    BY <1>5 DEF EarlyTimeout, TimerInv, TimerTypes, SendsInTime, NeverReconnects, PasswordAlive
  <1> QED BY <1>1, <1>2, <1>3, <1>4, <1>5

\* Sending takes no time, and happens in time.
LEMMA FlushKeepsTimer ==
    ASSUME TimerInv, FlushBegins \/ SendCommand \/ SendCommandFails \/ FlushEnds \/ CheckFlag
    PROVE  TimerInv'
  <1> USE RconAssumption DEF extVars, queueVars, timerVars, passwordVars, netVars, NextPacket
  <1>1. CASE FlushBegins
    BY <1>1 DEF FlushBegins, TimerInv, TimerTypes, SendsInTime, NeverReconnects, PasswordAlive
  <1>2. CASE SendCommand
    <2>1. thread = "send" /\ passwordFreed' \in BOOLEAN
          /\ UNCHANGED <<started, thread, logged_in, elapsed, rcon_run_flag, history>>
      BY <1>2 DEF SendCommand, TimerInv, TimerTypes
    <2> QED BY <2>1 DEF TimerInv, TimerTypes, SendsInTime, NeverReconnects, PasswordAlive
  <1>3. CASE SendCommandFails
    BY <1>3 DEF SendCommandFails, SendFails, Fault, TimerInv, TimerTypes, SendsInTime,
                NeverReconnects, PasswordAlive
  <1>4. CASE FlushEnds
    BY <1>4 DEF FlushEnds, TimerInv, TimerTypes, SendsInTime, NeverReconnects, PasswordAlive
  <1>5. CASE CheckFlag
    BY <1>5 DEF CheckFlag, TimerInv, TimerTypes, SendsInTime, NeverReconnects, PasswordAlive
  <1> QED BY <1>1, <1>2, <1>3, <1>4, <1>5

LEMMA TimerStep == ASSUME TimerInv, [Next]_vars PROVE TimerInv'
  <1>1. CASE UNCHANGED vars
    BY <1>1, TimerUnchanged DEF vars, extVars, timerVars, passwordVars, timerState
  <1> QED
    BY <1>1, OthersKeepTimer, ConnectKeepsTimer, PacketKeepsTimer, TimeoutKeepsTimer,
       FlushKeepsTimer DEF Next, Run

\* No login packet is made of the freed password, for every number of commands,
\* chat messages and faults, and whichever the two intervals are, as long as
\* the keep alive comes before the reconnect.
THEOREM PasswordStaysAlive == Spec => []PasswordAlive
  <1>1. TimerInv => PasswordAlive
    BY DEF TimerInv
  <1> QED
    BY <1>1, TimerStart, TimerStep, PTL DEF Spec
-----------------------------------------------------------------------------
(* The commands.                                                           *)

QueueTypes ==
    /\ accepted \in Nat
    /\ adder \in [Adders -> 0..accepted]
    /\ rcon_commands \in Seq(1..accepted)
    /\ sent \in Seq(1..accepted)
    /\ sending \in Nat \ {0}
    /\ thread = "send" => locked /\ sending <= Len(rcon_commands) + 1

\* How far into the queue the flush is that is going on.
Passed == IF thread = "send" THEN sending - 1 ELSE 0

\* A command is at one place: with the thread that adds it, in the queue, or
\* among those sent, where the flush also leaves it in the queue.
OnePlace ==
    /\ \A i, j \in 1..Len(rcon_commands) : i # j => rcon_commands[i] # rcon_commands[j]
    /\ \A i, j \in 1..Len(sent) : i # j => sent[i] # sent[j]
    /\ \A a, b \in Adders : adder[a] # 0 /\ adder[a] = adder[b] => a = b
    /\ \A a \in Adders : adder[a] # 0 =>
          /\ \A i \in 1..Len(rcon_commands) : rcon_commands[i] # adder[a]
          /\ \A i \in 1..Len(sent) : sent[i] # adder[a]
    /\ \A i \in 1..Len(rcon_commands) :
          i <= Passed <=> \E j \in 1..Len(sent) : sent[j] = rcon_commands[i]

SomePlace ==
    \A c \in 1..accepted :
       \/ \E i \in 1..Len(sent) : sent[i] = c
       \/ \E i \in 1..Len(rcon_commands) : rcon_commands[i] = c
       \/ \E a \in Adders : adder[a] = c

QueueInv == QueueTypes /\ (~resent => OnePlace /\ SomePlace)

-----------------------------------------------------------------------------
(* The parts of replies.                                                   *)

Packets == {LoginOk, LoginBad, Ack, Chat} \cup [code : {"part"}, of : Nat, n : 1..Parts]

Half(c) == [count |-> 1, parts |-> <<c, 0>>]

\* The parts of a reply follow one another, but for those that the client has.
Together(packets, cache) ==
    /\ \A i \in 1..Len(packets) : packets[i].code = "part" /\ packets[i].n = 1 =>
          i < Len(packets) /\ packets[i + 1] = Part(packets[i].of, 2)
    /\ \A i \in 1..Len(packets) : packets[i].code = "part" /\ packets[i].n = 2 =>
          \/ i > 1 /\ packets[i - 1] = Part(packets[i].of, 1)
          \/ i = 1 /\ cache = Half(packets[1].of)
    /\ \/ cache = NoEntry
       \/ /\ packets # <<>>
          /\ packets[1].code = "part" /\ packets[1].n = 2
          /\ cache = Half(packets[1].of)

PartsTogether == Together(toClient, partCache) /\ ~history.mixedReply

PartsInv == toClient \in Seq(Packets) /\ (~broken => PartsTogether)

-----------------------------------------------------------------------------
(* Commands: one lemma for each step that moves one.                       *)

LEMMA QueueStart == ASSUME Init PROVE QueueInv
<1>1. /\ accepted = 0 /\ adder = [a \in Adders |-> 0] /\ rcon_commands = <<>> /\ sent = <<>>
      /\ sending = 1 /\ thread = "none"
  BY DEF Init
<1>2. QueueTypes
  BY <1>1 DEF QueueTypes
<1>3. OnePlace /\ SomePlace
  BY <1>1 DEF OnePlace, SomePlace
<1> QED
  BY <1>2, <1>3 DEF QueueInv

\* The steps that move no command.
LEMMA QueueElsewhere ==
    ASSUME QueueInv, UNCHANGED <<accepted, adder, rcon_commands, sent, sending, locked>>,
           thread' = thread \/ (thread # "send" /\ thread' # "send"),
           resent' = resent \/ resent' = TRUE
    PROVE  QueueInv'
<1>1. QueueTypes'
  BY DEF QueueInv, QueueTypes
<1>2. Passed' = Passed
  BY DEF Passed
<1>3. ~resent' => ~resent
  OBVIOUS
<1> QED
  BY <1>1, <1>2, <1>3 DEF QueueInv, OnePlace, SomePlace

\* main that ends without its file had no commands.
LEMMA MainNoFileKeepsQueue == ASSUME QueueInv, MainNoFile PROVE QueueInv'
<1>1. /\ accepted = 0 /\ thread' = "killed"
      /\ UNCHANGED <<accepted, adder, rcon_commands, sent, sending, locked, resent>>
  BY DEF MainNoFile, queueVars
<1>2. QueueTypes'
  BY <1>1 DEF QueueInv, QueueTypes
<1>3. Len(rcon_commands) = 0 /\ Len(sent) = 0
  <2>1. rcon_commands \in Seq({}) /\ sent \in Seq({})
    BY <1>1 DEF QueueInv, QueueTypes
  <2> QED
    BY <2>1
<1>4. ~resent => OnePlace' /\ SomePlace'
  BY <1>1, <1>3 DEF QueueInv, QueueTypes, OnePlace, SomePlace
<1> QED
  BY <1>1, <1>2, <1>4 DEF QueueInv

\* A new command is with its thread.
LEMMA BeginAddKeepsQueue ==
    ASSUME QueueInv, NEW a \in Adders, BeginAdd(a)
    PROVE  QueueInv'
<1>1. /\ adder[a] = 0 /\ accepted' = accepted + 1
      /\ adder' = [adder EXCEPT ![a] = accepted + 1]
      /\ UNCHANGED <<rcon_commands, sent, sending, locked, thread, resent>>
  BY DEF BeginAdd
<1>2. /\ accepted \in Nat /\ adder \in [Adders -> 0..accepted]
      /\ rcon_commands \in Seq(1..accepted) /\ sent \in Seq(1..accepted)
      /\ sending \in Nat \ {0}
      /\ thread = "send" => locked /\ sending <= Len(rcon_commands) + 1
  BY DEF QueueInv, QueueTypes
<1>3. 0..accepted \subseteq 0..accepted + 1 /\ 1..accepted \subseteq 1..accepted + 1
  BY <1>2
<1>4. adder' \in [Adders -> 0..accepted + 1]
  BY <1>1, <1>2, <1>3
<1>5. rcon_commands \in Seq(1..accepted + 1) /\ sent \in Seq(1..accepted + 1)
  BY <1>2, <1>3
<1>6. QueueTypes'
  BY <1>1, <1>2, <1>4, <1>5 DEF QueueTypes
<1>7. Passed' = Passed
  BY <1>1 DEF Passed
<1>8. /\ \A b \in Adders : adder'[b] = IF b = a THEN accepted + 1 ELSE adder[b]
      /\ \A b \in Adders : adder[b] # accepted + 1
      /\ \A i \in 1..Len(rcon_commands) : rcon_commands[i] # accepted + 1
      /\ \A i \in 1..Len(sent) : sent[i] # accepted + 1
      /\ \A c \in 1..accepted + 1 : c \in 1..accepted \/ c = accepted + 1
  BY <1>1, <1>2
<1>9. OnePlace => OnePlace'
  BY <1>1, <1>7, <1>8 DEF OnePlace
<1>10. SomePlace => SomePlace'
  <2>1. ASSUME SomePlace, NEW c \in 1..accepted + 1, c # accepted + 1
        PROVE  \/ \E i \in 1..Len(sent) : sent[i] = c
               \/ \E i \in 1..Len(rcon_commands) : rcon_commands[i] = c
               \/ \E b \in Adders : adder[b] = c /\ c # 0
    BY <1>2, <1>8, <2>1 DEF SomePlace
  <2>2. ASSUME NEW b \in Adders, adder[b] # 0 PROVE adder'[b] = adder[b]
    BY <1>1, <1>8, <2>2
  <2>3. adder'[a] = accepted + 1
    BY <1>8
  <2> QED
    BY <1>1, <2>1, <2>2, <2>3 DEF SomePlace
<1> QED
  BY <1>1, <1>6, <1>9, <1>10 DEF QueueInv

\* A command goes from its thread to the end of the queue, not during a flush.
LEMMA AddCommandKeepsQueue ==
    ASSUME QueueInv, NEW a \in Adders, AddCommand(a)
    PROVE  QueueInv'
<1>1. /\ adder[a] # 0 /\ ~locked
      /\ rcon_commands' = Append(rcon_commands, adder[a])
      /\ adder' = [adder EXCEPT ![a] = 0]
      /\ UNCHANGED <<accepted, sent, sending, locked, thread, resent>>
  BY DEF AddCommand
<1>2. /\ accepted \in Nat /\ adder \in [Adders -> 0..accepted]
      /\ rcon_commands \in Seq(1..accepted) /\ sent \in Seq(1..accepted)
      /\ sending \in Nat \ {0}
      /\ thread # "send"
  BY <1>1 DEF QueueInv, QueueTypes
<1>3. adder[a] \in 1..accepted /\ adder' \in [Adders -> 0..accepted]
  BY <1>1, <1>2
<1>4. /\ rcon_commands' \in Seq(1..accepted)
      /\ Len(rcon_commands) \in Nat /\ Len(rcon_commands') = Len(rcon_commands) + 1
      /\ \A i \in 1..Len(rcon_commands) : rcon_commands'[i] = rcon_commands[i]
      /\ rcon_commands'[Len(rcon_commands) + 1] = adder[a]
  BY <1>1, <1>2, <1>3, AppendProperties
<1>5. QueueTypes'
  BY <1>1, <1>2, <1>3, <1>4 DEF QueueTypes
<1>6. Passed = 0 /\ Passed' = 0
  BY <1>1, <1>2 DEF Passed
<1>7. /\ \A b \in Adders : adder'[b] = IF b = a THEN 0 ELSE adder[b]
      /\ \A i \in 1..Len(rcon_commands') :
            i \in 1..Len(rcon_commands) \/ i = Len(rcon_commands) + 1
      /\ 1..Len(rcon_commands) \subseteq 1..Len(rcon_commands')
      /\ Len(rcon_commands) + 1 \in 1..Len(rcon_commands')
  BY <1>1, <1>2, <1>4
<1>8. ASSUME OnePlace PROVE OnePlace'
  <2>1. \A i, j \in 1..Len(rcon_commands') : i # j => rcon_commands'[i] # rcon_commands'[j]
    BY <1>1, <1>4, <1>7, <1>8 DEF OnePlace
  <2>2. \A b, c \in Adders : adder'[b] # 0 /\ adder'[b] = adder'[c] => b = c
    BY <1>7, <1>8 DEF OnePlace
  <2>3. \A b \in Adders : adder'[b] # 0 =>
           /\ \A i \in 1..Len(rcon_commands') : rcon_commands'[i] # adder'[b]
           /\ \A i \in 1..Len(sent') : sent'[i] # adder'[b]
    BY <1>1, <1>4, <1>7, <1>8 DEF OnePlace
  <2>4. \A i \in 1..Len(rcon_commands') :
           i <= Passed' <=> \E j \in 1..Len(sent') : sent'[j] = rcon_commands'[i]
    BY <1>1, <1>4, <1>6, <1>7, <1>8 DEF OnePlace
  <2> QED
    BY <1>1, <1>8, <2>1, <2>2, <2>3, <2>4 DEF OnePlace
<1>9. ASSUME SomePlace PROVE SomePlace'
  <2>1. ASSUME NEW c \in 1..accepted
        PROVE  \/ \E i \in 1..Len(sent') : sent'[i] = c
               \/ \E i \in 1..Len(rcon_commands') : rcon_commands'[i] = c
               \/ \E b \in Adders : adder'[b] = c
    BY <1>1, <1>4, <1>7, <1>9, <2>1 DEF SomePlace
  <2> QED
    BY <1>1, <2>1 DEF SomePlace
<1> QED
  BY <1>1, <1>5, <1>8, <1>9 DEF QueueInv

\* A command that is sent is passed by the flush.
LEMMA SendCommandKeepsQueue == ASSUME QueueInv, SendCommand PROVE QueueInv'
<1>1. /\ thread = "send" /\ sending <= Len(rcon_commands)
      /\ sent' = Append(sent, rcon_commands[sending])
      /\ sending' = sending + 1
      /\ UNCHANGED <<accepted, adder, rcon_commands, locked, thread, resent>>
  BY DEF SendCommand, queueVars
<1>2. /\ accepted \in Nat /\ adder \in [Adders -> 0..accepted]
      /\ rcon_commands \in Seq(1..accepted) /\ sent \in Seq(1..accepted)
      /\ sending \in Nat \ {0} /\ locked
  BY <1>1 DEF QueueInv, QueueTypes
<1>3. sending \in 1..Len(rcon_commands) /\ rcon_commands[sending] \in 1..accepted
  BY <1>1, <1>2
<1>4. /\ sent' \in Seq(1..accepted)
      /\ Len(sent) \in Nat /\ Len(sent') = Len(sent) + 1
      /\ \A i \in 1..Len(sent) : sent'[i] = sent[i]
      /\ sent'[Len(sent) + 1] = rcon_commands[sending]
  BY <1>1, <1>2, <1>3, AppendProperties
<1>5. sending' \in Nat \ {0} /\ sending' <= Len(rcon_commands) + 1
  BY <1>1, <1>2, <1>3
<1>6. QueueTypes'
  BY <1>1, <1>2, <1>4, <1>5 DEF QueueTypes
<1>7. Passed = sending - 1 /\ Passed' = sending
  BY <1>1, <1>2 DEF Passed
<1>8. /\ \A i \in 1..Len(sent') : i \in 1..Len(sent) \/ i = Len(sent) + 1
      /\ 1..Len(sent) \subseteq 1..Len(sent')
      /\ Len(sent) + 1 \in 1..Len(sent')
      /\ ~(sending <= sending - 1)
      /\ \A i \in 1..Len(rcon_commands) : i <= sending <=> i <= sending - 1 \/ i = sending
  BY <1>2, <1>4
<1>9. ASSUME OnePlace PROVE OnePlace'
  <2>1. \A j \in 1..Len(sent) : sent[j] # rcon_commands[sending]
    BY <1>3, <1>7, <1>8, <1>9 DEF OnePlace
  <2>2. \A i, j \in 1..Len(sent') : i # j => sent'[i] # sent'[j]
    BY <1>4, <1>8, <1>9, <2>1 DEF OnePlace
  <2>3. \A b \in Adders : adder[b] # 0 => \A i \in 1..Len(sent') : sent'[i] # adder[b]
    BY <1>3, <1>4, <1>8, <1>9 DEF OnePlace
  <2>4. \A i \in 1..Len(rcon_commands) :
           i <= sending <=> \E j \in 1..Len(sent') : sent'[j] = rcon_commands[i]
    <3>1. ASSUME NEW i \in 1..Len(rcon_commands), i # sending
          PROVE  i <= sending <=> \E j \in 1..Len(sent') : sent'[j] = rcon_commands[i]
      <4>1. rcon_commands[i] # rcon_commands[sending]
        BY <1>3, <1>9, <3>1 DEF OnePlace
      <4>2. (\E j \in 1..Len(sent') : sent'[j] = rcon_commands[i])
              <=> \E j \in 1..Len(sent) : sent[j] = rcon_commands[i]
        BY <1>4, <1>8, <4>1
      <4>3. i <= sending - 1 <=> \E j \in 1..Len(sent) : sent[j] = rcon_commands[i]
        BY <1>7, <1>9 DEF OnePlace
      <4> QED
        BY <1>8, <3>1, <4>2, <4>3
    <3>2. \E j \in 1..Len(sent') : sent'[j] = rcon_commands[sending]
      BY <1>4, <1>8
    <3> QED
      BY <1>3, <1>8, <3>1, <3>2
  <2> QED
    BY <1>1, <1>7, <1>9, <2>2, <2>3, <2>4 DEF OnePlace
<1>10. SomePlace => SomePlace'
  BY <1>1, <1>4, <1>8, ZenonT(30) DEF SomePlace
<1> QED
  BY <1>1, <1>6, <1>9, <1>10 DEF QueueInv

\* A flush begins before the first command ...
LEMMA FlushBeginsKeepsQueue == ASSUME QueueInv, FlushBegins PROVE QueueInv'
<1>1. /\ thread = "flush" /\ thread' = "send" /\ locked' = TRUE /\ sending' = 1
      /\ UNCHANGED <<accepted, adder, rcon_commands, sent, resent>>
  BY DEF FlushBegins, queueVars
<1>2. QueueTypes'
  BY <1>1 DEF QueueInv, QueueTypes
<1>3. Passed = 0 /\ Passed' = 0
  BY <1>1 DEF Passed
<1> QED
  BY <1>1, <1>2, <1>3 DEF QueueInv, OnePlace, SomePlace

\* ... and ends past the last one, so that the queue holds what was sent.
LEMMA FlushEndsKeepsQueue == ASSUME QueueInv, FlushEnds PROVE QueueInv'
<1>1. /\ thread = "send" /\ sending > Len(rcon_commands)
      /\ rcon_commands' = <<>> /\ sending' = 1 /\ thread' # "send"
      /\ UNCHANGED <<accepted, adder, sent, resent>>
  BY DEF FlushEnds, Cleared
<1>2. QueueTypes'
  BY <1>1 DEF QueueInv, QueueTypes
<1>3. \A i \in 1..Len(rcon_commands) : i <= Passed
  BY <1>1 DEF Passed, QueueInv, QueueTypes
<1>4. \A i \in 1..Len(rcon_commands') : FALSE
  BY <1>1
<1>5. OnePlace => OnePlace'
  BY <1>1, <1>4 DEF OnePlace
<1>6. OnePlace /\ SomePlace => SomePlace'
  BY <1>1, <1>3 DEF OnePlace, SomePlace
<1> QED
  BY <1>1, <1>2, <1>5, <1>6 DEF QueueInv

\* A send that fails leaves the queue as it was.
LEMMA SendFailsKeepsQueue == ASSUME QueueInv, SendCommandFails PROVE QueueInv'
<1>1. /\ thread' # "send" /\ resent' = TRUE
      /\ UNCHANGED <<accepted, adder, rcon_commands, sent, sending>>
  BY DEF SendCommandFails, SendFails, queueVars
<1>2. QueueTypes'
  BY <1>1 DEF QueueInv, QueueTypes
<1> QED
  BY <1>1, <1>2 DEF QueueInv

LEMMA QueueStep == ASSUME TimerInv, QueueInv, [Next]_vars PROVE QueueInv'
<1> USE DEF extVars, queueVars, timerVars, passwordVars, netVars
<1>1. CASE StartRcon \/ MainStarts
  <2>1. ~started => thread = "none"
    BY DEF TimerInv, SendsInTime
  <2> QED
    BY <1>1, <2>1, QueueElsewhere DEF StartRcon, MainStarts, Start
<1>2. CASE \E a \in Adders : RconCommand(a) \/ AddCommand(a)
  BY <1>2, BeginAddKeepsQueue, AddCommandKeepsQueue DEF RconCommand
<1>3. CASE MainLine
  BY <1>3, BeginAddKeepsQueue, RconAssumption DEF MainLine
<1>4. CASE Stop \/ MainQuits \/ StopJoined
  BY <1>4, QueueElsewhere DEF Stop, MainQuits, Disconnect, StopJoined
<1>5. CASE MainNoFile
  BY <1>5, MainNoFileKeepsQueue
<1>6. CASE ServerChats \/ NetworkFails \/ EntryExpires
  BY <1>6, QueueElsewhere DEF ServerChats, NetworkFails, EntryExpires
<1>7. CASE Connect \/ SocketFails
  BY <1>7, QueueElsewhere DEF Connect, SocketFails, SendFails
<1>8. CASE Receive
  <2> USE DEF Arrives, AfterPacket
  <2>1. CASE LoggedIn \/ LoginFailed \/ Ignore
    BY <2>1, QueueElsewhere DEF LoggedIn, LoginFailed, Ignore
  <2>2. CASE ServerAck \/ MultiPart
    BY <2>2, QueueElsewhere DEF ServerAck, MultiPart
  <2>3. CASE ChatMessage
    BY <2>3, QueueElsewhere DEF ChatMessage, SendFails
  <2> QED
    BY <1>8, <2>1, <2>2, <2>3 DEF Receive
<1>9. CASE ReceiveFails \/ Timeout
  BY <1>9, QueueElsewhere DEF ReceiveFails, Timeout
<1>10. CASE KeepAlive \/ Reconnect \/ EarlyTimeout
  BY <1>10, QueueElsewhere DEF KeepAlive, Reconnect, EarlyTimeout, SendFails
<1>11. CASE CheckFlag
  BY <1>11, QueueElsewhere DEF CheckFlag
<1>12. CASE UNCHANGED vars
  BY <1>12, QueueElsewhere DEF vars
<1> QED
  BY <1>1, <1>2, <1>3, <1>4, <1>5, <1>6, <1>7, <1>8, <1>9, <1>10, <1>11, <1>12,
     FlushBeginsKeepsQueue, SendCommandKeepsQueue, FlushEndsKeepsQueue, SendFailsKeepsQueue
     DEF Next, Run

-----------------------------------------------------------------------------
(* Replies.                                                                *)

LEMMA PartsStart == ASSUME Init PROVE PartsInv
  BY DEF Init, PartsInv, PartsTogether, Together

LEMMA PacketKinds ==
    /\ LoginOk \in Packets /\ LoginOk.code # "part"
    /\ LoginBad \in Packets /\ LoginBad.code # "part"
    /\ Ack \in Packets /\ Ack.code # "part"
    /\ Chat \in Packets /\ Chat.code # "part"
    /\ \A c \in Nat : \A k \in 1..2 :
          Part(c, k) \in Packets /\ Part(c, k).code = "part"
          /\ Part(c, k).of = c /\ Part(c, k).n = k
    /\ \A p \in Packets : p.code = "part" =>
          p.of \in Nat /\ p.n \in {1, 2} /\ p = Part(p.of, p.n)
  BY DEF Packets, LoginOk, LoginBad, Ack, Chat, Part, Parts

LEMMA HalfFacts ==
    /\ \A c : Half(c) # NoEntry /\ Half(c).count = 1 /\ Half(c).parts[1] = c
    /\ \A c, d : Half(c) = Half(d) => c = d
  BY DEF Half, NoEntry

\* Packets are put behind those on their way: one that is no part ...
LEMMA OtherPacketSent ==
    ASSUME NEW r \in Seq(Packets), NEW cache, Together(r, cache),
           NEW p \in Packets, p.code # "part"
    PROVE  Append(r, p) \in Seq(Packets) /\ Together(Append(r, p), cache)
<1> DEFINE s == Append(r, p)
<1>1. /\ s \in Seq(Packets) /\ Len(r) \in Nat /\ Len(s) = Len(r) + 1
      /\ \A i \in 1..Len(r) : s[i] = r[i]
      /\ s[Len(r) + 1] = p
  BY AppendProperties
<1> HIDE DEF s
<1>2. /\ \A i \in 1..Len(s) : i \in 1..Len(r) \/ i = Len(r) + 1
      /\ 1..Len(r) \subseteq 1..Len(s)
      /\ \A i \in 1..Len(r) : i > 1 => i - 1 \in 1..Len(r)
      /\ \A i \in 1..Len(r) : i < Len(r) => i + 1 \in 1..Len(r)
      /\ r # <<>> => 1 \in 1..Len(r) /\ s # <<>>
  BY <1>1
<1>3. Together(s, cache)
  BY <1>1, <1>2 DEF Together
<1> QED
  BY <1>1, <1>3 DEF s

\* ... and both parts of a reply.
LEMMA PartsSent ==
    ASSUME NEW r \in Seq(Packets), NEW cache, Together(r, cache), NEW c \in Nat
    PROVE  /\ r \o <<Part(c, 1), Part(c, 2)>> \in Seq(Packets)
           /\ Together(r \o <<Part(c, 1), Part(c, 2)>>, cache)
<1> DEFINE p == Part(c, 1)
           q == Part(c, 2)
           s == r \o <<p, q>>
<1>1. /\ p \in Packets /\ p.code = "part" /\ p.of = c /\ p.n = 1
      /\ q \in Packets /\ q.code = "part" /\ q.of = c /\ q.n = 2
  BY PacketKinds
<1>2. p = Part(c, 1) /\ q = Part(c, 2)
  OBVIOUS
<1> HIDE DEF p, q
<1>3. <<p, q>> \in Seq(Packets) /\ Len(<<p, q>>) = 2 /\ <<p, q>>[1] = p /\ <<p, q>>[2] = q
  BY <1>1
<1>4. /\ s \in Seq(Packets) /\ Len(r) \in Nat /\ Len(s) = Len(r) + 2
      /\ \A i \in 1..Len(r) : s[i] = r[i]
      /\ s[Len(r) + 1] = p
      /\ s[Len(r) + 2] = q
  BY <1>3, ConcatProperties
<1> HIDE DEF s
<1>5. /\ \A i \in 1..Len(s) : i \in 1..Len(r) \/ i = Len(r) + 1 \/ i = Len(r) + 2
      /\ 1..Len(r) \subseteq 1..Len(s)
      /\ \A i \in 1..Len(r) : i > 1 => i - 1 \in 1..Len(r)
      /\ \A i \in 1..Len(r) : i < Len(r) => i + 1 \in 1..Len(r)
      /\ r # <<>> => 1 \in 1..Len(r) /\ s # <<>>
      /\ Len(r) + 1 < Len(s) /\ Len(r) + 2 > 1
      /\ (Len(r) + 1) + 1 = Len(r) + 2
      /\ (Len(r) + 2) - 1 = Len(r) + 1
  BY <1>4
<1>6. ASSUME NEW i \in 1..Len(s), s[i].code = "part", s[i].n = 1
      PROVE  i < Len(s) /\ s[i + 1] = Part(s[i].of, 2)
  BY <1>1, <1>2, <1>4, <1>5, <1>6 DEF Together
<1>7. ASSUME NEW i \in 1..Len(s), s[i].code = "part", s[i].n = 2
      PROVE  \/ i > 1 /\ s[i - 1] = Part(s[i].of, 1)
             \/ i = 1 /\ cache = Half(s[1].of)
  BY <1>1, <1>2, <1>4, <1>5, <1>7 DEF Together
<1>8. \/ cache = NoEntry
      \/ s # <<>> /\ s[1].code = "part" /\ s[1].n = 2 /\ cache = Half(s[1].of)
  BY <1>4, <1>5 DEF Together
<1>9. Together(s, cache)
  BY <1>6, <1>7, <1>8 DEF Together
<1> QED
  BY <1>4, <1>9 DEF s, p, q

LEMMA RemoveAtProperties ==
    ASSUME NEW S, NEW s \in Seq(S), NEW k \in 1..Len(s)
    PROVE  /\ RemoveAt(s, k) \in Seq(S)
           /\ Len(RemoveAt(s, k)) = Len(s) - 1
           /\ \A i \in 1..Len(s) - 1 : RemoveAt(s, k)[i] = IF i < k THEN s[i] ELSE s[i + 1]
<1> DEFINE a == SubSeq(s, 1, k - 1)
           b == SubSeq(s, k + 1, Len(s))
<1>1. k \in Int /\ Len(s) \in Nat /\ 1 <= k /\ k <= Len(s)
  OBVIOUS
<1>2. /\ a \in Seq(S) /\ Len(a) = k - 1
      /\ \A i \in 1..k - 1 : a[i] = s[i]
  <2>1. \A i \in 1..k - 1 : s[i] \in S
    BY <1>1
  <2>2. /\ a \in Seq(S) /\ Len(a) = IF 1 <= k - 1 THEN (k - 1) - 1 + 1 ELSE 0
        /\ \A i \in 1..(k - 1) - 1 + 1 : a[i] = s[1 + i - 1]
    BY <1>1, <2>1, SubSeqProperties
  <2> QED
    BY <1>1, <2>2
<1>3. /\ b \in Seq(S) /\ Len(b) = Len(s) - k
      /\ \A i \in 1..Len(s) - k : b[i] = s[k + i]
  <2>1. \A i \in k + 1..Len(s) : s[i] \in S
    BY <1>1
  <2>2. /\ b \in Seq(S) /\ Len(b) = IF k + 1 <= Len(s) THEN Len(s) - (k + 1) + 1 ELSE 0
        /\ \A i \in 1..Len(s) - (k + 1) + 1 : b[i] = s[(k + 1) + i - 1]
    BY <1>1, <2>1, SubSeqProperties
  <2> QED
    BY <1>1, <2>2
<1> HIDE DEF a, b
<1>4. /\ a \o b \in Seq(S) /\ Len(a \o b) = Len(a) + Len(b)
      /\ \A i \in 1..Len(a) + Len(b) : (a \o b)[i] = IF i <= Len(a) THEN a[i] ELSE b[i - Len(a)]
  BY <1>2, <1>3, ConcatProperties
<1>5. Len(a) + Len(b) = Len(s) - 1
  BY <1>1, <1>2, <1>3
<1>6. ASSUME NEW i \in 1..Len(s) - 1
      PROVE  (a \o b)[i] = IF i < k THEN s[i] ELSE s[i + 1]
  <2>1. CASE i < k
    BY <1>1, <1>2, <1>4, <1>5, <2>1
  <2>2. CASE i >= k
    <3>1. i - Len(a) \in 1..Len(s) - k /\ k + (i - Len(a)) = i + 1 /\ ~(i <= Len(a))
      BY <1>1, <1>2, <2>2
    <3> QED
      BY <1>1, <1>3, <1>4, <1>5, <2>2, <3>1, SMTT(30)
  <2>3. i < k \/ i >= k
    BY <1>1
  <2> QED
    BY <2>1, <2>2, <2>3
<1> QED
  BY <1>4, <1>5, <1>6 DEF RemoveAt, a, b

\* A packet that is no part is taken, or lost: nothing was between two parts.
LEMMA OtherPacketRemoved ==
    ASSUME NEW r \in Seq(Packets), NEW cache, Together(r, cache),
           NEW k \in 1..Len(r), r[k].code # "part", NEW s \in Seq(Packets),
           Len(s) = Len(r) - 1,
           \A i \in 1..Len(r) - 1 : s[i] = IF i < k THEN r[i] ELSE r[i + 1]
    PROVE  Together(s, cache)
<1>1. /\ Len(r) \in Nat \ {0} /\ k \in Nat /\ k >= 1 /\ k <= Len(r)
      /\ 1..Len(s) = 1..Len(r) - 1
      /\ 1 \in 1..Len(r)
  OBVIOUS
<1>2. \A i \in 1..Len(s) : i < k => i \in 1..Len(r) /\ s[i] = r[i]
  BY <1>1
<1>3. \A i \in 1..Len(s) : i >= k => i + 1 \in 1..Len(r) /\ s[i] = r[i + 1]
  BY <1>1
<1>4. ASSUME NEW i \in 1..Len(s), s[i].code = "part", s[i].n = 1
      PROVE  i < Len(s) /\ s[i + 1] = Part(s[i].of, 2)
  <2>1. CASE i < k
    <3>1. r[i + 1] = Part(s[i].of, 2)
      BY <1>2, <1>4, <2>1 DEF Together
    <3>2. r[i + 1].code = "part"
      BY <3>1 DEF Part
    <3>3. i + 1 < k
      BY <1>1, <2>1, <3>2
    <3>4. i + 1 \in 1..Len(s)
      BY <1>1, <3>3
    <3> QED
      BY <1>1, <1>2, <3>1, <3>3, <3>4
  <2>2. CASE i >= k
    <3>1. i + 1 < Len(r) /\ r[(i + 1) + 1] = Part(s[i].of, 2)
      BY <1>3, <1>4, <2>2 DEF Together
    <3>2. i + 1 \in 1..Len(s) /\ i + 1 >= k /\ i < Len(s)
      BY <1>1, <2>2, <3>1
    <3> QED
      BY <1>3, <3>1, <3>2
  <2> QED
    BY <1>1, <2>1, <2>2
<1>5. ASSUME NEW i \in 1..Len(s), s[i].code = "part", s[i].n = 2
      PROVE  \/ i > 1 /\ s[i - 1] = Part(s[i].of, 1)
             \/ i = 1 /\ cache = Half(s[1].of)
  <2>1. CASE i < k
    <3>1. \/ i > 1 /\ r[i - 1] = Part(s[i].of, 1)
          \/ i = 1 /\ cache = Half(r[1].of)
      BY <1>2, <1>5, <2>1 DEF Together
    <3>2. i > 1 => i - 1 \in 1..Len(s) /\ i - 1 < k
      BY <1>1, <2>1
    <3> QED
      BY <1>2, <2>1, <3>1, <3>2
  <2>2. CASE i >= k
    <3>1. (i + 1) - 1 = i /\ i + 1 # 1
      BY <1>1
    <3>2. r[i] = Part(s[i].of, 1)
      BY <1>3, <1>5, <2>2, <3>1 DEF Together
    <3>3. r[i].code = "part"
      BY <3>2 DEF Part
    <3>4. i # k
      BY <3>3
    <3>5. i - 1 \in 1..Len(s) /\ i - 1 >= k /\ (i - 1) + 1 = i /\ i > 1
      BY <1>1, <2>2, <3>4
    <3> QED
      BY <1>3, <3>2, <3>5
  <2> QED
    BY <1>1, <2>1, <2>2
<1>6. \/ cache = NoEntry
      \/ s # <<>> /\ s[1].code = "part" /\ s[1].n = 2 /\ cache = Half(s[1].of)
  <2>1. CASE cache # NoEntry
    <3>1. r[1].code = "part" /\ r[1].n = 2 /\ cache = Half(r[1].of)
      BY <2>1 DEF Together
    <3>2. 1 < k
      BY <1>1, <3>1
    <3>3. 1 \in 1..Len(s) /\ s # <<>>
      BY <1>1, <3>2
    <3> QED
      BY <1>2, <3>1, <3>2, <3>3
  <2> QED
    BY <2>1
<1> QED
  BY <1>4, <1>5, <1>6 DEF Together

LEMMA PartsUnchanged ==
    ASSUME PartsInv, UNCHANGED <<toClient, partCache, history>>, broken' = broken \/ broken' = TRUE
    PROVE  PartsInv'
<1>1. ~broken' => ~broken
  OBVIOUS
<1> QED
  BY <1>1 DEF PartsInv, PartsTogether

\* What comes back for a packet: nothing, one packet, or both parts of a reply.
LEMMA AnswersKeepParts ==
    ASSUME PartsInv, UNCHANGED <<partCache, history, broken>>,
           \/ toClient' = toClient
           \/ \E p \in {LoginOk, LoginBad, Ack, Chat} : toClient' = Append(toClient, p)
           \/ \E c \in Nat : toClient' = toClient \o <<Part(c, 1), Part(c, 2)>>
    PROVE  PartsInv'
<1>1. toClient \in Seq(Packets)
  BY DEF PartsInv
<1>2. CASE toClient' = toClient
  BY <1>2, PartsUnchanged
<1>3. CASE \E p \in {LoginOk, LoginBad, Ack, Chat} : toClient' = Append(toClient, p)
  <2>1. PICK p \in Packets : p.code # "part" /\ toClient' = Append(toClient, p)
    BY <1>3, PacketKinds
  <2>2. toClient' \in Seq(Packets)
    BY <1>1, <2>1, AppendProperties
  <2>3. Together(toClient, partCache) => Together(toClient', partCache)
    BY <1>1, <2>1, OtherPacketSent
  <2> QED
    BY <2>2, <2>3 DEF PartsInv, PartsTogether
<1>4. CASE \E c \in Nat : toClient' = toClient \o <<Part(c, 1), Part(c, 2)>>
  <2>1. PICK c \in Nat : toClient' = toClient \o <<Part(c, 1), Part(c, 2)>>
    BY <1>4
  <2>2. toClient' \in Seq(Packets)
    <3>1. <<Part(c, 1), Part(c, 2)>> \in Seq(Packets)
      BY PacketKinds
    <3> QED
      BY <1>1, <2>1, <3>1, ConcatProperties
  <2>3. Together(toClient, partCache) => Together(toClient', partCache)
    BY <1>1, <2>1, PartsSent
  <2> QED
    BY <2>2, <2>3 DEF PartsInv, PartsTogether
<1> QED
  BY <1>2, <1>3, <1>4

\* A sequence of one packet is put behind as the packet is.
LEMMA OneIsAppended ==
    ASSUME PartsInv, NEW p \in Packets
    PROVE  toClient \o <<p>> = Append(toClient, p)
  BY AppendIsConcat DEF PartsInv

LEMMA HeadFacts ==
    ASSUME PartsInv, toClient # <<>>, toClient' = Tail(toClient)
    PROVE  /\ toClient \in Seq(Packets) /\ Len(toClient) \in Nat \ {0}
           /\ Head(toClient) = toClient[1] /\ toClient[1] \in Packets
           /\ toClient' \in Seq(Packets) /\ Len(toClient') = Len(toClient) - 1
           /\ \A i \in 1..Len(toClient) - 1 : toClient'[i] = toClient[i + 1]
<1>1. /\ toClient \in Seq(Packets) /\ Len(toClient) \in Nat \ {0}
      /\ Head(toClient) = toClient[1] /\ toClient[1] \in Packets
  BY DEF PartsInv
<1> QED
  BY <1>1, HeadTailProperties

\* A packet that is no part is taken.
LEMMA OtherPacketTaken ==
    ASSUME PartsInv, toClient # <<>>, Head(toClient).code # "part", toClient' = Tail(toClient),
           UNCHANGED <<partCache, history, broken>>
    PROVE  PartsInv'
<1>1. /\ toClient \in Seq(Packets) /\ Len(toClient) \in Nat \ {0}
      /\ toClient[1].code # "part"
      /\ toClient' \in Seq(Packets) /\ Len(toClient') = Len(toClient) - 1
      /\ \A i \in 1..Len(toClient) - 1 : toClient'[i] = toClient[i + 1]
  BY HeadFacts
<1>2. 1 \in 1..Len(toClient) /\ \A i \in 1..Len(toClient) - 1 : ~(i < 1)
  BY <1>1
<1>3. Together(toClient, partCache) => Together(toClient', partCache)
  BY <1>1, <1>2, OtherPacketRemoved
<1> QED
  BY <1>1, <1>3 DEF PartsInv, PartsTogether

\* What an entry becomes with the first part of a reply, and with the second.
LEMMA CountedFacts ==
    ASSUME NEW p
    PROVE  /\ partCache = NoEntry /\ p.n = 1 => Counted(p) = Half(p.of)
           /\ partCache = Half(p.of) /\ p.n = 2 =>
                 Counted(p) = [count |-> 2, parts |-> <<p.of, p.of>>]
<1>1. ASSUME partCache = NoEntry, p.n = 1 PROVE Counted(p) = Half(p.of)
  <2>1. [<<0, 0>> EXCEPT ![1] = p.of] = <<p.of, 0>>
    OBVIOUS
  <2> QED
    BY <1>1, <2>1 DEF Counted, Half, NoEntry
<1>2. ASSUME partCache = Half(p.of), p.n = 2
      PROVE  Counted(p) = [count |-> 2, parts |-> <<p.of, p.of>>]
  <2>1. [<<p.of, 0>> EXCEPT ![2] = p.of] = <<p.of, p.of>>
    OBVIOUS
  <2> QED
    BY <1>2, <2>1 DEF Counted, Half
<1> QED
  BY <1>1, <1>2

\* A part is taken: the first one makes the entry, the second completes it.
LEMMA MultiPartKeepsParts == ASSUME TimerTypes, PartsInv, MultiPart PROVE PartsInv'
<1> DEFINE p == toClient[1]
           entry == Counted(p)
<1>1. /\ toClient # <<>> /\ toClient' = Tail(toClient) /\ Head(toClient).code = "part"
      /\ broken' = broken
  BY DEF MultiPart, Arrives, netVars
<1>2. /\ toClient \in Seq(Packets) /\ Len(toClient) \in Nat \ {0}
      /\ Head(toClient) = p /\ p \in Packets /\ p.code = "part"
      /\ toClient' \in Seq(Packets) /\ Len(toClient') = Len(toClient) - 1
      /\ \A i \in 1..Len(toClient) - 1 : toClient'[i] = toClient[i + 1]
  BY <1>1, HeadFacts
<1>3. p.n \in {1, 2}
  BY <1>2, PacketKinds
<1>4. IF Complete(entry)
      THEN /\ partCache' = NoEntry
           /\ history' = [history EXCEPT !.mixedReply =
                             history.mixedReply
                             \/ \E n \in 1..Parts : entry.parts[n] # entry.parts[1]]
      ELSE partCache' = entry /\ UNCHANGED history
  BY <1>2 DEF MultiPart
<1> HIDE DEF p
<1>5. /\ 1 \in 1..Len(toClient)
      /\ \A i \in 1..Len(toClient') : i + 1 \in 1..Len(toClient) /\ i + 1 # 1 /\ i + 1 > 1
      /\ \A i \in 1..Len(toClient') : (i + 1) - 1 = i /\ (i > 1 => i - 1 \in 1..Len(toClient'))
      /\ \A i \in 1..Len(toClient') : i > 1 => (i - 1) + 1 = i
      /\ \A i \in 1..Len(toClient') : i + 1 < Len(toClient) =>
            i < Len(toClient') /\ i + 1 \in 1..Len(toClient')
      /\ \A i \in 1..Len(toClient') : i > 1 \/ i = 1
  BY <1>2
<1>6. ASSUME Together(toClient, partCache), ~history.mixedReply
      PROVE  Together(toClient', partCache') /\ ~history'.mixedReply
  <2>1. ASSUME NEW i \in 1..Len(toClient'), toClient'[i].code = "part", toClient'[i].n = 1
        PROVE  i < Len(toClient') /\ toClient'[i + 1] = Part(toClient'[i].of, 2)
    <3>1. toClient'[i] = toClient[i + 1] /\ i + 1 \in 1..Len(toClient)
      BY <1>2, <1>5
    <3>2. toClient[i + 1].code = "part" /\ toClient[i + 1].n = 1
      BY <2>1, <3>1
    <3>3. /\ i + 1 < Len(toClient)
          /\ toClient[(i + 1) + 1] = Part(toClient[i + 1].of, 2)
      BY <1>6, <3>1, <3>2 DEF Together
    <3>4. i < Len(toClient') /\ i + 1 \in 1..Len(toClient) - 1
      BY <1>2, <1>5, <3>3
    <3>5. toClient'[i + 1] = toClient[(i + 1) + 1]
      BY <1>2, <3>4
    <3> QED
      BY <3>1, <3>3, <3>4, <3>5
  <2>2. ASSUME NEW i \in 1..Len(toClient'), toClient'[i].code = "part", toClient'[i].n = 2
        PROVE  /\ toClient[i] = Part(toClient'[i].of, 1)
               /\ i > 1 => toClient'[i - 1] = Part(toClient'[i].of, 1)
    <3>1. toClient'[i] = toClient[i + 1] /\ i + 1 \in 1..Len(toClient) /\ i + 1 # 1
      BY <1>2, <1>5
    <3>2. toClient[i + 1].code = "part" /\ toClient[i + 1].n = 2
      BY <2>2, <3>1
    <3>3. toClient[(i + 1) - 1] = Part(toClient[i + 1].of, 1)
      BY <1>6, <3>1, <3>2 DEF Together
    <3>4. toClient[i] = Part(toClient'[i].of, 1)
      BY <1>5, <3>1, <3>3
    <3>5. ASSUME i > 1 PROVE toClient'[i - 1] = toClient[i]
      <4>1. i - 1 \in 1..Len(toClient) - 1 /\ (i - 1) + 1 = i
        BY <1>2, <1>5, <3>5
      <4> QED
        BY <1>2, <4>1
    <3> QED
      BY <3>4, <3>5
  <2>3. CASE p.n = 1
    <3>1. partCache = NoEntry
      BY <1>6, <2>3 DEF Together, p
    <3>2. 1 < Len(toClient) /\ toClient[1 + 1] = Part(p.of, 2)
      BY <1>2, <1>5, <1>6, <2>3 DEF Together, p
    <3>3. 1 \in 1..Len(toClient') /\ toClient'[1] = Part(p.of, 2)
      BY <1>2, <3>2
    <3>4. toClient'[1].code = "part" /\ toClient'[1].n = 2 /\ toClient'[1].of = p.of
      BY <3>3 DEF Part
    <3>5. partCache' = Half(p.of) /\ history' = history
      BY <1>4, <2>3, <3>1, CountedFacts DEF Complete
    <3>6. toClient' # <<>>
      BY <3>3
    <3>7. ASSUME NEW i \in 1..Len(toClient'), toClient'[i].code = "part", toClient'[i].n = 2
          PROVE  \/ i > 1 /\ toClient'[i - 1] = Part(toClient'[i].of, 1)
                 \/ i = 1 /\ partCache' = Half(toClient'[1].of)
      BY <1>5, <2>2, <3>4, <3>5, <3>7
    <3> QED
      BY <1>6, <2>1, <3>4, <3>5, <3>6, <3>7 DEF Together
  <2>4. CASE p.n = 2
    <3>1. partCache = Half(p.of)
      BY <1>2, <1>5, <1>6, <2>4 DEF Together, p
    <3>2. entry = [count |-> 2, parts |-> <<p.of, p.of>>]
      BY <2>4, <3>1, CountedFacts
    <3>3. Complete(entry) /\ entry.parts = <<p.of, p.of>>
      BY <3>1, <3>2, HalfFacts DEF Complete, Parts
    <3>4. \A n \in 1..Parts : entry.parts[n] = entry.parts[1]
      <4>1. <<p.of, p.of>>[1] = p.of /\ <<p.of, p.of>>[2] = p.of
        OBVIOUS
      <4>2. \A n \in 1..Parts : n = 1 \/ n = 2
        BY DEF Parts
      <4> QED
        BY <3>3, <4>1, <4>2
    <3> HIDE DEF entry
    <3>5. partCache' = NoEntry
          /\ history' = [history EXCEPT !.mixedReply = history.mixedReply
                            \/ \E n \in 1..Parts : entry.parts[n] # entry.parts[1]]
      BY <1>4, <3>3
    <3>6. (history.mixedReply \/ \E n \in 1..Parts : entry.parts[n] # entry.parts[1]) = FALSE
      BY <1>6, <3>4
    <3>7. ~history'.mixedReply
      BY <3>5, <3>6 DEF TimerTypes
    <3>8. ASSUME NEW i \in 1..Len(toClient'), toClient'[i].code = "part", toClient'[i].n = 2
          PROVE  i > 1 /\ toClient'[i - 1] = Part(toClient'[i].of, 1)
      <4>1. toClient[i] = Part(toClient'[i].of, 1)
        BY <2>2, <3>8
      <4>2. toClient[i].n = 1
        BY <4>1 DEF Part
      <4>3. i > 1
        BY <1>5, <2>4, <4>2 DEF p
      <4> QED
        BY <2>2, <3>8, <4>3
    <3> QED
      BY <2>1, <3>5, <3>7, <3>8 DEF Together
  <2> QED
    BY <1>3, <2>3, <2>4
<1> QED
  BY <1>1, <1>2, <1>6 DEF PartsInv, PartsTogether

\* The network may do anything with a packet that is no part.
LEMMA NetworkKeepsParts == ASSUME PartsInv, NetworkFails PROVE PartsInv'
<1>1. PICK k \in DOMAIN toClient :
         /\ \/ toClient' = RemoveAt(toClient, k)
            \/ toClient' = Append(toClient, toClient[k])
            \/ toClient' = Append(RemoveAt(toClient, k), toClient[k])
         /\ broken' = (broken \/ toClient[k].code = "part")
  BY DEF NetworkFails
<1>2. UNCHANGED <<partCache, history>>
  BY DEF NetworkFails
<1> DEFINE r == RemoveAt(toClient, k)
<1>3. toClient \in Seq(Packets) /\ k \in 1..Len(toClient) /\ toClient[k] \in Packets
  BY <1>1 DEF PartsInv
<1>4. /\ r \in Seq(Packets) /\ Len(r) = Len(toClient) - 1
      /\ \A i \in 1..Len(toClient) - 1 : r[i] = IF i < k THEN toClient[i] ELSE toClient[i + 1]
  BY <1>3, RemoveAtProperties
<1>5. toClient' \in Seq(Packets)
  <2>1. Append(toClient, toClient[k]) \in Seq(Packets) /\ Append(r, toClient[k]) \in Seq(Packets)
    <3> HIDE DEF r
    <3> QED
      BY <1>3, <1>4, AppendProperties
  <2> QED
    BY <1>1, <1>4, <2>1
<1> HIDE DEF r
<1>6. ASSUME ~broken' PROVE PartsTogether'
  <2>1. ~broken /\ toClient[k].code # "part"
    BY <1>1, <1>6
  <2>2. Together(toClient, partCache) /\ ~history.mixedReply
    BY <2>1 DEF PartsInv, PartsTogether
  <2>3. Together(r, partCache)
    BY <1>3, <1>4, <2>1, <2>2, OtherPacketRemoved
  <2>4. Together(Append(toClient, toClient[k]), partCache)
    BY <1>3, <2>1, <2>2, OtherPacketSent
  <2>5. Together(Append(r, toClient[k]), partCache)
    BY <1>3, <1>4, <2>1, <2>3, OtherPacketSent
  <2>6. Together(toClient', partCache)
    BY <1>1, <2>3, <2>4, <2>5 DEF r
  <2> QED
    BY <1>2, <2>2, <2>6 DEF PartsTogether
<1> QED
  BY <1>5, <1>6 DEF PartsInv

LEMMA PartsStep == ASSUME TimerInv, QueueInv, PartsInv, [Next]_vars PROVE PartsInv'
<1> USE DEF extVars, queueVars, timerVars, passwordVars, netVars
<1>1. CASE StartRcon \/ MainStarts \/ Stop \/ MainQuits \/ MainNoFile \/ StopJoined
  BY <1>1, PartsUnchanged
  DEF StartRcon, MainStarts, Start, Stop, MainQuits, Disconnect, MainNoFile, StopJoined
<1>2. CASE MainLine \/ \E a \in Adders : RconCommand(a) \/ AddCommand(a)
  BY <1>2, PartsUnchanged DEF MainLine, RconCommand, BeginAdd, AddCommand
<1>3. CASE Connect
  <2>1. \/ toClient' = toClient
        \/ toClient' = toClient \o <<LoginOk>>
        \/ toClient' = toClient \o <<LoginBad>>
    BY <1>3 DEF Connect, Answers
  <2>2. toClient' = toClient \/ \E p \in {LoginOk, LoginBad, Ack, Chat} : toClient' = Append(toClient, p)
    BY <2>1, OneIsAppended, PacketKinds
  <2>3. toClient' \in Seq(Packets)
    BY <2>2, PacketKinds, AppendProperties, SMTT(30) DEF PartsInv
  <2>4. history' = [history EXCEPT !.freedLogin = history.freedLogin \/ passwordFreed]
        /\ UNCHANGED <<partCache, broken>>
    BY <1>3 DEF Connect
  <2>5. history'.mixedReply = history.mixedReply
    BY <2>4 DEF TimerInv, TimerTypes
  <2>6. Together(toClient, partCache) => Together(toClient', partCache)
    <3>1. SUFFICES ASSUME Together(toClient, partCache) PROVE Together(toClient', partCache)
      OBVIOUS
    <3>2. CASE toClient' = toClient
      BY <3>1, <3>2
    <3>3. ASSUME NEW p \in {LoginOk, LoginBad, Ack, Chat}, toClient' = Append(toClient, p)
          PROVE  Together(toClient', partCache)
      <4>1. p \in Packets /\ p.code # "part"
        BY PacketKinds
      <4> QED
        BY <3>1, <3>3, <4>1, OtherPacketSent DEF PartsInv
    <3> QED
      BY <2>2, <3>2, <3>3
  <2> QED
    BY <2>3, <2>4, <2>5, <2>6 DEF PartsInv, PartsTogether
<1>4. CASE SocketFails \/ ReceiveFails \/ Timeout \/ Reconnect \/ EarlyTimeout
  BY <1>4, PartsUnchanged DEF SocketFails, ReceiveFails, Timeout, Reconnect, EarlyTimeout
<1>5. CASE KeepAlive
  <2>1. toClient' = toClient \/ toClient' = toClient \o <<Ack>>
    BY <1>5 DEF KeepAlive, Answers
  <2>2. toClient' = toClient \/ toClient' = Append(toClient, Ack)
    BY <2>1, OneIsAppended, PacketKinds
  <2> QED
    BY <1>5, <2>2, AnswersKeepParts DEF KeepAlive
<1>6. CASE Receive
  <2>1. CASE LoggedIn \/ LoginFailed \/ ServerAck \/ ChatMessage
    <3>1. toClient # <<>> /\ Head(toClient).code # "part" /\ toClient' = Tail(toClient)
          /\ UNCHANGED <<partCache, history, broken>>
      BY <2>1 DEF LoggedIn, LoginFailed, ServerAck, ChatMessage, Arrives
    <3> QED
      BY <3>1, OtherPacketTaken
  <2>2. CASE Ignore
    <3>1. toClient # <<>> /\ toClient' = Tail(toClient) /\ UNCHANGED <<partCache, history>>
          /\ broken' = (broken \/ Head(toClient).code = "part")
      BY <2>2 DEF Ignore, Arrives
    <3>2. CASE Head(toClient).code = "part"
      <4>1. toClient' \in Seq(Packets)
        BY <3>1, HeadFacts
      <4> QED
        BY <3>1, <3>2, <4>1 DEF PartsInv
    <3>3. CASE Head(toClient).code # "part" /\ broken
      <4>1. toClient' \in Seq(Packets)
        BY <3>1, HeadFacts
      <4> QED
        BY <3>1, <3>3, <4>1 DEF PartsInv
    <3>4. CASE Head(toClient).code # "part" /\ ~broken
      <4>1. ~broken' /\ toClient # <<>> /\ toClient' = Tail(toClient)
            /\ UNCHANGED <<partCache, history>>
        BY <3>1, <3>4
      <4>2. toClient' \in Seq(Packets)
        BY <3>1, HeadFacts
      <4>3. Together(toClient, partCache) => Together(toClient', partCache)
        <5>1. 1 \in 1..Len(toClient) /\ \A i \in 1..Len(toClient) - 1 : ~(i < 1)
          BY <3>1, HeadFacts
        <5> QED
          BY <3>1, <3>4, <5>1, HeadFacts, OtherPacketRemoved
      <4> QED
        BY <3>4, <4>1, <4>2, <4>3 DEF PartsInv, PartsTogether
    <3> QED
      BY <3>2, <3>3, <3>4
  <2>3. CASE MultiPart
    BY <2>3, MultiPartKeepsParts DEF TimerInv
  <2> QED
    BY <1>6, <2>1, <2>2, <2>3 DEF Receive
<1>7. CASE FlushBegins \/ SendCommandFails \/ FlushEnds \/ CheckFlag
  BY <1>7, PartsUnchanged DEF FlushBegins, SendCommandFails, FlushEnds, CheckFlag
<1>8. CASE SendCommand
  <2> DEFINE c == rcon_commands[sending]
  <2>1. c \in Nat
    BY <1>8 DEF SendCommand, QueueInv, QueueTypes
  <2>2. \/ toClient' = toClient
        \/ toClient' = toClient \o <<Ack>>
        \/ toClient' = toClient \o <<Part(c, 1), Part(c, 2)>>
    BY <1>8 DEF SendCommand, Answers
  <2>3. toClient \o <<Ack>> = Append(toClient, Ack)
    BY OneIsAppended, PacketKinds
  <2>4. UNCHANGED <<partCache, history, broken>>
    BY <1>8 DEF SendCommand
  <2> QED
    BY <2>1, <2>2, <2>3, <2>4, AnswersKeepParts
<1>9. CASE ServerChats
  BY <1>9, AnswersKeepParts DEF ServerChats
<1>10. CASE NetworkFails
  BY <1>10, NetworkKeepsParts
<1>11. CASE EntryExpires
  BY <1>11 DEF EntryExpires, PartsInv
<1>12. CASE UNCHANGED vars
  BY <1>12, PartsUnchanged DEF vars
<1> QED
  BY <1>1, <1>2, <1>3, <1>4, <1>5, <1>6, <1>7, <1>8, <1>9, <1>10, <1>11, <1>12 DEF Next, Run

-----------------------------------------------------------------------------
RconInv == TimerInv /\ QueueInv /\ PartsInv

LEMMA RconInvAlways == Spec => []RconInv
<1>1. Init => RconInv
  BY TimerStart, QueueStart, PartsStart DEF RconInv
<1>2. RconInv /\ [Next]_vars => RconInv'
  BY TimerStep, QueueStep, PartsStep DEF RconInv
<1> QED
  BY <1>1, <1>2, PTL DEF Spec

\* While no send fails, no command is sent twice, every one that was handed over
\* is sent, queued or with its thread, and the queued ones that were sent are those
\* the flush has come past: the clear drops no other, however many threads add
\* commands meanwhile.
THEOREM CommandsNotLost == Spec => []NothingLostInFlush
<1>1. RconInv => NothingLostInFlush
  <2> SUFFICES ASSUME RconInv, ~resent PROVE NothingLostInFlush
    BY DEF NothingLostInFlush
  <2>1. /\ OnePlace /\ SomePlace
        /\ DOMAIN sent = 1..Len(sent)
        /\ DOMAIN rcon_commands = 1..Len(rcon_commands)
        /\ sending \in Nat \ {0}
    BY DEF RconInv, QueueInv, QueueTypes
  <2>2. SentOnce
    BY <2>1 DEF OnePlace, SentOnce
  <2>3. \A c \in 1..accepted : \/ Contains(sent, c)
                               \/ Contains(rcon_commands, c)
                               \/ \E a \in Adders : adder[a] = c
    BY <2>1 DEF SomePlace, Contains
  <2>4. ASSUME NEW i \in 1..Len(rcon_commands)
        PROVE  Contains(sent, rcon_commands[i]) <=> thread = "send" /\ i < sending
    <3>1. Contains(sent, rcon_commands[i]) <=> i <= Passed
      BY <2>1 DEF OnePlace, Contains
    <3>2. i <= Passed <=> thread = "send" /\ i < sending
      BY <2>1 DEF Passed
    <3> QED
      BY <3>1, <3>2
  <2> QED
    BY <2>1, <2>2, <2>3, <2>4 DEF NothingLostInFlush
<1> QED
  BY <1>1, RconInvAlways, PTL

\* A reply is put together from the parts of one command unless packets were
\* lost, doubled or reordered or an entry expired, although every command is
\* sent with the same sequence number.
THEOREM RepliesStayWhole == Spec => []RepliesNotMixed
<1>1. RconInv => RepliesNotMixed
  BY DEF RconInv, PartsInv, PartsTogether, RepliesNotMixed
<1> QED
  BY <1>1, RconInvAlways, PTL
=============================================================================
