------------------------------ MODULE AsyncLog ------------------------------
(***************************************************************************)
(* An asynchronous logger of spdlog, as protocols/log.cpp gets one for its *)
(* file when the configuration says Log.Mode = async: client threads put   *)
(* messages into a ring of cells, a worker thread takes them out and       *)
(* writes them to a daily file.  One action is what a thread does between  *)
(* two accesses to memory that another thread reads or writes.             *)
(* Positions in the ring are not cut to a width: 64 bits do not wrap.      *)
(***************************************************************************)
EXTENDS Integers, Sequences, FiniteSets, SequencesExt

CONSTANTS Clients,      \* the threads that log
          Dropper,      \* the thread that drops the last reference to the logger
          QueueSize,    \* the cells of the ring
          MaxMessages   \* bound: messages of one client

ASSUME LogAssumption == /\ QueueSize \in Nat \ {0, 1}
                        /\ MaxMessages \in Nat
                        /\ Dropper \notin Clients

VARIABLES buffer,       \* cell -> [sequence, data]
          enqueue_pos,
          dequeue_pos,
          thread,       \* thread -> [pc, pos, sent]: where it is in log, and what it sent
          worker,       \* [pc, pos, msg]
          badWorker,    \* _last_workerthread_ex is set
          late,         \* it is past _midnight_tp
          written,      \* the lines of the file
          terminated    \* std::terminate was called

vars == <<buffer, enqueue_pos, dequeue_pos, thread, worker, badWorker, late,
          written, terminated>>

Threads == Clients \cup {Dropper}

\* The n-th message of a client; the dropper's only one has level::off.
Message(t, n) == [of |-> t, n |-> n]
Messages == {Message(t, n) : t \in Threads, n \in 1..MaxMessages + 1}
Off == Message(Dropper, 1)
Empty == Message(Dropper, 0)   \* a default async_msg

Current(t) == Message(t, thread[t].sent)
Cell(pos) == pos % QueueSize

Init ==
    /\ buffer = [i \in 0..QueueSize - 1 |-> [sequence |-> i, data |-> Empty]]
    /\ enqueue_pos = 0
    /\ dequeue_pos = 0
    /\ thread = [t \in Threads |-> [pc |-> "idle", pos |-> 0, sent |-> 0]]
    /\ worker = [pc |-> "loop", pos |-> 0, msg |-> Empty]
    /\ badWorker = FALSE
    /\ late = FALSE
    /\ written = <<>>
    /\ terminated = FALSE

-----------------------------------------------------------------------------
(* Client threads: log and enqueue *)

Goto(t, pc) == thread' = [thread EXCEPT ![t].pc = pc]

\* throw_if_bad_worker throws out of the destructor of line_logger, which is
\* noexcept: the program ends.  The read of the pointer races with the worker's
\* write and with another client's move; every other outcome ends it as well.
StartLog(t) ==
    /\ thread[t].pc = "idle"
    /\ terminated' = badWorker
    /\ thread' = [thread EXCEPT ![t].pc = "load", ![t].sent = @ + 1]
    /\ UNCHANGED <<buffer, enqueue_pos, dequeue_pos, worker, badWorker, late, written>>

Log(t) == /\ t \in Clients
          /\ thread[Dropper].pc = "idle"
          /\ thread[t].sent < MaxMessages
          /\ StartLog(t)

LoadPos(t) ==
    /\ thread[t].pc = "load"
    /\ thread' = [thread EXCEPT ![t].pc = "check", ![t].pos = enqueue_pos]
    /\ UNCHANGED <<buffer, enqueue_pos, dequeue_pos, worker, badWorker, late, written, terminated>>

\* A smaller sequence number is a full queue: log sleeps and tries again.
\* A larger one is a cell another thread has taken since.  Both start anew.
ReadSequence(t) ==
    /\ thread[t].pc = "check"
    /\ Goto(t, IF buffer[Cell(thread[t].pos)].sequence = thread[t].pos
               THEN "claim" ELSE "load")
    /\ UNCHANGED <<buffer, enqueue_pos, dequeue_pos, worker, badWorker, late, written, terminated>>

\* Mutant: the position is not compared.
MineAlways(t) == TRUE
Mine(t) == enqueue_pos = thread[t].pos

\* compare_exchange_weak: a failure loads the position.
Claim(t) ==
    /\ thread[t].pc = "claim"
    /\ IF Mine(t)
       THEN /\ enqueue_pos' = enqueue_pos + 1
            /\ Goto(t, "fill")
       ELSE /\ thread' = [thread EXCEPT ![t].pc = "check", ![t].pos = enqueue_pos]
            /\ UNCHANGED enqueue_pos
    /\ UNCHANGED <<buffer, dequeue_pos, worker, badWorker, late, written, terminated>>

Fill(t) ==
    /\ thread[t].pc = "fill"
    /\ buffer' = [buffer EXCEPT ![Cell(thread[t].pos)].data = Current(t)]
    /\ Goto(t, "publish")
    /\ UNCHANGED <<enqueue_pos, dequeue_pos, worker, badWorker, late, written, terminated>>

\* Mutant: the cell is given back as it was.
FilledAsFree(pos) == pos
Filled(pos) == pos + 1

Publish(t) ==
    /\ thread[t].pc = "publish"
    /\ buffer' = [buffer EXCEPT ![Cell(thread[t].pos)].sequence = Filled(thread[t].pos)]
    /\ Goto(t, IF t = Dropper THEN "join" ELSE "idle")
    /\ UNCHANGED <<enqueue_pos, dequeue_pos, worker, badWorker, late, written, terminated>>

-----------------------------------------------------------------------------
(* The worker thread: worker_loop, process_next_msg and dequeue.  Only this
   thread moves dequeue_pos, so its exchange cannot fail. *)

Dequeue ==
    /\ worker.pc = "loop"
    /\ buffer[Cell(dequeue_pos)].sequence = dequeue_pos + 1
    /\ dequeue_pos' = dequeue_pos + 1
    /\ worker' = [worker EXCEPT !.pc = "take", !.pos = dequeue_pos]
    /\ UNCHANGED <<buffer, enqueue_pos, thread, badWorker, late, written, terminated>>

TakeData ==
    /\ worker.pc = "take"
    /\ worker' = [worker EXCEPT !.pc = "release", !.msg = buffer[Cell(worker.pos)].data]
    /\ UNCHANGED <<buffer, enqueue_pos, dequeue_pos, thread, badWorker, late, written, terminated>>

Release ==
    /\ worker.pc = "release"
    /\ buffer' = [buffer EXCEPT ![Cell(worker.pos)].sequence = worker.pos + QueueSize]
    /\ worker' = [worker EXCEPT !.pc = "process"]
    /\ UNCHANGED <<enqueue_pos, dequeue_pos, thread, badWorker, late, written, terminated>>

EndLoop ==
    /\ worker.pc = "process"
    /\ worker.msg = Off
    /\ worker' = [worker EXCEPT !.pc = "ended"]
    /\ UNCHANGED <<buffer, enqueue_pos, dequeue_pos, thread, badWorker, late, written, terminated>>

\* daily_file_sink: after midnight the file is closed and opened again.
WriteLine ==
    /\ worker.pc = "process"
    /\ worker.msg # Off
    /\ written' = Append(written, worker.msg)
    /\ late' = FALSE
    /\ worker' = [worker EXCEPT !.pc = "loop"]
    /\ UNCHANGED <<buffer, enqueue_pos, dequeue_pos, thread, badWorker, terminated>>

\* The file could not be opened again (late stays) or written to (it was
\* opened, if it was late): the exception ends the loop.
SinkFails ==
    /\ worker.pc = "process"
    /\ worker.msg # Off
    /\ badWorker' = TRUE
    /\ late' \in {late, FALSE}
    /\ worker' = [worker EXCEPT !.pc = "ended"]
    /\ UNCHANGED <<buffer, enqueue_pos, dequeue_pos, thread, written, terminated>>

Midnight ==
    /\ ~late
    /\ late' = TRUE
    /\ UNCHANGED <<buffer, enqueue_pos, dequeue_pos, thread, worker, badWorker, written, terminated>>

-----------------------------------------------------------------------------
(* ~async_log_helper.  It runs when nobody else has the logger.  The exception
   of throw_if_bad_worker is caught, but then the thread is destroyed without
   a join, which ends the program. *)

Drop == /\ \A c \in Clients : thread[c].pc = "idle"
        /\ thread[Dropper].sent = 0
        /\ StartLog(Dropper)

\* Mutant: nobody waits for the worker.
WorkerEndedAnyway == TRUE
WorkerEnded == worker.pc = "ended"

Join == /\ thread[Dropper].pc = "join"
        /\ WorkerEnded
        /\ Goto(Dropper, "dropped")
        /\ UNCHANGED <<buffer, enqueue_pos, dequeue_pos, worker, badWorker, late, written, terminated>>

-----------------------------------------------------------------------------
Enqueue(t) == LoadPos(t) \/ ReadSequence(t) \/ Claim(t) \/ Fill(t) \/ Publish(t)

Work == Dequeue \/ TakeData \/ Release \/ EndLoop \/ WriteLine \/ SinkFails

Next == /\ ~terminated
        /\ \/ \E t \in Threads : Log(t) \/ Enqueue(t)
           \/ Work
           \/ Midnight
           \/ Drop
           \/ Join

Spec == Init /\ [][Next]_vars

\* The operating system runs every thread.  Nobody need log, or drop the logger.
FairSpec == /\ Spec
            /\ \A t \in Threads : WF_vars(~terminated /\ Enqueue(t))
            /\ WF_vars(~terminated /\ Work)
            /\ WF_vars(~terminated /\ Join)

-----------------------------------------------------------------------------
(* Properties *)

\* A position belongs to the thread that claimed it until the message is in
\* its cell.
Claimer(pos) == {t \in Threads : thread[t].pc \in {"fill", "publish"} /\ thread[t].pos = pos}

MessageAt(pos) == IF Claimer(pos) = {} THEN buffer[Cell(pos)].data
                  ELSE Current(CHOOSE t \in Claimer(pos) : TRUE)

InHand == CASE worker.pc = "loop" -> <<>>
            [] worker.pc = "take" -> <<buffer[Cell(worker.pos)].data>>
            [] OTHER -> <<worker.msg>>

Fifo == INSTANCE LogQueue WITH
            Size <- QueueSize,
            queue <- [i \in 1..(enqueue_pos - dequeue_pos) |-> MessageAt(dequeue_pos + i - 1)],
            delivered <- written \o InHand

\* The ring, with its unlocked claims, late publications and early releases, is
\* a bounded queue: no message is lost, doubled, overtaken or read half made.
FifoSpec == Fifo!Spec

\* Once the logger is dropped, every message any thread handed to it is in the
\* file, unless the file failed.
DropDrains ==
    thread[Dropper].pc = "dropped" =>
        \/ badWorker
        \/ \A c \in Clients : \A n \in 1..thread[c].sent : Contains(written, Message(c, n))

\* A message whose place in the ring is claimed gets to the file, unless the
\* file fails.
ClaimedIsWritten ==
    \A c \in Clients, n \in 1..MaxMessages :
        (thread[c].pc = "fill" /\ thread[c].sent = n)
            ~> (badWorker \/ terminated \/ Contains(written, Message(c, n)))
=============================================================================
