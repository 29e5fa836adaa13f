--------------------------- MODULE AsyncLogProofs ---------------------------
(***************************************************************************)
(* Theorems about AsyncLog, for every number of clients and messages and   *)
(* every size of the ring: its steps are those of a bounded first-in       *)
(* first-out queue, and dropping the logger leaves no message behind.      *)
(***************************************************************************)
EXTENDS AsyncLog, SequenceTheorems, TLAPS

-----------------------------------------------------------------------------
(* Cells of positions                                                      *)

LEMMA Division ==
    ASSUME NEW p \in Nat
    PROVE  /\ p % QueueSize \in 0..QueueSize - 1
           /\ p \div QueueSize \in Nat
           /\ p = QueueSize * (p \div QueueSize) + (p % QueueSize)
  BY LogAssumption

\* Positions less than a round apart have different cells.
LEMMA CellsApart ==
    ASSUME NEW p \in Nat, NEW q \in Nat, p # q, p < q + QueueSize, q < p + QueueSize
    PROVE  Cell(p) # Cell(q)
<1> DEFINE m == p \div QueueSize
           n == q \div QueueSize
           r == p % QueueSize
<1>1. SUFFICES ASSUME q % QueueSize = r PROVE FALSE
  BY DEF Cell
<1>2. m \in Nat /\ n \in Nat /\ r \in Nat /\ QueueSize \in Nat /\ QueueSize > 0
  BY Division, LogAssumption
<1>3. p = QueueSize * m + r /\ q = QueueSize * n + r
  BY <1>1, Division
<1> HIDE DEF m, n, r
<1>4. /\ QueueSize * m # QueueSize * n
      /\ QueueSize * m < QueueSize * (n + 1) /\ QueueSize * n < QueueSize * (m + 1)
  BY <1>2, <1>3
<1>5. CASE m > n
  BY <1>2, <1>4, <1>5
<1>6. CASE m < n
  BY <1>2, <1>4, <1>6
<1> QED
  BY <1>2, <1>4, <1>5, <1>6

\* A round later a position has the same cell again.
LEMMA NextRound ==
    ASSUME NEW p \in Nat
    PROVE  Cell(p + QueueSize) = Cell(p)
<1> DEFINE m == p \div QueueSize
           n == (p + QueueSize) \div QueueSize
           r == p % QueueSize
           s == (p + QueueSize) % QueueSize
<1>1. /\ m \in Nat /\ n \in Nat /\ QueueSize \in Nat /\ QueueSize > 0
      /\ r \in 0..QueueSize - 1 /\ s \in 0..QueueSize - 1
  BY Division, LogAssumption
<1>2. QueueSize * n + s = QueueSize * m + r + QueueSize
  BY Division, LogAssumption
<1> HIDE DEF m, n, r, s
<1>3. CASE n >= m + 2
  BY <1>1, <1>2, <1>3
<1>4. CASE n <= m
  BY <1>1, <1>2, <1>4
<1>5. CASE n = m + 1
  <2>1. QueueSize * n = QueueSize * m + QueueSize
    BY <1>1, <1>5
  <2>2. r = s
    BY <1>1, <1>2, <2>1
  <2> QED
    BY <2>2 DEF r, s, Cell
<1> QED
  BY <1>1, <1>3, <1>4, <1>5

-----------------------------------------------------------------------------
(* The ring                                                                *)

Texts == [of : Threads, n : Nat]
Cellars == [sequence : Nat, data : Texts]
ThreadRecords ==
    [pc : {"idle", "load", "check", "claim", "fill", "publish", "join", "dropped"},
     pos : Nat, sent : 0..MaxMessages + 1]
WorkerRecords == [pc : {"loop", "take", "release", "process", "ended"},
                  pos : Nat, msg : Texts]

RingTypes ==
    /\ buffer \in [0..QueueSize - 1 -> Cellars]
    /\ enqueue_pos \in Nat /\ dequeue_pos \in Nat
    /\ thread \in [Threads -> ThreadRecords]
    /\ worker \in WorkerRecords
    /\ badWorker \in BOOLEAN
    /\ written \in Seq(Texts)

SequenceAt(p) == buffer[Cell(p)].sequence
DataAt(p) == buffer[Cell(p)].data

\* The worker keeps the cell of the message it is copying: the ring starts there.
Busy == worker.pc \in {"take", "release"}
Base == IF Busy THEN worker.pos ELSE dequeue_pos

Claims(t) == thread[t].pc \in {"fill", "publish"}
Claimed(p) == \E t \in Threads : Claims(t) /\ thread[t].pos = p

Positions ==
    /\ dequeue_pos <= enqueue_pos /\ enqueue_pos <= Base + QueueSize
    /\ Busy => worker.pos + 1 = dequeue_pos

\* A cell's number tells whether its position is still to be filled.
Cells == \A p \in Base..Base + QueueSize - 1 :
            SequenceAt(p) = IF p < enqueue_pos /\ ~Claimed(p) THEN p + 1 ELSE p

\* Threads between claim and publication have positions of their own.
Claimers ==
    /\ \A t \in Threads : Claims(t) => thread[t].pos \in dequeue_pos..enqueue_pos - 1
    /\ \A t, u \in Threads :
          Claims(t) /\ Claims(u) /\ thread[t].pos = thread[u].pos => t = u
    /\ \A t \in Threads :
          thread[t].pc = "publish" => DataAt(thread[t].pos) = Current(t)

\* A thread that read the number of a free cell still finds it free when
\* nobody has claimed a position since.
Candidates ==
    \A t \in Threads :
       /\ thread[t].pc \in {"check", "claim"} => thread[t].pos <= enqueue_pos
       /\ thread[t].pc = "claim" /\ thread[t].pos = enqueue_pos =>
             enqueue_pos < Base + QueueSize

\* A thread that logs has a message.
Counts == \A t \in Threads : thread[t].pc # "idle" => thread[t].sent # 0

RingInv == RingTypes /\ Positions /\ Cells /\ Claimers /\ Candidates /\ Counts

\* What Fifo sees: the messages of the claimed positions, and those taken.
Queue == [i \in 1..(enqueue_pos - dequeue_pos) |-> MessageAt(dequeue_pos + i - 1)]
Delivered == written \o InHand

\* The message at a position is its claimer's until it is published.
PositionHolds(p) ==
    /\ \A t \in Threads : Claims(t) /\ thread[t].pos = p => MessageAt(p) = Current(t)
    /\ ~Claimed(p) => MessageAt(p) = DataAt(p)

Holdings == \A p \in Nat : PositionHolds(p)

LEMMA MessageFacts == Claimers => Holdings
<1> SUFFICES ASSUME Claimers, NEW p \in Nat PROVE PositionHolds(p)
  BY DEF Holdings
<1>1. ASSUME NEW t \in Threads, Claims(t), thread[t].pos = p
      PROVE  MessageAt(p) = Current(t)
  <2>1. Claimer(p) = {t}
    BY <1>1 DEF Claimer, Claimers, Claims
  <2> QED
    BY <2>1 DEF MessageAt
<1>2. ASSUME ~Claimed(p) PROVE MessageAt(p) = DataAt(p)
  <2>1. Claimer(p) = {}
    BY <1>2 DEF Claimer, Claimed, Claims
  <2> QED
    BY <2>1 DEF MessageAt, DataAt
<1> QED
  BY <1>1, <1>2 DEF PositionHolds

LEMMA MessageFactsNext == Claimers' => Holdings'
  BY MessageFacts, PTL

-----------------------------------------------------------------------------
(* What assignments do to one cell, and to one thread                      *)

LEMMA Window ==
    ASSUME RingInv
    PROVE  /\ Base \in Nat /\ Base <= dequeue_pos /\ dequeue_pos <= Base + 1
           /\ Base..Base + QueueSize - 1 \subseteq Nat
           /\ \A p \in Base..Base + QueueSize - 1 : Cell(p) \in 0..QueueSize - 1
           /\ \A p, q \in Base..Base + QueueSize - 1 : p # q => Cell(p) # Cell(q)
           /\ dequeue_pos..enqueue_pos - 1 \subseteq Base..Base + QueueSize - 1
           /\ QueueSize \in Nat /\ QueueSize > 1
<1>1. /\ enqueue_pos \in Nat /\ dequeue_pos \in Nat /\ worker.pos \in Nat
      /\ QueueSize \in Nat /\ QueueSize > 1
  BY LogAssumption DEF RingInv, RingTypes, WorkerRecords
<1>2. Base \in Nat /\ Base <= dequeue_pos /\ dequeue_pos <= Base + 1
  BY <1>1 DEF RingInv, Positions, Base
<1>3. Base..Base + QueueSize - 1 \subseteq Nat
  BY <1>1, <1>2
<1>4. ASSUME NEW p \in Base..Base + QueueSize - 1 PROVE Cell(p) \in 0..QueueSize - 1
  BY <1>3, Division DEF Cell
<1>5. ASSUME NEW p \in Base..Base + QueueSize - 1, NEW q \in Base..Base + QueueSize - 1, p # q
      PROVE  Cell(p) # Cell(q)
  <2>1. p \in Nat /\ q \in Nat /\ p < q + QueueSize /\ q < p + QueueSize
    BY <1>1, <1>2
  <2> QED
    BY <1>5, <2>1, CellsApart
<1>6. dequeue_pos..enqueue_pos - 1 \subseteq Base..Base + QueueSize - 1
  BY <1>1, <1>2 DEF RingInv, Positions
<1> QED
  BY <1>1, <1>2, <1>3, <1>4, <1>5, <1>6

LEMMA CellSet ==
    ASSUME RingTypes, NEW p \in Nat, Cell(p) \in 0..QueueSize - 1, NEW c \in Cellars,
           buffer' = [buffer EXCEPT ![Cell(p)] = c]
    PROVE  /\ buffer' \in [0..QueueSize - 1 -> Cellars]
           /\ buffer'[Cell(p)] = c
           /\ \A q \in Nat : Cell(q) # Cell(p) => buffer'[Cell(q)] = buffer[Cell(q)]
<1>1. ASSUME NEW q \in Nat PROVE Cell(q) \in 0..QueueSize - 1
  BY Division DEF Cell
<1> QED
  BY <1>1 DEF RingTypes

LEMMA SequenceSet ==
    ASSUME RingTypes, NEW p \in Nat, NEW v \in Nat,
           buffer' = [buffer EXCEPT ![Cell(p)].sequence = v]
    PROVE  /\ buffer' \in [0..QueueSize - 1 -> Cellars]
           /\ SequenceAt(p)' = v
           /\ \A q \in Nat : Cell(q) # Cell(p) => SequenceAt(q)' = SequenceAt(q)
           /\ \A q \in Nat : DataAt(q)' = DataAt(q)
<1>1. Cell(p) \in 0..QueueSize - 1
  BY Division DEF Cell
<1> DEFINE c == [sequence |-> v, data |-> buffer[Cell(p)].data]
<1>2. buffer[Cell(p)] \in Cellars
  BY <1>1 DEF RingTypes
<1>3. c \in Cellars /\ c = [buffer[Cell(p)] EXCEPT !.sequence = v]
  BY <1>2 DEF Cellars
<1>4. buffer' = [buffer EXCEPT ![Cell(p)] = c]
  BY <1>3
<1>5. c.sequence = v /\ c.data = buffer[Cell(p)].data
  OBVIOUS
<1> HIDE DEF c
<1>6. /\ buffer' \in [0..QueueSize - 1 -> Cellars]
      /\ buffer'[Cell(p)] = c
      /\ \A q \in Nat : Cell(q) # Cell(p) => buffer'[Cell(q)] = buffer[Cell(q)]
  BY <1>1, <1>3, <1>4, CellSet
<1> QED
  BY <1>5, <1>6 DEF SequenceAt, DataAt

LEMMA DataSet ==
    ASSUME RingTypes, NEW p \in Nat, NEW v \in Texts,
           buffer' = [buffer EXCEPT ![Cell(p)].data = v]
    PROVE  /\ buffer' \in [0..QueueSize - 1 -> Cellars]
           /\ DataAt(p)' = v
           /\ \A q \in Nat : Cell(q) # Cell(p) => DataAt(q)' = DataAt(q)
           /\ \A q \in Nat : SequenceAt(q)' = SequenceAt(q)
<1>1. Cell(p) \in 0..QueueSize - 1
  BY Division DEF Cell
<1> DEFINE c == [sequence |-> buffer[Cell(p)].sequence, data |-> v]
<1>2. buffer[Cell(p)] \in Cellars
  BY <1>1 DEF RingTypes
<1>3. c \in Cellars /\ c = [buffer[Cell(p)] EXCEPT !.data = v]
  BY <1>2 DEF Cellars
<1>4. buffer' = [buffer EXCEPT ![Cell(p)] = c]
  BY <1>3
<1>5. c.data = v /\ c.sequence = buffer[Cell(p)].sequence
  OBVIOUS
<1> HIDE DEF c
<1>6. /\ buffer' \in [0..QueueSize - 1 -> Cellars]
      /\ buffer'[Cell(p)] = c
      /\ \A q \in Nat : Cell(q) # Cell(p) => buffer'[Cell(q)] = buffer[Cell(q)]
  BY <1>1, <1>3, <1>4, CellSet
<1> QED
  BY <1>5, <1>6 DEF SequenceAt, DataAt

\* One thread moves.
Moves(t, pc, pos, sent) ==
    /\ thread' \in [Threads -> ThreadRecords]
    /\ thread'[t].pc = pc /\ thread'[t].pos = pos /\ thread'[t].sent = sent
    /\ \A u \in Threads : u # t => thread'[u] = thread[u]

LEMMA ThreadFields ==
    ASSUME RingTypes, NEW t \in Threads
    PROVE  /\ thread[t] \in ThreadRecords
           /\ thread[t].pos \in Nat /\ thread[t].sent \in 0..MaxMessages + 1
           /\ thread[t] = [pc |-> thread[t].pc, pos |-> thread[t].pos, sent |-> thread[t].sent]
  BY DEF RingTypes, ThreadRecords

LEMMA Goes ==
    ASSUME RingTypes, NEW t \in Threads, NEW pc,
           pc \in {"idle", "load", "check", "claim", "fill", "publish", "join", "dropped"},
           Goto(t, pc)
    PROVE  Moves(t, pc, thread[t].pos, thread[t].sent)
  BY DEF RingTypes, ThreadRecords, Goto, Moves

LEMMA Looks ==
    ASSUME RingTypes, NEW t \in Threads,
           thread' = [thread EXCEPT ![t].pc = "check", ![t].pos = enqueue_pos]
    PROVE  Moves(t, "check", enqueue_pos, thread[t].sent)
  BY DEF RingTypes, ThreadRecords, Moves

LEMMA CountedTo ==
    ASSUME RingTypes, NEW t \in Threads, NEW n \in 0..MaxMessages + 1,
           thread' = [thread EXCEPT ![t].pc = "load", ![t].sent = n]
    PROVE  Moves(t, "load", thread[t].pos, n)
  BY DEF RingTypes, ThreadRecords, Moves

LEMMA Counted ==
    ASSUME RingTypes, NEW t \in Threads, thread[t].sent < MaxMessages + 1,
           thread' = [thread EXCEPT ![t].pc = "load", ![t].sent = @ + 1]
    PROVE  Moves(t, "load", thread[t].pos, thread[t].sent + 1)
<1>1. ASSUME NEW n \in 0..MaxMessages + 1, n < MaxMessages + 1
      PROVE  n + 1 \in 0..MaxMessages + 1
  BY <1>1, LogAssumption
<1>2. thread[t].sent + 1 \in 0..MaxMessages + 1
  BY <1>1, ThreadFields
<1> QED
  BY <1>2, CountedTo

-----------------------------------------------------------------------------
(* Every step keeps the ring, and is a step of the queue or changes nothing *)
(* of it.                                                                  *)

LEMMA QueueSame ==
    ASSUME UNCHANGED <<enqueue_pos, dequeue_pos>>, RingTypes,
           \A p \in dequeue_pos..enqueue_pos - 1 : MessageAt(p)' = MessageAt(p)
    PROVE  Queue' = Queue
<1>1. enqueue_pos \in Int /\ dequeue_pos \in Int
  BY DEF RingTypes
<1>2. \A i \in 1..(enqueue_pos - dequeue_pos) :
         dequeue_pos + i - 1 \in dequeue_pos..enqueue_pos - 1
  BY <1>1
<1>3. \A i \in 1..(enqueue_pos - dequeue_pos) :
         MessageAt(dequeue_pos + i - 1)' = MessageAt(dequeue_pos + i - 1)
  BY <1>2
<1> QED
  BY <1>3 DEF Queue

LEMMA DeliveredSame ==
    ASSUME UNCHANGED <<written, worker>>,
           worker.pc = "take" => DataAt(worker.pos)' = DataAt(worker.pos)
    PROVE  Delivered' = Delivered
<1>1. InHand' = InHand
  BY DEF InHand, DataAt
<1> QED
  BY <1>1 DEF Delivered

\* A thread that has no position moves without one.
LEMMA NoClaim ==
    ASSUME RingInv, NEW t \in Threads, NEW pc, NEW pos, NEW sent, Moves(t, pc, pos, sent),
           ~Claims(t), pc \notin {"fill", "publish"},
           pc \in {"check", "claim"} => pos <= enqueue_pos,
           pc = "claim" /\ pos = enqueue_pos => enqueue_pos < Base + QueueSize,
           pc # "idle" => sent # 0,
           UNCHANGED <<buffer, enqueue_pos, dequeue_pos, worker, written>>,
           badWorker' \in BOOLEAN
    PROVE  RingInv' /\ UNCHANGED <<Queue, Delivered>>
<1>1. RingTypes'
  BY DEF RingInv, RingTypes, Moves
<1>2. Base' = Base /\ (Busy' <=> Busy)
  BY DEF Base, Busy
<1>3. /\ ~Claims(t)'
      /\ \A u \in Threads : Claims(u)' <=> Claims(u)
      /\ \A u \in Threads : Claims(u) => thread'[u] = thread[u]
      /\ \A p : Claimed(p)' <=> Claimed(p)
  BY DEF Moves, Claims, Claimed
<1>4. Positions'
  BY <1>2 DEF RingInv, Positions
<1>5. Cells'
  BY <1>2, <1>3 DEF RingInv, Cells, SequenceAt, Cell
<1>6. Claimers'
  <2>1. ASSUME NEW u \in Threads, thread'[u].pc = "publish"
        PROVE  buffer'[Cell(thread'[u].pos)].data = Message(u, thread'[u].sent)
    <3>1. thread[u].pc = "publish" /\ thread'[u] = thread[u]
      BY <1>3, <2>1 DEF Claims
    <3> QED
      BY <3>1 DEF RingInv, Claimers, DataAt, Current
  <2> QED
    BY <1>3, <2>1 DEF RingInv, Claimers, DataAt, Current
<1>7. Candidates'
  <2>1. ASSUME NEW u \in Threads
        PROVE  /\ thread'[u].pc \in {"check", "claim"} => thread'[u].pos <= enqueue_pos
               /\ thread'[u].pc = "claim" /\ thread'[u].pos = enqueue_pos =>
                     enqueue_pos < Base + QueueSize
    <3>1. CASE u = t
      BY <3>1 DEF Moves
    <3>2. CASE u # t
      BY <3>2 DEF Moves, RingInv, Candidates
    <3> QED
      BY <3>1, <3>2
  <2> QED
    BY <1>2, <2>1 DEF Candidates
<1>8. Counts'
  BY DEF RingInv, Counts, Moves
<1>9. \A p : MessageAt(p)' = MessageAt(p)
  <2>1. ASSUME NEW p PROVE Claimer(p)' = Claimer(p)
    BY <1>3 DEF Claimer, Claims
  <2>2. ASSUME NEW p, Claimer(p) # {} PROVE MessageAt(p)' = MessageAt(p)
    <3>1. PICK u \in Claimer(p) : u = CHOOSE v \in Claimer(p) : TRUE
      BY <2>2
    <3>2. u \in Threads /\ Claims(u)
      BY DEF Claimer, Claims
    <3>3. Current(u)' = Current(u)
      BY <1>3, <3>2 DEF Current
    <3>4. MessageAt(p) = Current(u) /\ MessageAt(p)' = Current(u)'
      BY <2>1, <2>2, <3>1 DEF MessageAt
    <3> QED
      BY <3>3, <3>4
  <2>3. ASSUME NEW p, Claimer(p) = {} PROVE MessageAt(p)' = MessageAt(p)
    BY <2>1, <2>3 DEF MessageAt
  <2> QED
    BY <2>2, <2>3
<1>10. Queue' = Queue /\ Delivered' = Delivered
  BY <1>9, QueueSame, DeliveredSame DEF RingInv, DataAt
<1> QED
  BY <1>1, <1>4, <1>5, <1>6, <1>7, <1>8, <1>10 DEF RingInv

LEMMA CurrentText == ASSUME RingTypes, NEW t \in Threads PROVE Current(t) \in Texts
<1>1. \A n \in 0..MaxMessages + 1 : n \in Nat
  BY LogAssumption
<1>2. thread[t].sent \in Nat
  BY <1>1, ThreadFields
<1> QED
  BY <1>2 DEF Current, Message, Texts

QueueShape ==
    /\ Queue \in Seq(Texts)
    /\ Len(Queue) = enqueue_pos - dequeue_pos
    /\ \A i \in 1..(enqueue_pos - dequeue_pos) : Queue[i] = MessageAt(dequeue_pos + i - 1)
    /\ InHand \in Seq(Texts) /\ Delivered \in Seq(Texts)

LEMMA QueueFacts == RingInv => QueueShape
<1> SUFFICES ASSUME RingInv PROVE QueueShape
  OBVIOUS
<1>1. ASSUME NEW p \in dequeue_pos..enqueue_pos - 1 PROVE MessageAt(p) \in Texts
  <2>1. p \in Nat /\ Cell(p) \in 0..QueueSize - 1 /\ PositionHolds(p)
    BY Window, MessageFacts DEF RingInv, Holdings
  <2>2. DataAt(p) \in Texts
    BY <2>1 DEF RingInv, RingTypes, Cellars, DataAt
  <2> QED
    BY <2>1, <2>2, CurrentText DEF PositionHolds, Claimed, RingInv
<1> DEFINE n == enqueue_pos - dequeue_pos
<1>2. n \in Nat /\ \A i \in 1..n : dequeue_pos + i - 1 \in dequeue_pos..enqueue_pos - 1
  BY DEF RingInv, RingTypes, Positions
<1>3. \A i \in 1..n : MessageAt(dequeue_pos + i - 1) \in Texts
  BY <1>1, <1>2
<1>4. Queue = [i \in 1..n |-> MessageAt(dequeue_pos + i - 1)]
  BY DEF Queue
<1>5. Queue \in Seq(Texts) /\ Len(Queue) = n
  <2> HIDE DEF n
  <2>1. Queue \in [1..n -> Texts]
    BY <1>3, <1>4
  <2> QED
    BY <1>2, <2>1
<1>6. \A i \in 1..n : Queue[i] = MessageAt(dequeue_pos + i - 1)
  BY <1>4
<1>7. InHand \in Seq(Texts)
  <2>1. CASE worker.pc = "loop"
    BY <2>1 DEF InHand
  <2>2. CASE worker.pc = "take"
    <3>1. worker.pos = Base
      BY <2>2 DEF Base, Busy
    <3>2. Base \in Base..Base + QueueSize - 1
      BY Window
    <3>3. Cell(worker.pos) \in 0..QueueSize - 1
      BY <3>1, <3>2, Window
    <3>4. buffer[Cell(worker.pos)].data \in Texts
      BY <3>3 DEF RingInv, RingTypes, Cellars
    <3>5. InHand = <<buffer[Cell(worker.pos)].data>>
      BY <2>2 DEF InHand
    <3> QED
      BY <3>4, <3>5
  <2>3. CASE worker.pc \notin {"loop", "take"}
    <3>1. InHand = <<worker.msg>> /\ worker.msg \in Texts
      BY <2>3 DEF InHand, RingInv, RingTypes, WorkerRecords
    <3> QED
      BY <3>1
  <2> QED
    BY <2>1, <2>2, <2>3
<1>8. Delivered \in Seq(Texts)
  BY <1>7, ConcatProperties DEF Delivered, RingInv, RingTypes
<1> QED
  BY <1>5, <1>6, <1>7, <1>8 DEF QueueShape

LEMMA QueueFactsNext == RingInv' => QueueShape'
  BY QueueFacts, PTL

\* What the abstract queue does.
Puts(m) ==
    /\ Len(Queue) < QueueSize
    /\ Queue' = Append(Queue, m)
    /\ Delivered' = Delivered
Gets ==
    /\ Queue # <<>>
    /\ Delivered' = Append(Delivered, Head(Queue))
    /\ Queue' = Tail(Queue)

LEMMA QueuePut ==
    ASSUME RingInv, RingInv', enqueue_pos' = enqueue_pos + 1, dequeue_pos' = dequeue_pos,
           NEW m \in Texts,
           \A p \in dequeue_pos..enqueue_pos - 1 : MessageAt(p)' = MessageAt(p),
           \A p : p = enqueue_pos => MessageAt(p)' = m
    PROVE  Queue' = Append(Queue, m)
<1> DEFINE n == enqueue_pos - dequeue_pos
<1>1. QueueShape /\ QueueShape'
  BY QueueFacts, QueueFactsNext
<1>2. /\ n \in Nat /\ enqueue_pos' - dequeue_pos' = n + 1
      /\ \A i \in 1..n : dequeue_pos + i - 1 \in dequeue_pos..enqueue_pos - 1
      /\ dequeue_pos + (n + 1) - 1 = enqueue_pos
      /\ \A i \in 1..n + 1 : i \in 1..n \/ i = n + 1
      /\ 1..n \subseteq 1..n + 1 /\ n + 1 \in 1..n + 1
  BY DEF RingInv, RingTypes, Positions
<1>3. /\ Queue' \in Seq(Texts) /\ Len(Queue') = n + 1
      /\ Queue \in Seq(Texts) /\ Len(Queue) = n
  BY <1>1, <1>2 DEF QueueShape
<1>4. ASSUME NEW i \in 1..n PROVE Queue'[i] = Queue[i]
  <2>1. PICK p \in dequeue_pos..enqueue_pos - 1 : p = dequeue_pos + i - 1
    BY <1>2
  <2>2. Queue[i] = MessageAt(p)
    BY <1>1, <2>1 DEF QueueShape
  <2>3. Queue'[i] = MessageAt(p)'
    BY <1>1, <1>2, <2>1 DEF QueueShape
  <2> QED
    BY <2>2, <2>3
<1>5. Queue'[n + 1] = m
  <2>1. PICK p : p = enqueue_pos
    OBVIOUS
  <2>2. p = dequeue_pos' + (n + 1) - 1
    BY <1>2, <2>1
  <2>3. Queue'[n + 1] = MessageAt(p)'
    BY <1>1, <1>2, <2>2 DEF QueueShape
  <2> QED
    BY <2>1, <2>3
<1>6. /\ Append(Queue, m) \in Seq(Texts) /\ Len(Append(Queue, m)) = n + 1
      /\ \A i \in 1..n : Append(Queue, m)[i] = Queue[i]
      /\ Append(Queue, m)[n + 1] = m
  BY <1>3, AppendProperties
<1>7. \A i \in 1..Len(Queue') : Queue'[i] = Append(Queue, m)[i]
  BY <1>2, <1>3, <1>4, <1>5, <1>6
<1> QED
  BY <1>3, <1>6, <1>7, SeqEqual

LEMMA QueueGet ==
    ASSUME RingInv, RingInv', enqueue_pos' = enqueue_pos, dequeue_pos' = dequeue_pos + 1,
           \A p \in dequeue_pos..enqueue_pos - 1 : MessageAt(p)' = MessageAt(p)
    PROVE  /\ Queue # <<>> /\ Queue' = Tail(Queue)
           /\ \A p : p = dequeue_pos => Head(Queue) = MessageAt(p)
<1> DEFINE n == enqueue_pos - dequeue_pos
<1>1. QueueShape /\ QueueShape'
  BY QueueFacts, QueueFactsNext
<1>2. /\ n \in Nat /\ n > 0 /\ enqueue_pos' - dequeue_pos' = n - 1
      /\ \A i \in 1..n - 1 : /\ dequeue_pos + i \in dequeue_pos..enqueue_pos - 1
                             /\ dequeue_pos + (i + 1) - 1 = dequeue_pos + i
                             /\ dequeue_pos' + i - 1 = dequeue_pos + i
                             /\ i + 1 \in 1..n
      /\ 1 \in 1..n /\ dequeue_pos + 1 - 1 = dequeue_pos
  BY DEF RingInv, RingTypes, Positions
<1>3. /\ Queue' \in Seq(Texts) /\ Len(Queue') = n - 1
      /\ Queue \in Seq(Texts) /\ Len(Queue) = n
  BY <1>1, <1>2 DEF QueueShape
<1>4. Queue # <<>>
  BY <1>2, <1>3
<1>5. /\ Tail(Queue) \in Seq(Texts) /\ Len(Tail(Queue)) = n - 1
      /\ \A i \in 1..n - 1 : Tail(Queue)[i] = Queue[i + 1]
  BY <1>3, <1>4, HeadTailProperties
<1>6. ASSUME NEW i \in 1..n - 1 PROVE Queue'[i] = Queue[i + 1]
  <2>1. PICK p \in dequeue_pos..enqueue_pos - 1 : p = dequeue_pos + i
    BY <1>2
  <2>2. Queue[i + 1] = MessageAt(p)
    BY <1>1, <1>2, <2>1 DEF QueueShape
  <2>3. Queue'[i] = MessageAt(p)'
    BY <1>1, <1>2, <2>1 DEF QueueShape
  <2> QED
    BY <2>2, <2>3
<1>7. Queue' = Tail(Queue)
  BY <1>3, <1>5, <1>6, SeqEqual
<1>8. ASSUME NEW p, p = dequeue_pos PROVE Head(Queue) = MessageAt(p)
  <2>1. Queue[1] = MessageAt(p)
    BY <1>1, <1>2, <1>8 DEF QueueShape
  <2> QED
    BY <1>3, <1>4, <2>1
<1> QED
  BY <1>4, <1>7, <1>8

\* A position is claimed: the message is put.
LEMMA ClaimPuts ==
    ASSUME RingInv, NEW t \in Threads, Claim(t), Mine(t)
    PROVE  RingInv' /\ Puts(Current(t)) /\ Current(t) \in Messages
<1> DEFINE pos == thread[t].pos
<1>1. /\ thread[t].pc = "claim" /\ pos = enqueue_pos /\ enqueue_pos < Base + QueueSize
      /\ enqueue_pos' = enqueue_pos + 1 /\ Goto(t, "fill")
      /\ UNCHANGED <<buffer, dequeue_pos, worker, badWorker, written>>
  BY DEF Claim, Mine, RingInv, Candidates
<1>2. Moves(t, "fill", enqueue_pos, thread[t].sent)
  BY <1>1, Goes DEF RingInv
<1>3. RingTypes'
  BY <1>1, <1>2 DEF RingInv, RingTypes, Moves
<1>4. Base' = Base /\ (Busy' <=> Busy)
  BY <1>1 DEF Base, Busy
<1>5. /\ ~Claims(t) /\ Claims(t)'
      /\ \A u \in Threads : u # t => (Claims(u)' <=> Claims(u))
      /\ \A p : Claimed(p)' <=> Claimed(p) \/ p = enqueue_pos
  BY <1>1, <1>2 DEF Moves, Claims, Claimed
<1>6. enqueue_pos \in Nat /\ dequeue_pos \in Nat /\ Base \in Nat /\ QueueSize \in Nat
      /\ dequeue_pos <= enqueue_pos
  BY Window DEF RingInv, RingTypes, Positions
<1>7. Positions'
  BY <1>1, <1>4, <1>6 DEF RingInv, Positions
<1>8. Cells'
  <2>1. ASSUME NEW p \in Base..Base + QueueSize - 1
        PROVE  SequenceAt(p) = IF p < enqueue_pos + 1 /\ ~Claimed(p)' THEN p + 1 ELSE p
    <3>1. p < enqueue_pos + 1 <=> p < enqueue_pos \/ p = enqueue_pos
      BY <1>6
    <3>2. ~(enqueue_pos < enqueue_pos)
      BY <1>6
    <3>3. SequenceAt(p) = IF p < enqueue_pos /\ ~Claimed(p) THEN p + 1 ELSE p
      BY DEF RingInv, Cells
    <3> QED
      BY <1>5, <3>1, <3>2, <3>3
  <2> QED
    BY <1>1, <1>4, <2>1 DEF Cells, SequenceAt, Cell
<1>9. Claimers'
  <2>1. ASSUME NEW u \in Threads, Claims(u)'
        PROVE  thread'[u].pos \in dequeue_pos..(enqueue_pos + 1) - 1
    <3>1. CASE u = t
      BY <1>2, <1>6, <3>1 DEF Moves
    <3>2. CASE u # t
      <4>1. thread[u].pos \in dequeue_pos..enqueue_pos - 1
        BY <1>5, <2>1, <3>2 DEF RingInv, Claimers
      <4> QED
        BY <1>2, <1>6, <3>2, <4>1 DEF Moves
    <3> QED
      BY <3>1, <3>2
  <2>2. ASSUME NEW u \in Threads, u # t, Claims(u) PROVE thread[u].pos # enqueue_pos
    BY <1>6, <2>2 DEF RingInv, Claimers
  <2>3. ASSUME NEW u \in Threads, NEW v \in Threads, Claims(u)', Claims(v)',
               thread'[u].pos = thread'[v].pos
        PROVE  u = v
    BY <1>2, <1>5, <2>2, <2>3 DEF Moves, RingInv, Claimers
  <2>4. ASSUME NEW u \in Threads, thread'[u].pc = "publish"
        PROVE  buffer'[Cell(thread'[u].pos)].data = Message(u, thread'[u].sent)
    BY <1>1, <1>2, <2>4 DEF Moves, RingInv, Claimers, DataAt, Current
  <2> QED
    BY <1>1, <2>1, <2>3, <2>4 DEF Claimers, DataAt, Current
<1>10. Candidates'
  <2>1. ASSUME NEW u \in Threads, thread'[u].pc \in {"check", "claim"}
        PROVE  thread'[u].pos <= enqueue_pos
    BY <1>2, <2>1 DEF Moves, RingInv, Candidates
  <2>2. ASSUME NEW u \in Threads PROVE thread'[u].pos \in Nat
    BY <1>3 DEF RingTypes, ThreadRecords
  <2> QED
    BY <1>1, <1>6, <2>1, <2>2 DEF Candidates
<1>11. Counts'
  BY <1>1, <1>2 DEF RingInv, Counts, Moves
<1>12. RingInv'
  BY <1>3, <1>7, <1>8, <1>9, <1>10, <1>11 DEF RingInv
<1>13. Holdings /\ Holdings'
  BY <1>9, MessageFacts, MessageFactsNext DEF RingInv
<1>14. ASSUME NEW p \in dequeue_pos..enqueue_pos - 1 PROVE MessageAt(p)' = MessageAt(p)
  <2>1. p \in Nat /\ p # enqueue_pos
    BY <1>6
  <2>2. PositionHolds(p) /\ PositionHolds(p)'
    BY <1>13, <2>1 DEF Holdings
  <2>3. CASE Claimed(p)
    <3>1. PICK u \in Threads : Claims(u) /\ thread[u].pos = p
      BY <2>3 DEF Claimed
    <3>2. u # t /\ thread'[u] = thread[u] /\ Claims(u)'
      BY <1>2, <1>5, <3>1 DEF Moves
    <3>3. Current(u)' = Current(u)
      BY <3>2 DEF Current
    <3> QED
      BY <2>2, <3>1, <3>2, <3>3 DEF PositionHolds
  <2>4. CASE ~Claimed(p)
    <3>1. ~Claimed(p)'
      BY <1>5, <2>1, <2>4
    <3> QED
      BY <1>1, <2>2, <2>4, <3>1 DEF PositionHolds, DataAt
  <2> QED
    BY <2>3, <2>4
<1>15. ASSUME NEW p, p = enqueue_pos PROVE MessageAt(p)' = Current(t)
  <2>1. PositionHolds(p)'
    BY <1>6, <1>13, <1>15 DEF Holdings
  <2>2. Claims(t)' /\ thread'[t].pos = p
    BY <1>2, <1>5, <1>15 DEF Moves
  <2>3. Current(t)' = Current(t)
    BY <1>2 DEF Moves, Current
  <2> QED
    BY <2>1, <2>2, <2>3 DEF PositionHolds
<1>16. Current(t) \in Texts
  BY CurrentText DEF RingInv
<1>17. Queue' = Append(Queue, Current(t))
  <2>1. PICK m \in Texts : m = Current(t)
    BY <1>16
  <2> QED
    BY <1>1, <1>12, <1>14, <1>15, <2>1, QueuePut
<1>18. Len(Queue) < QueueSize
  <2>1. enqueue_pos - dequeue_pos < QueueSize
    BY <1>1, <1>6, Window
  <2> QED
    BY <2>1, QueueFacts DEF QueueShape
<1>19. Delivered' = Delivered
  BY <1>1, DeliveredSame DEF DataAt
<1>20. Current(t) \in Messages
  <2>1. \A n \in 0..MaxMessages + 1 : n # 0 => n \in 1..MaxMessages + 1
    BY LogAssumption
  <2>2. thread[t].sent \in 1..MaxMessages + 1
    BY <1>1, <2>1, ThreadFields DEF RingInv, Counts
  <2> QED
    BY <2>2 DEF Current, Messages
<1> QED
  BY <1>12, <1>17, <1>18, <1>19, <1>20 DEF Puts

\* The message is written into its cell, of which nobody reads yet.
LEMMA FillKeeps ==
    ASSUME RingInv, NEW t \in Threads, Fill(t)
    PROVE  RingInv' /\ UNCHANGED <<Queue, Delivered>>
<1>1. PICK pos \in Nat : pos = thread[t].pos
  BY ThreadFields DEF RingInv
<1>2. /\ thread[t].pc = "fill" /\ Goto(t, "publish")
      /\ buffer' = [buffer EXCEPT ![Cell(pos)].data = Current(t)]
      /\ UNCHANGED <<enqueue_pos, dequeue_pos, worker, badWorker, written>>
  BY <1>1 DEF Fill
<1>3. Moves(t, "publish", pos, thread[t].sent)
  BY <1>1, <1>2, Goes DEF RingInv
<1>4. PICK m \in Texts : m = Current(t)
  BY CurrentText DEF RingInv
<1>5. /\ buffer' \in [0..QueueSize - 1 -> Cellars]
      /\ DataAt(pos)' = m
      /\ \A q \in Nat : Cell(q) # Cell(pos) => DataAt(q)' = DataAt(q)
      /\ \A q \in Nat : SequenceAt(q)' = SequenceAt(q)
  BY <1>2, <1>4, DataSet DEF RingInv
<1>6. RingTypes'
  BY <1>2, <1>3, <1>5 DEF RingInv, RingTypes, Moves
<1>7. Base' = Base /\ (Busy' <=> Busy)
  BY <1>2 DEF Base, Busy
<1>8. /\ Claims(t) /\ \A u \in Threads : Claims(u)' <=> Claims(u)
      /\ \A u \in Threads : thread'[u].pos = thread[u].pos /\ thread'[u].sent = thread[u].sent
      /\ \A u \in Threads : Current(u)' = Current(u)
  BY <1>1, <1>2, <1>3 DEF Moves, Claims, Current
<1>9. \A p : Claimed(p)' <=> Claimed(p)
  BY <1>8 DEF Claimed
<1>10. Positions'
  BY <1>2, <1>7 DEF RingInv, Positions
<1>11. Cells'
  <2>1. ASSUME NEW p \in Base..Base + QueueSize - 1
        PROVE  SequenceAt(p)' = IF p < enqueue_pos /\ ~Claimed(p)' THEN p + 1 ELSE p
    <3>1. p \in Nat
      BY Window
    <3> QED
      BY <1>5, <1>9, <3>1 DEF RingInv, Cells
  <2> QED
    BY <1>2, <1>7, <2>1 DEF Cells
<1>12. /\ pos \in dequeue_pos..enqueue_pos - 1
       /\ \A u \in Threads : u # t /\ Claims(u) => thread[u].pos # pos
       /\ \A u \in Threads : Claims(u) => thread[u].pos \in dequeue_pos..enqueue_pos - 1
  BY <1>1, <1>8 DEF RingInv, Claimers
<1>13. ASSUME NEW q \in Base..Base + QueueSize - 1, q # pos PROVE DataAt(q)' = DataAt(q)
  BY <1>5, <1>12, <1>13, Window
<1>14. Claimers'
  <2>1. ASSUME NEW u \in Threads, thread'[u].pc = "publish"
        PROVE  buffer'[Cell(thread'[u].pos)].data = Message(u, thread'[u].sent)
    <3>1. CASE u = t
      BY <1>3, <1>4, <1>5, <3>1 DEF Moves, DataAt, Current
    <3>2. CASE u # t
      <4>1. thread[u].pc = "publish" /\ Claims(u) /\ thread'[u] = thread[u]
        BY <1>3, <2>1, <3>2 DEF Moves, Claims
      <4>2. PICK q \in Base..Base + QueueSize - 1 : q = thread[u].pos /\ q # pos
        BY <1>12, <3>2, <4>1, Window
      <4>3. DataAt(q)' = Current(u)
        BY <1>13, <4>1, <4>2 DEF RingInv, Claimers
      <4> QED
        BY <4>1, <4>2, <4>3 DEF DataAt, Current
    <3> QED
      BY <3>1, <3>2
  <2>2. ASSUME NEW u \in Threads, NEW v \in Threads, Claims(u)', Claims(v)',
               thread'[u].pos = thread'[v].pos
        PROVE  u = v
    BY <1>8, <2>2 DEF RingInv, Claimers
  <2>3. \A u \in Threads : Claims(u)' => thread'[u].pos \in dequeue_pos..enqueue_pos - 1
    BY <1>8, <1>12
  <2> QED
    BY <1>2, <2>1, <2>2, <2>3 DEF Claimers, DataAt, Current
<1>15. Candidates'
  <2>1. \A u \in Threads : thread'[u].pc \in {"check", "claim"} =>
           thread'[u] = thread[u]
    BY <1>3 DEF Moves
  <2> QED
    BY <1>2, <1>7, <1>8, <2>1 DEF RingInv, Candidates
<1>16. Counts'
  BY <1>2, <1>3, <1>8 DEF RingInv, Counts, Moves
<1>17. RingInv'
  BY <1>6, <1>10, <1>11, <1>14, <1>15, <1>16 DEF RingInv
<1>18. ASSUME NEW p \in dequeue_pos..enqueue_pos - 1 PROVE MessageAt(p)' = MessageAt(p)
  <2>1. p \in Base..Base + QueueSize - 1 /\ p \in Nat
    BY Window
  <2>2. PositionHolds(p) /\ PositionHolds(p)'
    BY <1>14, <2>1, MessageFacts, MessageFactsNext DEF RingInv, Holdings
  <2>3. CASE Claimed(p)
    <3>1. PICK u \in Threads : Claims(u) /\ thread[u].pos = p
      BY <2>3 DEF Claimed
    <3> QED
      BY <1>8, <2>2, <3>1 DEF PositionHolds
  <2>4. CASE ~Claimed(p)
    <3>1. p # pos
      BY <1>1, <1>8, <2>4 DEF Claimed
    <3> QED
      BY <1>9, <1>13, <2>1, <2>2, <2>4, <3>1 DEF PositionHolds
  <2> QED
    BY <2>3, <2>4
<1>19. Queue' = Queue
  BY <1>2, <1>18, QueueSame DEF RingInv
<1>20. Delivered' = Delivered
  <2>1. ASSUME worker.pc = "take" PROVE DataAt(worker.pos)' = DataAt(worker.pos)
    <3>1. Busy /\ worker.pos = Base
      BY <2>1 DEF Busy, Base
    <3>2. Base + 1 = dequeue_pos
      BY <3>1 DEF RingInv, Positions
    <3>3. Base \in Base..Base + QueueSize - 1 /\ Base # pos
      BY <1>12, <3>2, Window
    <3>4. PICK q \in Base..Base + QueueSize - 1 : q = worker.pos /\ q # pos
      BY <3>1, <3>3
    <3>5. DataAt(q)' = DataAt(q)
      BY <1>13, <3>4
    <3> QED
      BY <1>2, <3>4, <3>5 DEF DataAt
  <2> QED
    BY <1>2, <2>1, DeliveredSame
<1> QED
  BY <1>17, <1>19, <1>20

\* The cell is given to the worker, with the message in it.
LEMMA PublishKeeps ==
    ASSUME RingInv, NEW t \in Threads, Publish(t)
    PROVE  RingInv' /\ UNCHANGED <<Queue, Delivered>>
<1>1. PICK pos \in Nat : pos = thread[t].pos
  BY ThreadFields DEF RingInv
<1>2. PICK pc \in {"join", "idle"} : Goto(t, pc)
  BY DEF Publish
<1>3. /\ thread[t].pc = "publish"
      /\ buffer' = [buffer EXCEPT ![Cell(pos)].sequence = pos + 1]
      /\ UNCHANGED <<enqueue_pos, dequeue_pos, worker, badWorker, written>>
  BY <1>1 DEF Publish, Filled
<1>4. Moves(t, pc, pos, thread[t].sent)
  BY <1>1, <1>2, Goes DEF RingInv
<1>5. /\ buffer' \in [0..QueueSize - 1 -> Cellars]
      /\ SequenceAt(pos)' = pos + 1
      /\ \A q \in Nat : Cell(q) # Cell(pos) => SequenceAt(q)' = SequenceAt(q)
      /\ \A q \in Nat : DataAt(q)' = DataAt(q)
  <2>1. PICK v \in Nat : v = pos + 1
    OBVIOUS
  <2> QED
    BY <1>3, <2>1, SequenceSet DEF RingInv
<1>6. RingTypes'
  BY <1>3, <1>4, <1>5 DEF RingInv, RingTypes, Moves
<1>7. Base' = Base /\ (Busy' <=> Busy)
  BY <1>3 DEF Base, Busy
<1>8. /\ Claims(t) /\ ~Claims(t)'
      /\ \A u \in Threads : u # t => (Claims(u)' <=> Claims(u)) /\ thread'[u] = thread[u]
      /\ \A u \in Threads : Current(u)' = Current(u)
  BY <1>1, <1>3, <1>4 DEF Moves, Claims, Current
<1>9. /\ pos \in dequeue_pos..enqueue_pos - 1
      /\ \A u \in Threads : u # t /\ Claims(u) => thread[u].pos # pos
      /\ \A u \in Threads : Claims(u) => thread[u].pos \in dequeue_pos..enqueue_pos - 1
      /\ DataAt(pos) = Current(t)
  BY <1>1, <1>3, <1>8 DEF RingInv, Claimers
<1>10. \A p : Claimed(p)' <=> Claimed(p) /\ p # pos
  BY <1>1, <1>8, <1>9 DEF Claimed
<1>11. Positions'
  BY <1>3, <1>7 DEF RingInv, Positions
<1>12. Cells'
  <2>1. ASSUME NEW p \in Base..Base + QueueSize - 1
        PROVE  SequenceAt(p)' = IF p < enqueue_pos /\ ~Claimed(p)' THEN p + 1 ELSE p
    <3>1. p \in Nat /\ pos \in Base..Base + QueueSize - 1 /\ pos < enqueue_pos
      BY <1>9, Window DEF RingInv, RingTypes
    <3>2. CASE p = pos
      BY <1>5, <1>10, <3>1, <3>2
    <3>3. CASE p # pos
      <4>1. SequenceAt(p)' = SequenceAt(p)
        BY <1>5, <3>1, <3>3, Window
      <4> QED
        BY <1>10, <3>3, <4>1 DEF RingInv, Cells
    <3> QED
      BY <3>2, <3>3
  <2> QED
    BY <1>3, <1>7, <2>1 DEF Cells
<1>13. Claimers'
  <2>1. ASSUME NEW u \in Threads, thread'[u].pc = "publish"
        PROVE  buffer'[Cell(thread'[u].pos)].data = Message(u, thread'[u].sent)
    <3>1. u # t /\ thread'[u] = thread[u] /\ thread[u].pc = "publish"
      BY <1>4, <1>8, <2>1 DEF Moves
    <3>2. PICK q \in Nat : q = thread[u].pos
      BY ThreadFields DEF RingInv
    <3>3. DataAt(q) = Current(u)
      BY <3>1, <3>2 DEF RingInv, Claimers
    <3> QED
      BY <1>5, <3>1, <3>2, <3>3 DEF DataAt, Current
  <2>2. ASSUME NEW u \in Threads, NEW v \in Threads, Claims(u)', Claims(v)',
               thread'[u].pos = thread'[v].pos
        PROVE  u = v
    BY <1>8, <2>2 DEF RingInv, Claimers
  <2>3. \A u \in Threads : Claims(u)' => thread'[u].pos \in dequeue_pos..enqueue_pos - 1
    BY <1>8, <1>9
  <2> QED
    BY <1>3, <2>1, <2>2, <2>3 DEF Claimers, DataAt, Current
<1>14. Candidates'
  <2>1. \A u \in Threads : thread'[u].pc \in {"check", "claim"} => thread'[u] = thread[u]
    BY <1>4 DEF Moves
  <2> QED
    BY <1>3, <1>7, <2>1 DEF RingInv, Candidates
<1>15. Counts'
  BY <1>3, <1>4, <1>8 DEF RingInv, Counts, Moves
<1>16. RingInv'
  BY <1>6, <1>11, <1>12, <1>13, <1>14, <1>15 DEF RingInv
<1>17. ASSUME NEW p \in dequeue_pos..enqueue_pos - 1 PROVE MessageAt(p)' = MessageAt(p)
  <2>1. p \in Nat
    BY Window
  <2>2. PositionHolds(p) /\ PositionHolds(p)' /\ DataAt(p)' = DataAt(p)
    BY <1>5, <1>13, <2>1, MessageFacts, MessageFactsNext DEF RingInv, Holdings
  <2>3. CASE p = pos
    BY <1>1, <1>8, <1>9, <1>10, <2>2, <2>3 DEF PositionHolds
  <2>4. CASE p # pos /\ Claimed(p)
    <3>1. PICK u \in Threads : Claims(u) /\ thread[u].pos = p
      BY <2>4 DEF Claimed
    <3>2. u # t /\ Claims(u)' /\ thread'[u].pos = p
      BY <1>1, <1>8, <2>4, <3>1
    <3> QED
      BY <1>8, <2>2, <3>1, <3>2 DEF PositionHolds
  <2>5. CASE p # pos /\ ~Claimed(p)
    BY <1>10, <2>2, <2>5 DEF PositionHolds
  <2> QED
    BY <2>3, <2>4, <2>5
<1>18. Queue' = Queue
  BY <1>3, <1>17, QueueSame DEF RingInv
<1>19. Delivered' = Delivered
  <2>1. PICK q \in Nat : q = worker.pos
    BY DEF RingInv, RingTypes, WorkerRecords
  <2>2. DataAt(q)' = DataAt(q)
    BY <1>5, <2>1
  <2>3. DataAt(worker.pos)' = DataAt(worker.pos)
    BY <1>3, <2>1, <2>2 DEF DataAt
  <2> QED
    BY <1>3, <2>3, DeliveredSame
<1> QED
  BY <1>16, <1>18, <1>19

\* The worker takes the first position: the message is got.
LEMMA DequeueGets == ASSUME RingInv, Dequeue PROVE RingInv' /\ Gets
<1>1. /\ worker.pc = "loop" /\ SequenceAt(dequeue_pos) = dequeue_pos + 1
      /\ dequeue_pos' = dequeue_pos + 1
      /\ worker' = [worker EXCEPT !.pc = "take", !.pos = dequeue_pos]
      /\ UNCHANGED <<buffer, enqueue_pos, thread, badWorker, written>>
  BY DEF Dequeue, SequenceAt
<1>2. ~Busy /\ Base = dequeue_pos
  BY <1>1 DEF Busy, Base
<1>3. /\ worker' \in WorkerRecords
      /\ worker'.pc = "take" /\ worker'.pos = dequeue_pos
  BY <1>1 DEF RingInv, RingTypes, WorkerRecords
<1>4. Busy' /\ Base' = dequeue_pos
  BY <1>3 DEF Busy, Base
<1>5. enqueue_pos \in Nat /\ dequeue_pos \in Nat /\ QueueSize \in Nat /\ QueueSize > 1
      /\ enqueue_pos <= dequeue_pos + QueueSize
  BY <1>2, Window DEF RingInv, RingTypes, Positions
<1>6. dequeue_pos < enqueue_pos /\ ~Claimed(dequeue_pos)
  <2>1. dequeue_pos \in Base..Base + QueueSize - 1
    BY <1>2, <1>5
  <2>2. SequenceAt(dequeue_pos) = IF dequeue_pos < enqueue_pos /\ ~Claimed(dequeue_pos)
                                  THEN dequeue_pos + 1 ELSE dequeue_pos
    BY <2>1 DEF RingInv, Cells
  <2>3. dequeue_pos + 1 # dequeue_pos
    BY <1>5
  <2> QED
    BY <1>1, <2>2, <2>3
<1>7. RingTypes'
  BY <1>1, <1>3, <1>5 DEF RingInv, RingTypes
<1>8. Positions'
  BY <1>1, <1>3, <1>4, <1>5, <1>6 DEF Positions
<1>9. \A p : Claimed(p)' <=> Claimed(p)
  BY <1>1 DEF Claimed, Claims
<1>10. Cells'
  <2>1. \A p \in Base..Base + QueueSize - 1 :
           SequenceAt(p)' = IF p < enqueue_pos /\ ~Claimed(p)' THEN p + 1 ELSE p
    BY <1>1, <1>9 DEF RingInv, Cells, SequenceAt, Cell
  <2> QED
    BY <1>1, <1>2, <1>4, <2>1 DEF Cells
<1>11. Claimers'
  <2>1. ASSUME NEW u \in Threads, Claims(u)
        PROVE  thread[u].pos \in dequeue_pos + 1..enqueue_pos - 1
    <3>1. thread[u].pos \in dequeue_pos..enqueue_pos - 1
      BY <2>1 DEF RingInv, Claimers
    <3>2. thread[u].pos # dequeue_pos
      BY <1>6, <2>1 DEF Claimed
    <3> QED
      BY <1>5, <3>1, <3>2
  <2> QED
    BY <1>1, <2>1 DEF RingInv, Claimers, Claims, DataAt, Current, Cell
<1>12. Candidates' /\ Counts'
  BY <1>1, <1>2, <1>4 DEF RingInv, Candidates, Counts
<1>13. RingInv'
  BY <1>7, <1>8, <1>10, <1>11, <1>12 DEF RingInv
<1>14. \A p : MessageAt(p)' = MessageAt(p)
  BY <1>1 DEF MessageAt, Claimer, Current, Cell
<1>15. /\ Queue # <<>> /\ Queue' = Tail(Queue)
       /\ \A p : p = dequeue_pos => Head(Queue) = MessageAt(p)
  BY <1>1, <1>13, <1>14, QueueGet
<1>16. Head(Queue) = DataAt(dequeue_pos)
  <2>1. PICK p \in Nat : p = dequeue_pos
    BY <1>5
  <2>2. MessageAt(p) = DataAt(p)
    BY <1>6, <2>1, MessageFacts DEF RingInv, Holdings, PositionHolds
  <2> QED
    BY <1>15, <2>1, <2>2
<1>17. Delivered' = Append(Delivered, Head(Queue))
  <2>1. InHand = <<>> /\ InHand' = <<DataAt(dequeue_pos)>>
    BY <1>1, <1>3 DEF InHand, DataAt, Cell
  <2>2. Delivered = written
    BY <2>1, ConcatEmptySeq DEF Delivered, RingInv, RingTypes
  <2>3. Head(Queue) \in Texts
    BY <1>15, QueueFacts, HeadTailProperties DEF QueueShape
  <2>4. Delivered' = written \o <<Head(Queue)>>
    BY <1>1, <1>16, <2>1 DEF Delivered
  <2> QED
    BY <2>2, <2>3, <2>4, AppendIsConcat DEF RingInv, RingTypes
<1> QED
  BY <1>13, <1>15, <1>17 DEF Gets

\* A step of the worker that leaves the ring as it is.
LEMMA WorkerOnly ==
    ASSUME RingInv, UNCHANGED <<buffer, enqueue_pos, dequeue_pos, thread>>,
           worker' \in WorkerRecords, written' \in Seq(Texts), badWorker' \in BOOLEAN,
           Busy' <=> Busy, Busy => worker'.pos = worker.pos
    PROVE  RingInv' /\ Queue' = Queue
<1>1. Base' = Base
  BY DEF Base
<1>2. RingTypes'
  BY DEF RingInv, RingTypes
<1>3. Positions'
  BY <1>1 DEF RingInv, Positions
<1>4. \A p : Claimed(p)' <=> Claimed(p)
  BY DEF Claimed, Claims
<1>5. Cells'
  BY <1>1, <1>4 DEF RingInv, Cells, SequenceAt, Cell
<1>6. Claimers' /\ Candidates' /\ Counts'
  BY <1>1 DEF RingInv, Claimers, Candidates, Counts, Claims, DataAt, Current, Cell
<1>7. \A p : MessageAt(p)' = MessageAt(p)
  BY DEF MessageAt, Claimer, Current, Cell
<1>8. Queue' = Queue
  BY <1>7, QueueSame DEF RingInv
<1> QED
  BY <1>2, <1>3, <1>5, <1>6, <1>8 DEF RingInv

LEMMA TakeDataKeeps == ASSUME RingInv, TakeData PROVE RingInv' /\ UNCHANGED <<Queue, Delivered>>
<1>1. /\ worker.pc = "take" /\ worker' = [worker EXCEPT !.pc = "release", !.msg = DataAt(worker.pos)]
      /\ UNCHANGED <<buffer, enqueue_pos, dequeue_pos, thread, badWorker, written>>
  BY DEF TakeData, DataAt
<1>2. DataAt(worker.pos) \in Texts
  <2>1. Busy /\ worker.pos = Base
    BY <1>1 DEF Busy, Base
  <2>2. Cell(worker.pos) \in 0..QueueSize - 1
    BY <2>1, Window
  <2> QED
    BY <2>2 DEF RingInv, RingTypes, Cellars, DataAt
<1>3. /\ worker' \in WorkerRecords
      /\ worker'.pc = "release" /\ worker'.pos = worker.pos /\ worker'.msg = DataAt(worker.pos)
  BY <1>1, <1>2 DEF RingInv, RingTypes, WorkerRecords
<1>4. Busy /\ Busy'
  BY <1>1, <1>3 DEF Busy
<1>5. RingInv' /\ Queue' = Queue
  BY <1>1, <1>3, <1>4, WorkerOnly DEF RingInv, RingTypes
<1>6. InHand' = InHand
  BY <1>1, <1>3 DEF InHand, DataAt
<1> QED
  BY <1>1, <1>5, <1>6 DEF Delivered

LEMMA EndedKeeps ==
    ASSUME RingInv, EndLoop \/ SinkFails
    PROVE  RingInv' /\ UNCHANGED <<Queue, Delivered>>
<1>1. /\ worker.pc = "process" /\ worker' = [worker EXCEPT !.pc = "ended"]
      /\ UNCHANGED <<buffer, enqueue_pos, dequeue_pos, thread, written>>
      /\ badWorker' \in {badWorker, TRUE}
  BY DEF EndLoop, SinkFails
<1>2. /\ worker' \in WorkerRecords
      /\ worker'.pc = "ended" /\ worker'.pos = worker.pos /\ worker'.msg = worker.msg
  BY <1>1 DEF RingInv, RingTypes, WorkerRecords
<1>3. ~Busy /\ ~Busy'
  BY <1>1, <1>2 DEF Busy
<1>4. RingInv' /\ Queue' = Queue
  BY <1>1, <1>2, <1>3, WorkerOnly DEF RingInv, RingTypes
<1>5. InHand' = InHand
  BY <1>1, <1>2 DEF InHand
<1> QED
  BY <1>1, <1>4, <1>5 DEF Delivered

LEMMA WriteLineKeeps == ASSUME RingInv, WriteLine PROVE RingInv' /\ UNCHANGED <<Queue, Delivered>>
<1>1. /\ worker.pc = "process" /\ worker' = [worker EXCEPT !.pc = "loop"]
      /\ written' = Append(written, worker.msg)
      /\ UNCHANGED <<buffer, enqueue_pos, dequeue_pos, thread, badWorker>>
  BY DEF WriteLine
<1>2. worker.msg \in Texts /\ written \in Seq(Texts)
  BY DEF RingInv, RingTypes, WorkerRecords
<1>3. /\ worker' \in WorkerRecords /\ worker'.pc = "loop" /\ worker'.pos = worker.pos
  BY <1>1 DEF RingInv, RingTypes, WorkerRecords
<1>4. ~Busy /\ ~Busy'
  BY <1>1, <1>3 DEF Busy
<1>5. written' \in Seq(Texts)
  BY <1>1, <1>2, AppendProperties
<1>6. RingInv' /\ Queue' = Queue
  BY <1>1, <1>3, <1>4, <1>5, WorkerOnly DEF RingInv, RingTypes
<1>7. InHand = <<worker.msg>> /\ InHand' = <<>>
  BY <1>1, <1>3 DEF InHand
<1>8. Delivered' = Append(written, worker.msg) /\ Delivered = Append(written, worker.msg)
  BY <1>1, <1>2, <1>5, <1>7, ConcatEmptySeq, AppendIsConcat DEF Delivered
<1> QED
  BY <1>6, <1>8

\* The cell is free again, for the position a round later.
LEMMA ReleaseKeeps == ASSUME RingInv, Release PROVE RingInv' /\ UNCHANGED <<Queue, Delivered>>
<1>1. PICK pos \in Nat : pos = worker.pos
  BY DEF RingInv, RingTypes, WorkerRecords
<1>2. /\ worker.pc = "release" /\ worker' = [worker EXCEPT !.pc = "process"]
      /\ buffer' = [buffer EXCEPT ![Cell(pos)].sequence = pos + QueueSize]
      /\ UNCHANGED <<enqueue_pos, dequeue_pos, thread, badWorker, written>>
  BY <1>1 DEF Release
<1>3. worker' \in WorkerRecords /\ worker'.pc = "process" /\ worker'.msg = worker.msg
  BY <1>2 DEF RingInv, RingTypes, WorkerRecords
<1>4. Busy /\ Base = pos /\ ~Busy' /\ Base' = dequeue_pos /\ dequeue_pos = pos + 1
  BY <1>1, <1>2, <1>3 DEF Busy, Base, RingInv, Positions
<1>5. /\ buffer' \in [0..QueueSize - 1 -> Cellars]
      /\ SequenceAt(pos)' = pos + QueueSize
      /\ \A q \in Nat : Cell(q) # Cell(pos) => SequenceAt(q)' = SequenceAt(q)
      /\ \A q \in Nat : DataAt(q)' = DataAt(q)
  <2>1. PICK v \in Nat : v = pos + QueueSize
    BY LogAssumption
  <2> QED
    BY <1>2, <2>1, SequenceSet DEF RingInv
<1>6. enqueue_pos \in Nat /\ QueueSize \in Nat /\ QueueSize > 1
      /\ dequeue_pos <= enqueue_pos /\ enqueue_pos <= pos + QueueSize
  BY <1>4, Window DEF RingInv, RingTypes, Positions
<1>7. RingTypes'
  BY <1>2, <1>3, <1>5 DEF RingInv, RingTypes
<1>8. Positions'
  BY <1>2, <1>4, <1>6 DEF Positions
<1>9. \A p : Claimed(p)' <=> Claimed(p)
  BY <1>2 DEF Claimed, Claims
<1>10. Cells'
  <2>1. ASSUME NEW p \in (pos + 1)..(pos + 1) + QueueSize - 1
        PROVE  SequenceAt(p)' = IF p < enqueue_pos /\ ~Claimed(p)' THEN p + 1 ELSE p
    <3>1. p \in Nat /\ (p = pos + QueueSize \/ (p \in pos..pos + QueueSize - 1 /\ p # pos))
          /\ pos \in pos..pos + QueueSize - 1
      BY <1>6
    <3>2. CASE p = pos + QueueSize
      <4>1. Cell(p) = Cell(pos)
        BY <3>2, NextRound
      <4>2. SequenceAt(p)' = p
        BY <1>5, <3>2, <4>1 DEF SequenceAt, Cell
      <4>3. ~(p < enqueue_pos)
        BY <1>6, <3>2
      <4> QED
        BY <4>2, <4>3
    <3>3. CASE p \in pos..pos + QueueSize - 1 /\ p # pos
      <4>1. Cell(p) # Cell(pos)
        BY <1>4, <3>1, <3>3, Window
      <4>2. SequenceAt(p)' = SequenceAt(p)
        BY <1>5, <3>1, <4>1
      <4>3. SequenceAt(p) = IF p < enqueue_pos /\ ~Claimed(p) THEN p + 1 ELSE p
        BY <1>4, <3>3 DEF RingInv, Cells
      <4> QED
        BY <1>9, <4>2, <4>3
    <3> QED
      BY <3>1, <3>2, <3>3
  <2> QED
    BY <1>2, <1>4, <2>1 DEF Cells
<1>11. Claimers'
  <2>1. ASSUME NEW u \in Threads, thread[u].pc = "publish"
        PROVE  buffer'[Cell(thread[u].pos)].data = Message(u, thread[u].sent)
    <3>1. PICK q \in Nat : q = thread[u].pos
      BY ThreadFields DEF RingInv
    <3> QED
      BY <1>5, <2>1, <3>1 DEF RingInv, Claimers, DataAt, Current
  <2> QED
    BY <1>2, <2>1 DEF RingInv, Claimers, Claims, DataAt, Current
<1>12. Candidates'
  <2>1. enqueue_pos < pos + QueueSize => enqueue_pos < dequeue_pos + QueueSize
    BY <1>4, <1>6
  <2> QED
    BY <1>2, <1>4, <2>1 DEF RingInv, Candidates
<1>13. RingInv'
  BY <1>2, <1>7, <1>8, <1>10, <1>11, <1>12 DEF RingInv, Counts
<1>14. ASSUME NEW p \in dequeue_pos..enqueue_pos - 1 PROVE MessageAt(p)' = MessageAt(p)
  <2>1. p \in Nat
    BY Window
  <2>2. DataAt(p)' = DataAt(p)
    BY <1>5, <2>1
  <2> QED
    BY <1>2, <2>2 DEF MessageAt, Claimer, Current, DataAt
<1>15. Queue' = Queue
  BY <1>2, <1>14, QueueSame DEF RingInv
<1>16. InHand' = InHand
  BY <1>2, <1>3 DEF InHand
<1> QED
  BY <1>2, <1>13, <1>15, <1>16 DEF Delivered

\* A step of a thread that leaves the queue and what is delivered as they were.
Stays == RingInv' /\ UNCHANGED <<Queue, Delivered>>

\* A thread gets the position it tries.
Takes(t) == Claim(t) /\ Mine(t)

LEMMA StartLogStays ==
    ASSUME RingInv, NEW t \in Threads, StartLog(t), thread[t].sent < MaxMessages + 1
    PROVE  Stays
<1>1. thread[t].pc = "idle" /\ Moves(t, "load", thread[t].pos, thread[t].sent + 1)
  BY Counted DEF StartLog, RingInv
<1>2. thread[t].sent + 1 # 0
  <2>1. \A n \in 0..MaxMessages + 1 : n + 1 # 0
    BY LogAssumption
  <2> QED
    BY <2>1, ThreadFields DEF RingInv
<1>3. ~Claims(t) /\ UNCHANGED <<buffer, enqueue_pos, dequeue_pos, worker, written>>
      /\ badWorker' \in BOOLEAN
  BY <1>1 DEF Claims, StartLog, RingInv, RingTypes
<1> QED
  BY <1>1, <1>2, <1>3, NoClaim DEF Stays

\* The number that makes a thread try its position says that the cell is free,
\* not that a round has passed: the ring has more than one cell.
LEMMA FreeCellRead ==
    ASSUME RingInv, NEW t \in Threads,
           buffer[Cell(thread[t].pos)].sequence = thread[t].pos, thread[t].pos = enqueue_pos
    PROVE  enqueue_pos < Base + QueueSize
<1>1. SUFFICES ASSUME enqueue_pos = Base + QueueSize PROVE FALSE
  <2>1. Base \in Nat /\ QueueSize \in Nat
    BY Window
  <2>2. enqueue_pos \in Nat /\ enqueue_pos <= Base + QueueSize
    BY DEF RingInv, RingTypes, Positions
  <2> QED
    BY <2>1, <2>2
<1>2. Base \in Nat /\ Base \in Base..Base + QueueSize - 1 /\ QueueSize \in Nat /\ QueueSize > 1
  BY Window
<1>3. SequenceAt(Base) = Base + QueueSize
  BY <1>1, <1>2, NextRound DEF SequenceAt
<1>4. SequenceAt(Base) = Base + 1 \/ SequenceAt(Base) = Base
  BY <1>2 DEF RingInv, Cells
<1> QED
  BY <1>2, <1>3, <1>4

LEMMA EnqueueStays ==
    ASSUME RingInv, NEW t \in Threads,
           (Enqueue(t) /\ ~Takes(t)) \/ (t = Dropper /\ Join)
    PROVE  Stays
<1>1. CASE LoadPos(t)
  <2>1. thread[t].pc = "load" /\ Moves(t, "check", enqueue_pos, thread[t].sent)
    BY <1>1, Looks DEF LoadPos, RingInv
  <2>2. ~Claims(t) /\ UNCHANGED <<buffer, enqueue_pos, dequeue_pos, worker, written>>
        /\ badWorker' \in BOOLEAN /\ thread[t].sent # 0 /\ enqueue_pos <= enqueue_pos
    BY <1>1, <2>1 DEF Claims, LoadPos, RingInv, RingTypes, Counts
  <2> QED
    BY <2>1, <2>2, NoClaim DEF Stays
<1>2. CASE ReadSequence(t)
  <2>1. PICK pc \in {"claim", "load"} :
           /\ Goto(t, pc)
           /\ pc = "claim" => buffer[Cell(thread[t].pos)].sequence = thread[t].pos
    BY <1>2 DEF ReadSequence
  <2>2. thread[t].pc = "check" /\ Moves(t, pc, thread[t].pos, thread[t].sent)
    BY <1>2, <2>1, Goes DEF ReadSequence, RingInv
  <2>3. ~Claims(t) /\ UNCHANGED <<buffer, enqueue_pos, dequeue_pos, worker, written>>
        /\ badWorker' \in BOOLEAN /\ thread[t].sent # 0 /\ thread[t].pos <= enqueue_pos
    BY <1>2, <2>2 DEF Claims, ReadSequence, RingInv, RingTypes, Counts, Candidates
  <2>4. pc = "claim" /\ thread[t].pos = enqueue_pos => enqueue_pos < Base + QueueSize
    BY <2>1, FreeCellRead
  <2> QED
    BY <2>2, <2>3, <2>4, NoClaim DEF Stays
<1>4. CASE Claim(t) /\ ~Mine(t)
  <2>1. thread[t].pc = "claim" /\ Moves(t, "check", enqueue_pos, thread[t].sent)
    BY <1>4, Looks DEF Claim, RingInv
  <2>2. ~Claims(t) /\ UNCHANGED <<buffer, enqueue_pos, dequeue_pos, worker, written>>
        /\ badWorker' \in BOOLEAN /\ thread[t].sent # 0 /\ enqueue_pos <= enqueue_pos
    BY <1>4, <2>1 DEF Claims, Claim, RingInv, RingTypes, Counts
  <2> QED
    BY <2>1, <2>2, NoClaim DEF Stays
<1>5. CASE Fill(t)
  BY <1>5, FillKeeps DEF Stays
<1>6. CASE Publish(t)
  BY <1>6, PublishKeeps DEF Stays
<1>7. CASE t = Dropper /\ Join
  <2>1. thread[t].pc = "join" /\ Moves(t, "dropped", thread[t].pos, thread[t].sent)
    BY <1>7, Goes DEF Join, RingInv
  <2>2. ~Claims(t) /\ UNCHANGED <<buffer, enqueue_pos, dequeue_pos, worker, written>>
        /\ badWorker' \in BOOLEAN /\ thread[t].sent # 0
    BY <1>7, <2>1 DEF Claims, Join, RingInv, RingTypes, Counts
  <2> QED
    BY <2>1, <2>2, NoClaim DEF Stays
<1> QED
  BY <1>1, <1>2, <1>4, <1>5, <1>6, <1>7 DEF Enqueue, Takes

LEMMA UnchangedStays ==
    ASSUME RingInv, UNCHANGED <<buffer, enqueue_pos, dequeue_pos, thread, worker, badWorker, written>>
    PROVE  Stays
<1>1. RingInv' /\ Queue' = Queue
  BY WorkerOnly DEF RingInv, RingTypes, Busy
<1>2. Delivered' = Delivered
  BY DeliveredSame DEF DataAt, Cell
<1> QED
  BY <1>1, <1>2 DEF Stays

LEMMA WorkStays == ASSUME RingInv, Work, ~Dequeue PROVE Stays
<1>2. CASE TakeData
  BY <1>2, TakeDataKeeps DEF Stays
<1>3. CASE Release
  BY <1>3, ReleaseKeeps DEF Stays
<1>4. CASE EndLoop \/ SinkFails
  BY <1>4, EndedKeeps DEF Stays
<1>5. CASE WriteLine
  BY <1>5, WriteLineKeeps DEF Stays
<1> QED
  BY <1>2, <1>3, <1>4, <1>5 DEF Work

LEMMA LogStays == ASSUME RingInv, NEW t \in Threads, Log(t) PROVE Stays
<1>1. \A n \in 0..MaxMessages + 1 : n < MaxMessages => n < MaxMessages + 1
  BY LogAssumption
<1>2. StartLog(t) /\ thread[t].sent < MaxMessages + 1
  BY <1>1, ThreadFields DEF Log, RingInv
<1> QED
  BY <1>2, StartLogStays

LEMMA DropStays == ASSUME RingInv, Drop PROVE Stays
<1>1. 0 < MaxMessages + 1
  BY LogAssumption
<1>2. Dropper \in Threads /\ StartLog(Dropper) /\ thread[Dropper].sent < MaxMessages + 1
  BY <1>1 DEF Drop, Threads
<1> QED
  BY <1>2, StartLogStays

LEMMA JoinStays == ASSUME RingInv, Join PROVE Stays
<1>1. Dropper \in Threads
  BY DEF Threads
<1> QED
  BY <1>1, EnqueueStays

LEMMA RingNext ==
    ASSUME RingInv, [Next]_vars
    PROVE  \/ Stays
           \/ RingInv' /\ \E t \in Threads : Puts(Current(t)) /\ Current(t) \in Messages
           \/ RingInv' /\ Gets
<1>1. CASE \E t \in Threads : Log(t) \/ (Enqueue(t) /\ ~Takes(t))
  BY <1>1, LogStays, EnqueueStays
<1>2. CASE \E t \in Threads : Takes(t)
  BY <1>2, ClaimPuts DEF Takes
<1>3. CASE Dequeue
  BY <1>3, DequeueGets
<1>4. CASE Work /\ ~Dequeue
  BY <1>4, WorkStays
<1>5. CASE Drop \/ Join
  BY <1>5, DropStays, JoinStays
<1>6. CASE Midnight \/ UNCHANGED vars
  BY <1>6, UnchangedStays DEF Midnight, vars
<1> QED
  BY <1>1, <1>2, <1>3, <1>4, <1>5, <1>6 DEF Next

LEMMA RingStart == Init => RingInv /\ Queue = <<>> /\ Delivered = <<>>
<1> SUFFICES ASSUME Init PROVE RingInv /\ Queue = <<>> /\ Delivered = <<>>
  OBVIOUS
<1>1. QueueSize \in Nat /\ QueueSize > 1 /\ MaxMessages \in Nat
  BY LogAssumption
<1>2. Empty \in Texts
  BY DEF Empty, Message, Texts, Threads
<1>3. buffer \in [0..QueueSize - 1 -> Cellars]
  <2>1. \A i \in 0..QueueSize - 1 : i \in Nat
    BY <1>1
  <2>2. \A i \in 0..QueueSize - 1 : [sequence |-> i, data |-> Empty] \in Cellars
    BY <1>2, <2>1 DEF Cellars
  <2> QED
    BY <2>2 DEF Init
<1>4. /\ enqueue_pos = 0 /\ dequeue_pos = 0 /\ worker.pc = "loop" /\ written = <<>>
      /\ \A t \in Threads : thread[t].pc = "idle"
  BY DEF Init
<1>5. thread \in [Threads -> ThreadRecords]
  <2>1. 0 \in 0..MaxMessages + 1
    BY <1>1
  <2> QED
    BY <2>1 DEF Init, ThreadRecords
<1>6. worker \in WorkerRecords
  BY <1>2 DEF Init, WorkerRecords
<1>7. badWorker \in BOOLEAN /\ written \in Seq(Texts)
  <2>1. badWorker = FALSE
    BY DEF Init
  <2>2. badWorker \in BOOLEAN
    BY <2>1, Zenon
  <2> QED
    BY <1>4, <2>2
<1>8. RingTypes
  BY <1>3, <1>4, <1>5, <1>6, <1>7 DEF RingTypes
<1>9. ~Busy /\ Base = 0 /\ (\A p : ~Claimed(p))
  BY <1>4 DEF Busy, Base, Claimed, Claims
<1>10. Positions
  BY <1>1, <1>4, <1>9 DEF Positions
<1>11. Cells
  <2>1. ASSUME NEW p \in 0..QueueSize - 1 PROVE SequenceAt(p) = p /\ ~(p < 0)
    <3>1. Cell(p) = p
      BY <1>1 DEF Cell
    <3>2. buffer[p].sequence = p
      BY DEF Init
    <3> QED
      BY <1>1, <3>1, <3>2 DEF SequenceAt
  <2>2. 0 + QueueSize - 1 = QueueSize - 1
    BY <1>1
  <2> QED
    BY <1>4, <1>9, <2>1, <2>2 DEF Cells
<1>12. Claimers /\ Candidates /\ Counts
  BY <1>4 DEF Claimers, Candidates, Counts, Claims
<1>13. Queue = <<>>
  <2>1. enqueue_pos - dequeue_pos = 0
    BY <1>4
  <2>2. RingInv
    BY <1>8, <1>10, <1>11, <1>12 DEF RingInv
  <2>3. Queue \in Seq(Texts) /\ Len(Queue) = 0
    BY <2>1, <2>2, QueueFacts DEF QueueShape
  <2> QED
    BY <2>3, EmptySeq
<1>14. Delivered = <<>>
  <2>1. InHand = <<>>
    BY <1>4 DEF InHand
  <2> QED
    BY <1>4, <2>1 DEF Delivered
<1> QED
  BY <1>8, <1>10, <1>11, <1>12, <1>13, <1>14 DEF RingInv

\* For every number of clients and messages and every ring of two cells or
\* more, the logger's ring is a bounded first-in first-out queue, whatever the
\* order in which threads claim, fill and publish positions and the worker
\* takes and releases them: no message is lost, doubled, overtaken or read
\* before it is whole (enqueue and dequeue of mpmc_bounded_queue).
THEOREM RingIsFifo == Spec => FifoSpec
<1>1. Init => RingInv /\ Fifo!Init
  BY RingStart DEF Fifo!Init, Queue, Delivered
<1>2. RingInv /\ [Next]_vars => RingInv' /\ [Fifo!Next]_(Fifo!qvars)
  <2> SUFFICES ASSUME RingInv, [Next]_vars PROVE RingInv' /\ [Fifo!Next]_(Fifo!qvars)
    OBVIOUS
  <2>1. ASSUME NEW m \in Messages, Puts(m) PROVE Fifo!Next
    BY <2>1 DEF Puts, Fifo!Next, Fifo!Put, Queue, Delivered
  <2>2. ASSUME Gets PROVE Fifo!Next
    BY <2>2 DEF Gets, Fifo!Next, Fifo!Get, Queue, Delivered
  <2>3. ASSUME UNCHANGED <<Queue, Delivered>> PROVE UNCHANGED Fifo!qvars
    BY <2>3 DEF Fifo!qvars, Queue, Delivered
  <2>4. ASSUME NEW t \in Threads, Puts(Current(t)), Current(t) \in Messages PROVE Fifo!Next
    <3>1. PICK m \in Messages : m = Current(t)
      BY <2>4
    <3> QED
      BY <2>1, <2>4, <3>1
  <2> QED
    BY <2>2, <2>3, <2>4, RingNext DEF Stays
<1> QED
  BY <1>1, <1>2, PTL DEF Spec, FifoSpec, Fifo!Spec

-----------------------------------------------------------------------------
(* Dropping the logger                                                     *)

Asking(t) == thread[t].pc \in {"load", "check", "claim"}

InQueue(m) == \E i \in 1..Len(Queue) : Queue[i] = m
InDelivered(m) == \E i \in 1..Len(Delivered) : Delivered[i] = m

\* A message is queued or delivered once its thread has a position for it.
Handed ==
    \A t \in Threads : \A n \in 1..thread[t].sent :
       \/ Asking(t) /\ n = thread[t].sent
       \/ InQueue(Message(t, n)) \/ InDelivered(Message(t, n))

Dropping ==
    /\ thread[Dropper].pc # "idle" => \A c \in Clients : thread[c].pc = "idle"
    /\ thread[Dropper].sent = IF thread[Dropper].pc = "idle" THEN 0 ELSE 1
    /\ thread[Dropper].pc = "dropped" => worker.pc = "ended"
    /\ worker.pc = "ended" => badWorker \/ worker.msg = Off

\* Nothing follows the message that ends the worker's loop.
OffLast ==
    /\ thread[Dropper].pc = "idle" \/ Asking(Dropper) => ~InQueue(Off) /\ ~InDelivered(Off)
    /\ \A i \in 1..Len(Queue) : Queue[i] = Off => i = Len(Queue)
    /\ InDelivered(Off) => Queue = <<>>

DrainInv == Handed /\ Dropping /\ OffLast

LEMMA SameSequences ==
    ASSUME UNCHANGED <<Queue, Delivered>>
    PROVE  \A m : (InQueue(m)' <=> InQueue(m)) /\ (InDelivered(m)' <=> InDelivered(m))
  BY DEF InQueue, InDelivered

LEMMA Sides == Dropper \in Threads /\ Dropper \notin Clients
               /\ \A t \in Threads : t = Dropper \/ t \in Clients
  BY LogAssumption DEF Threads

\* A thread that has a message goes on, without getting a position.
LEMMA ActiveDrains ==
    ASSUME DrainInv, NEW t \in Threads, NEW pc, NEW pos, Moves(t, pc, pos, thread[t].sent),
           thread[t].pc # "idle", t = Dropper => pc # "idle",
           Asking(t) <=> pc \in {"load", "check", "claim"},
           pc = "dropped" => worker.pc = "ended",
           UNCHANGED <<worker, badWorker, Queue, Delivered>>
    PROVE  DrainInv'
<1>1. /\ \A u \in Threads : thread'[u].sent = thread[u].sent
      /\ \A u \in Threads : Asking(u)' <=> Asking(u)
      /\ \A u \in Threads : u # t => thread'[u] = thread[u]
      /\ thread'[t].pc = pc
  BY DEF Moves, Asking
<1>2. Handed'
  <2>1. ASSUME NEW u \in Threads, NEW n \in 1..thread[u].sent
        PROVE  \/ Asking(u)' /\ n = thread[u].sent
               \/ InQueue(Message(u, n))' \/ InDelivered(Message(u, n))'
    BY <1>1, SameSequences DEF DrainInv, Handed
  <2> QED
    BY <1>1, <2>1 DEF Handed, Message
<1>3. Dropping'
  <2>1. CASE t = Dropper
    BY <1>1, <2>1, Sides DEF DrainInv, Dropping, Threads, Off
  <2>2. CASE t # Dropper
    <3>1. t \in Clients /\ thread[Dropper].pc = "idle"
      BY <2>2, Sides DEF DrainInv, Dropping
    <3>2. thread'[Dropper] = thread[Dropper]
      BY <1>1, <2>2, Sides
    <3> QED
      BY <3>1, <3>2 DEF DrainInv, Dropping, Off
  <2> QED
    BY <2>1, <2>2
<1>4. OffLast'
  <2>1. thread'[Dropper].pc = "idle" \/ Asking(Dropper)' =>
           thread[Dropper].pc = "idle" \/ Asking(Dropper)
    BY <1>1, Sides
  <2> QED
    BY <2>1, SameSequences DEF DrainInv, OffLast, Off
<1> QED
  BY <1>2, <1>3, <1>4 DEF DrainInv

\* A thread gets a message to log.
LEMMA StartDrains ==
    ASSUME DrainInv, RingTypes, NEW t \in Threads, NEW pos,
           Moves(t, "load", pos, thread[t].sent + 1), thread[t].pc = "idle",
           IF t = Dropper THEN \A c \in Clients : thread[c].pc = "idle"
                          ELSE thread[Dropper].pc = "idle",
           UNCHANGED <<worker, badWorker, Queue, Delivered>>
    PROVE  DrainInv'
<1>1. /\ thread'[t].pc = "load" /\ thread'[t].sent = thread[t].sent + 1
      /\ ~Asking(t) /\ Asking(t)'
      /\ \A u \in Threads : u # t => thread'[u] = thread[u]
  BY DEF Moves, Asking
<1>2. Handed'
  <2>1. ASSUME NEW n \in 1..thread[t].sent + 1
        PROVE  \/ n = thread[t].sent + 1
               \/ InQueue(Message(t, n))' \/ InDelivered(Message(t, n))'
    <3>1. thread[t].sent \in Nat
      <4>1. \A k \in 0..MaxMessages + 1 : k \in Nat
        BY LogAssumption
      <4> QED
        BY <4>1, ThreadFields
    <3>2. n = thread[t].sent + 1 \/ n \in 1..thread[t].sent
      BY <3>1
    <3> QED
      BY <1>1, <3>2, SameSequences DEF DrainInv, Handed
  <2>2. ASSUME NEW u \in Threads, u # t, NEW n \in 1..thread[u].sent
        PROVE  \/ Asking(u)' /\ n = thread[u].sent
               \/ InQueue(Message(u, n))' \/ InDelivered(Message(u, n))'
    <3>1. Asking(u)' <=> Asking(u)
      BY <1>1, <2>2 DEF Asking
    <3> QED
      BY <3>1, SameSequences DEF DrainInv, Handed
  <2>3. ASSUME NEW u \in Threads, NEW n \in 1..thread'[u].sent
        PROVE  \/ Asking(u)' /\ n = thread'[u].sent
               \/ InQueue(Message(u, n))' \/ InDelivered(Message(u, n))'
    BY <1>1, <2>1, <2>2
  <2> QED
    BY <2>3 DEF Handed, Message
<1>3. Dropping'
  <2>1. CASE t = Dropper
    <3>1. thread[Dropper].sent = 0
      BY <2>1 DEF DrainInv, Dropping
    <3>2. thread'[Dropper].sent = 1 /\ thread'[Dropper].pc = "load"
      BY <1>1, <2>1, <3>1
    <3>3. \A c \in Clients : thread'[c].pc = "idle"
      BY <1>1, <2>1, Sides DEF Threads
    <3> QED
      BY <3>2, <3>3 DEF DrainInv, Dropping, Off
  <2>2. CASE t # Dropper
    <3>1. thread'[Dropper] = thread[Dropper] /\ thread[Dropper].pc = "idle"
      BY <1>1, <2>2, Sides
    <3> QED
      BY <3>1 DEF DrainInv, Dropping, Off
  <2> QED
    BY <2>1, <2>2
<1>4. OffLast'
  <2>1. thread[Dropper].pc = "idle" \/ Asking(Dropper)
        \/ ~(thread'[Dropper].pc = "idle" \/ Asking(Dropper)')
    BY <1>1, Sides DEF Asking
  <2> QED
    BY <2>1, SameSequences DEF DrainInv, OffLast, Off
<1> QED
  BY <1>2, <1>3, <1>4 DEF DrainInv

\* A thread gets a position: its message is in the queue.
LEMMA ClaimDrains ==
    ASSUME DrainInv, RingInv, NEW t \in Threads, Takes(t)
    PROVE  DrainInv'
<1>1. Puts(Current(t)) /\ Current(t) \in Messages /\ RingInv'
  BY ClaimPuts DEF Takes
<1>2. /\ thread[t].pc = "claim" /\ Moves(t, "fill", thread[t].pos, thread[t].sent)
      /\ UNCHANGED <<worker, badWorker>>
  BY Goes DEF Takes, Claim, RingInv
<1>3. /\ \A u \in Threads : thread'[u].sent = thread[u].sent
      /\ \A u \in Threads : u # t => thread'[u] = thread[u]
      /\ Asking(t) /\ ~Asking(t)' /\ thread'[t].pc = "fill"
  BY <1>2 DEF Moves, Asking
<1>4. PICK m : m = Current(t)
  OBVIOUS
<1>5. /\ Queue \in Seq(Texts) /\ Queue' \in Seq(Texts) /\ m \in Texts
      /\ Len(Queue') = Len(Queue) + 1 /\ Len(Queue) \in Nat
      /\ \A i \in 1..Len(Queue) : Queue'[i] = Queue[i]
      /\ Queue'[Len(Queue) + 1] = m /\ Delivered' = Delivered
  <2>1. Queue \in Seq(Texts) /\ m \in Texts
    BY <1>4, QueueFacts, CurrentText DEF QueueShape, RingInv
  <2> QED
    BY <1>1, <1>4, <2>1, AppendProperties DEF Puts
<1>6. /\ \A x : InQueue(x)' <=> InQueue(x) \/ x = m
      /\ \A x : InDelivered(x)' <=> InDelivered(x)
  <2>1. /\ \A i \in 1..Len(Queue) + 1 : i \in 1..Len(Queue) \/ i = Len(Queue) + 1
        /\ 1..Len(Queue) \subseteq 1..Len(Queue) + 1
        /\ Len(Queue) + 1 \in 1..Len(Queue) + 1
    BY <1>5
  <2> QED
    BY <1>5, <2>1 DEF InQueue, InDelivered
<1>7. Handed'
  <2>1. ASSUME NEW u \in Threads, u # t, NEW n \in 1..thread[u].sent
        PROVE  \/ Asking(u)' /\ n = thread[u].sent
               \/ InQueue(Message(u, n))' \/ InDelivered(Message(u, n))'
    <3>1. Asking(u)' <=> Asking(u)
      BY <1>3, <2>1 DEF Asking
    <3> QED
      BY <1>6, <3>1 DEF DrainInv, Handed
  <2>2. ASSUME NEW n \in 1..thread[t].sent
        PROVE  InQueue(Message(t, n))' \/ InDelivered(Message(t, n))'
    <3>1. n = thread[t].sent \/ InQueue(Message(t, n)) \/ InDelivered(Message(t, n))
      BY DEF DrainInv, Handed
    <3>2. n = thread[t].sent => Message(t, n) = m
      BY <1>4 DEF Current
    <3> QED
      BY <1>6, <3>1, <3>2
  <2>3. ASSUME NEW u \in Threads, NEW n \in 1..thread'[u].sent
        PROVE  \/ Asking(u)' /\ n = thread'[u].sent
               \/ InQueue(Message(u, n))' \/ InDelivered(Message(u, n))'
    BY <1>3, <2>1, <2>2
  <2> QED
    BY <2>3 DEF Handed, Message
<1>8. Dropping'
  <2>1. CASE t = Dropper
    <3>1. thread[Dropper].pc = "claim" /\ thread'[Dropper].pc = "fill"
          /\ thread'[Dropper].sent = thread[Dropper].sent
      BY <1>2, <1>3, <2>1
    <3>2. \A c \in Clients : thread'[c] = thread[c]
      BY <1>3, <2>1, Sides DEF Threads
    <3> QED
      BY <1>2, <3>1, <3>2 DEF DrainInv, Dropping, Off
  <2>2. CASE t # Dropper
    <3>1. thread'[Dropper] = thread[Dropper] /\ thread[Dropper].pc = "idle"
      BY <1>2, <1>3, <2>2, Sides DEF DrainInv, Dropping
    <3> QED
      BY <1>2, <3>1 DEF DrainInv, Dropping, Off
  <2> QED
    BY <2>1, <2>2
<1>9. ~InQueue(Off) /\ ~InDelivered(Off)
  <2>1. thread[Dropper].pc = "idle" \/ Asking(Dropper)
    BY <1>2, <1>3, Sides DEF DrainInv, Dropping
  <2> QED
    BY <2>1 DEF DrainInv, OffLast
<1>10. OffLast'
  <2>1. \A i \in 1..Len(Queue') : Queue'[i] = Off => i = Len(Queue')
    <3>1. \A i \in 1..Len(Queue) + 1 : i \in 1..Len(Queue) \/ i = Len(Queue) + 1
      BY <1>5
    <3>2. \A i \in 1..Len(Queue) : Queue'[i] # Off
      BY <1>5, <1>9 DEF InQueue
    <3> QED
      BY <1>5, <3>1, <3>2
  <2>2. ASSUME thread'[Dropper].pc = "idle" \/ Asking(Dropper)' PROVE ~InQueue(Off)'
    <3>1. t # Dropper
      BY <1>3, <2>2
    <3>2. m # Off
      BY <1>4, <3>1 DEF Current, Message, Off
    <3> QED
      BY <1>6, <1>9, <3>2 DEF Off, Message
  <2>3. ~InDelivered(Off)'
    BY <1>6, <1>9 DEF Off, Message
  <2> QED
    BY <2>1, <2>2, <2>3 DEF OffLast, Off, Message
<1> QED
  BY <1>7, <1>8, <1>10 DEF DrainInv

\* The worker gets a message from the queue.
LEMMA DequeueDrains == ASSUME DrainInv, RingInv, Dequeue PROVE DrainInv'
<1>1. Gets /\ RingInv'
  BY DequeueGets
<1>2. /\ worker.pc = "loop" /\ worker'.pc = "take" /\ UNCHANGED <<thread, badWorker>>
  BY DEF Dequeue, RingInv, RingTypes, WorkerRecords
<1>3. PICK m : m = Head(Queue)
  OBVIOUS
<1>4. /\ Queue \in Seq(Texts) /\ Queue # <<>> /\ Queue[1] = m /\ m \in Texts
      /\ Len(Queue) \in Nat \ {0}
      /\ Queue' \in Seq(Texts) /\ Len(Queue') = Len(Queue) - 1
      /\ \A i \in 1..Len(Queue) - 1 : Queue'[i] = Queue[i + 1]
  <2>1. Queue \in Seq(Texts) /\ Queue # <<>> /\ Queue' = Tail(Queue)
    BY <1>1, QueueFacts DEF QueueShape, Gets
  <2> QED
    BY <1>3, <2>1, EmptySeq, HeadTailProperties
<1>5. /\ Delivered \in Seq(Texts) /\ Len(Delivered) \in Nat
      /\ Len(Delivered') = Len(Delivered) + 1
      /\ \A i \in 1..Len(Delivered) : Delivered'[i] = Delivered[i]
      /\ Delivered'[Len(Delivered) + 1] = m
  <2>1. Delivered \in Seq(Texts) /\ Delivered' = Append(Delivered, m)
    BY <1>1, <1>3, QueueFacts DEF QueueShape, Gets
  <2> QED
    BY <1>4, <2>1, AppendProperties
<1>6. /\ \A i \in 1..Len(Queue) : i = 1 \/ (i - 1 \in 1..Len(Queue) - 1 /\ (i - 1) + 1 = i)
      /\ \A i \in 1..Len(Queue) - 1 : i + 1 \in 1..Len(Queue) /\ i + 1 # 1
      /\ 1 \in 1..Len(Queue)
      /\ \A i \in 1..Len(Delivered) + 1 : i \in 1..Len(Delivered) \/ i = Len(Delivered) + 1
      /\ 1..Len(Delivered) \subseteq 1..Len(Delivered) + 1
      /\ Len(Delivered) + 1 \in 1..Len(Delivered) + 1
  BY <1>4, <1>5
<1>7. /\ \A x : InQueue(x) => x = m \/ InQueue(x)'
      /\ \A x : InQueue(x)' => InQueue(x)
      /\ \A x : InDelivered(x)' <=> InDelivered(x) \/ x = m
  <2>1. ASSUME NEW x, InQueue(x), x # m PROVE InQueue(x)'
    <3>1. PICK i \in 1..Len(Queue) : Queue[i] = x
      BY <2>1 DEF InQueue
    <3>2. i - 1 \in 1..Len(Queue) - 1 /\ (i - 1) + 1 = i
      BY <1>4, <1>6, <2>1, <3>1
    <3>3. Queue'[i - 1] = x
      BY <1>4, <3>1, <3>2
    <3> QED
      BY <1>4, <3>2, <3>3 DEF InQueue
  <2>2. ASSUME NEW x, InQueue(x)' PROVE InQueue(x)
    <3>1. PICK i \in 1..Len(Queue) - 1 : Queue'[i] = x
      BY <1>4, <2>2 DEF InQueue
    <3> QED
      BY <1>4, <1>6, <3>1 DEF InQueue
  <2>3. ASSUME NEW x PROVE InDelivered(x)' <=> InDelivered(x) \/ x = m
    BY <1>5, <1>6 DEF InDelivered
  <2> QED
    BY <2>1, <2>2, <2>3
<1>8. Handed'
  <2>1. ASSUME NEW u \in Threads, NEW n \in 1..thread[u].sent
        PROVE  \/ Asking(u) /\ n = thread[u].sent
               \/ InQueue(Message(u, n))' \/ InDelivered(Message(u, n))'
    BY <1>7 DEF DrainInv, Handed
  <2> QED
    BY <1>2, <2>1 DEF Handed, Message, Asking
<1>9. Dropping'
  BY <1>2 DEF DrainInv, Dropping, Off
<1>10. OffLast'
  <2>1. ~InDelivered(Off)
    BY <1>4 DEF DrainInv, OffLast
  <2>2. InDelivered(Off)' => Queue' = <<>>
    <3>1. SUFFICES ASSUME m = Off PROVE Queue' = <<>>
      BY <1>7, <2>1 DEF Off, Message
    <3>2. 1 = Len(Queue)
      BY <1>4, <1>6, <3>1 DEF DrainInv, OffLast
    <3> QED
      BY <1>4, <3>2, EmptySeq
  <2>3. ASSUME NEW i \in 1..Len(Queue'), Queue'[i] = Off PROVE i = Len(Queue')
    <3>1. i + 1 \in 1..Len(Queue) /\ Queue[i + 1] = Off
      BY <1>4, <1>6, <2>3
    <3>2. i + 1 = Len(Queue)
      BY <3>1 DEF DrainInv, OffLast
    <3> QED
      BY <1>4, <3>2
  <2>4. (thread[Dropper].pc = "idle" \/ Asking(Dropper)) => ~InQueue(Off)' /\ ~InDelivered(Off)'
    <3>1. SUFFICES ASSUME ~InQueue(Off) PROVE ~InQueue(Off)' /\ ~InDelivered(Off)'
      BY DEF DrainInv, OffLast
    <3>2. m # Off
      BY <1>4, <1>6, <3>1 DEF InQueue
    <3> QED
      BY <1>7, <2>1, <3>1, <3>2 DEF Off, Message
  <2> QED
    BY <1>2, <2>2, <2>3, <2>4 DEF OffLast, Off, Message, Asking
<1> QED
  BY <1>8, <1>9, <1>10 DEF DrainInv

\* Nothing but the worker and its failure changes.
LEMMA OtherDrains ==
    ASSUME DrainInv, UNCHANGED <<thread, Queue, Delivered>>,
           badWorker => badWorker',
           worker'.pc = "ended" =>
              \/ worker.pc = "ended" /\ worker' = worker
              \/ badWorker' \/ worker'.msg = Off,
           worker.pc = "ended" => worker'.pc = "ended"
    PROVE  DrainInv'
<1>1. Handed'
  BY SameSequences DEF DrainInv, Handed, Message, Asking
<1>2. Dropping'
  BY DEF DrainInv, Dropping, Off
<1>3. OffLast'
  BY SameSequences DEF DrainInv, OffLast, Off, Message, Asking
<1> QED
  BY <1>1, <1>2, <1>3 DEF DrainInv

LEMMA EnqueueDrains ==
    ASSUME DrainInv, RingInv, NEW t \in Threads, Enqueue(t)
    PROVE  DrainInv'
<1>1. CASE Takes(t)
  BY <1>1, ClaimDrains
<1>2. ASSUME ~Takes(t) PROVE UNCHANGED <<Queue, Delivered>>
  BY <1>2, EnqueueStays DEF Stays
<1>3. CASE LoadPos(t)
  <2>1. thread[t].pc = "load" /\ Moves(t, "check", enqueue_pos, thread[t].sent)
        /\ UNCHANGED <<worker, badWorker>>
    BY <1>3, Looks DEF LoadPos, RingInv
  <2>2. ~Takes(t)
    BY <2>1 DEF Takes, Claim
  <2> QED
    BY <1>2, <2>1, <2>2, ActiveDrains DEF Asking
<1>4. CASE ReadSequence(t)
  <2>1. PICK pc \in {"claim", "load"} : Goto(t, pc)
    BY <1>4 DEF ReadSequence
  <2>2. thread[t].pc = "check" /\ Moves(t, pc, thread[t].pos, thread[t].sent)
        /\ UNCHANGED <<worker, badWorker>>
    BY <1>4, <2>1, Goes DEF ReadSequence, RingInv
  <2>3. ~Takes(t)
    BY <2>2 DEF Takes, Claim
  <2> QED
    BY <1>2, <2>2, <2>3, ActiveDrains DEF Asking
<1>5. CASE Claim(t) /\ ~Takes(t)
  <2>1. thread[t].pc = "claim" /\ Moves(t, "check", enqueue_pos, thread[t].sent)
        /\ UNCHANGED <<worker, badWorker>>
    BY <1>5, Looks DEF Claim, Takes, RingInv
  <2> QED
    BY <1>2, <1>5, <2>1, ActiveDrains DEF Asking
<1>6. CASE Fill(t)
  <2>1. thread[t].pc = "fill" /\ Moves(t, "publish", thread[t].pos, thread[t].sent)
        /\ UNCHANGED <<worker, badWorker>>
    BY <1>6, Goes DEF Fill, RingInv
  <2>2. ~Takes(t)
    BY <2>1 DEF Takes, Claim
  <2> QED
    BY <1>2, <2>1, <2>2, ActiveDrains DEF Asking
<1>7. CASE Publish(t)
  <2>1. PICK pc \in {"join", "idle"} : Goto(t, pc) /\ (t = Dropper => pc = "join")
    BY <1>7 DEF Publish
  <2>2. thread[t].pc = "publish" /\ Moves(t, pc, thread[t].pos, thread[t].sent)
        /\ UNCHANGED <<worker, badWorker>>
    BY <1>7, <2>1, Goes DEF Publish, RingInv
  <2>3. ~Takes(t)
    BY <2>2 DEF Takes, Claim
  <2> QED
    BY <1>2, <2>1, <2>2, <2>3, ActiveDrains DEF Asking
<1> QED
  BY <1>1, <1>3, <1>4, <1>5, <1>6, <1>7 DEF Enqueue

LEMMA WorkDrains == ASSUME DrainInv, RingInv, Work PROVE DrainInv'
<1>1. CASE Dequeue
  BY <1>1, DequeueDrains
<1>2. CASE TakeData \/ Release \/ WriteLine
  <2>1. /\ worker.pc # "ended" /\ worker'.pc # "ended" /\ UNCHANGED <<thread, badWorker>>
        /\ ~Dequeue
    BY <1>2 DEF TakeData, Release, WriteLine, Dequeue, RingInv, RingTypes, WorkerRecords
  <2>2. UNCHANGED <<Queue, Delivered>>
    BY <2>1, WorkStays DEF Stays
  <2> QED
    BY <2>1, <2>2, OtherDrains
<1>3. CASE EndLoop \/ SinkFails
  <2>1. /\ worker.pc = "process" /\ worker'.pc = "ended" /\ UNCHANGED thread
        /\ badWorker => badWorker'
        /\ badWorker' \/ worker'.msg = Off
        /\ ~Dequeue
    BY <1>3 DEF EndLoop, SinkFails, Dequeue, RingInv, RingTypes, WorkerRecords
  <2>2. UNCHANGED <<Queue, Delivered>>
    BY <2>1, WorkStays DEF Stays
  <2> QED
    BY <2>1, <2>2, OtherDrains
<1> QED
  BY <1>1, <1>2, <1>3 DEF Work

LEMMA DrainNext == RingInv /\ DrainInv /\ [Next]_vars => DrainInv'
<1> SUFFICES ASSUME RingInv, DrainInv, [Next]_vars PROVE DrainInv'
  OBVIOUS
<1>1. ASSUME NEW t \in Threads, Log(t) PROVE DrainInv'
  <2>1. /\ Moves(t, "load", thread[t].pos, thread[t].sent + 1) /\ thread[t].pc = "idle"
        /\ UNCHANGED <<worker, badWorker>> /\ t # Dropper /\ thread[Dropper].pc = "idle"
    <3>1. \A n \in 0..MaxMessages + 1 : n < MaxMessages => n < MaxMessages + 1
      BY LogAssumption
    <3>2. thread[t].sent < MaxMessages + 1
      BY <1>1, <3>1, ThreadFields DEF Log, RingInv
    <3> QED
      BY <1>1, <3>2, Counted, Sides DEF Log, StartLog, RingInv
  <2>2. UNCHANGED <<Queue, Delivered>>
    BY <1>1, LogStays DEF Stays
  <2> QED
    BY <2>1, <2>2, StartDrains DEF RingInv
<1>2. CASE Drop
  <2>1. /\ Moves(Dropper, "load", thread[Dropper].pos, thread[Dropper].sent + 1)
        /\ thread[Dropper].pc = "idle" /\ UNCHANGED <<worker, badWorker>>
        /\ \A c \in Clients : thread[c].pc = "idle"
    <3>1. 0 < MaxMessages + 1
      BY LogAssumption
    <3> QED
      BY <1>2, <3>1, Counted, Sides DEF Drop, StartLog, RingInv
  <2>2. UNCHANGED <<Queue, Delivered>>
    BY <1>2, DropStays DEF Stays
  <2> QED
    BY <2>1, <2>2, StartDrains, Sides DEF RingInv
<1>3. CASE Join
  <2>1. /\ thread[Dropper].pc = "join" /\ UNCHANGED <<worker, badWorker>>
        /\ Moves(Dropper, "dropped", thread[Dropper].pos, thread[Dropper].sent)
        /\ worker.pc = "ended"
    BY <1>3, Goes, Sides DEF Join, WorkerEnded, RingInv
  <2>2. UNCHANGED <<Queue, Delivered>>
    BY <1>3, JoinStays DEF Stays
  <2> QED
    BY <2>1, <2>2, ActiveDrains, Sides DEF Asking
<1>4. CASE Midnight \/ UNCHANGED vars
  <2>1. UNCHANGED <<buffer, enqueue_pos, dequeue_pos, thread, worker, badWorker, written>>
    BY <1>4 DEF Midnight, vars
  <2>2. UNCHANGED <<Queue, Delivered>>
    BY <2>1, UnchangedStays DEF Stays
  <2> QED
    BY <2>1, <2>2, OtherDrains
<1> QED
  BY <1>1, <1>2, <1>3, <1>4, EnqueueDrains, WorkDrains DEF Next

LEMMA DrainStart == Init => DrainInv
<1> SUFFICES ASSUME Init PROVE DrainInv
  OBVIOUS
<1>1. /\ \A t \in Threads : thread[t].pc = "idle" /\ thread[t].sent = 0
      /\ worker.pc = "loop" /\ Queue = <<>> /\ Delivered = <<>>
  BY RingStart DEF Init
<1>2. (\A m : ~InQueue(m)) /\ (\A m : ~InDelivered(m))
  BY <1>1 DEF InQueue, InDelivered
<1>3. Handed
  <2>1. \A n \in 1..0 : FALSE
    OBVIOUS
  <2> QED
    BY <1>1, <2>1 DEF Handed
<1>4. Dropping
  BY <1>1, Sides DEF Dropping
<1>5. OffLast
  BY <1>1, <1>2 DEF OffLast
<1> QED
  BY <1>3, <1>4, <1>5 DEF DrainInv

LEMMA DrainsAll == RingInv /\ DrainInv => DropDrains
<1> SUFFICES ASSUME RingInv, DrainInv, thread[Dropper].pc = "dropped", ~badWorker,
                    NEW c \in Clients, NEW n \in 1..thread[c].sent
             PROVE  Contains(written, Message(c, n))
  BY DEF DropDrains
<1>1. worker.pc = "ended" /\ worker.msg = Off /\ thread[c].pc = "idle"
  BY DEF DrainInv, Dropping
<1>2. written \in Seq(Texts) /\ Off \in Texts
  <2>1. worker.msg \in Texts
    BY DEF RingInv, RingTypes, WorkerRecords
  <2> QED
    BY <1>1, <2>1 DEF RingInv, RingTypes
<1>3. Delivered = Append(written, Off)
  <2>1. InHand = <<Off>>
    BY <1>1 DEF InHand
  <2> QED
    BY <1>2, <2>1, AppendIsConcat DEF Delivered
<1>4. /\ Len(written) \in Nat /\ Len(Delivered) = Len(written) + 1
      /\ \A i \in 1..Len(written) : Delivered[i] = written[i]
      /\ Delivered[Len(written) + 1] = Off
  BY <1>2, <1>3, AppendProperties
<1>5. /\ \A i \in 1..Len(written) + 1 : i \in 1..Len(written) \/ i = Len(written) + 1
      /\ Len(written) + 1 \in 1..Len(written) + 1
  BY <1>4
<1>6. Queue = <<>>
  <2>1. InDelivered(Off)
    BY <1>4, <1>5 DEF InDelivered
  <2> QED
    BY <2>1 DEF DrainInv, OffLast
<1>7. InDelivered(Message(c, n))
  <2>1. ~Asking(c) /\ c \in Threads
    BY <1>1 DEF Asking, Threads
  <2>2. ~InQueue(Message(c, n))
    BY <1>6 DEF InQueue
  <2> QED
    BY <2>1, <2>2 DEF DrainInv, Handed
<1>8. Message(c, n) # Off
  BY Sides DEF Message, Off
<1>9. PICK i \in 1..Len(written) : written[i] = Message(c, n)
  BY <1>4, <1>5, <1>7, <1>8 DEF InDelivered
<1> QED
  BY <1>9 DEF Contains

\* For every number of clients and messages and every ring, a logger that has
\* been dropped has written every message that any thread handed to it, unless
\* the file failed (~async_log_helper waits for the message that ends the loop,
\* which the ring delivers last).
THEOREM DroppedIsDrained == Spec => []DropDrains
<1>1. Init => RingInv /\ DrainInv
  BY RingStart, DrainStart
<1>2. RingInv /\ DrainInv /\ [Next]_vars => RingInv' /\ DrainInv'
  BY RingNext, DrainNext DEF Stays
<1>3. RingInv /\ DrainInv => DropDrains
  BY DrainsAll
<1> QED
  BY <1>1, <1>2, <1>3, PTL DEF Spec
=============================================================================
