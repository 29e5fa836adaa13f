----------------------------- MODULE SessionPool -----------------------------
(***************************************************************************)
(* The pool of sessions of one database: extDB's copy of Poco's            *)
(* SessionPool, as Ext::connectDatabase makes it and the protocols use it. *)
(* Every method runs under the pool's mutex, so it is one step; only       *)
(* shutdown waits for another thread, the janitor's timer, while it holds  *)
(* the mutex.  A session is named by a member of Sessions; the name is     *)
(* used again once the session is gone.                                    *)
(***************************************************************************)
EXTENDS Integers, Sequences, FiniteSets

CONSTANTS Users,        \* threads that run protocols: workers, the game thread
          Sessions,     \* names of sessions
          MinSessions   \* _minSessions

ASSUME PoolAssumption ==
    /\ IsFiniteSet(Users) /\ Users # {}
    /\ IsFiniteSet(Sessions)
    /\ MinSessions \in Nat

VARIABLES
    idle,       \* _idleSessions, the last one put back first
    active,     \* _activeSessions
    nSessions,  \* _nSessions
    phase,      \* "connecting", "open", "failed", "stopping" (_shutdown), "closed"
    janitor,    \* the timer's thread: "sleep", "called" (onJanitorTimer), "done"
    lost,       \* sessions of the pool whose connection has died
    old,        \* idle sessions that have been idle for longer than _idleTime
    held        \* user -> the session it holds, as a set of at most one

poolVars == <<idle, active, nSessions, phase, janitor, lost, old, held>>

Idle == {idle[i] : i \in DOMAIN idle}
InPool == Idle \cup active
\* x comes before y in the list.
Before(x, y, list) ==
    \E i, j \in DOMAIN list : i < j /\ list[i] = x /\ list[j] = y
\* rest is what the list becomes when all but the members of kept are erased.
IsRest(rest, list, kept) ==
    /\ rest \in [1..Cardinality(kept) -> kept]
    /\ kept = {rest[i] : i \in DOMAIN rest}
    /\ \A x, y \in kept : Before(x, y, rest) <=> Before(x, y, list)
Rests(list, kept) == {r \in [1..Cardinality(kept) -> kept] : IsRest(r, list, kept)}

Init ==
    /\ idle = <<>> /\ active = {} /\ nSessions = 0
    /\ phase = "connecting" /\ janitor = "sleep"
    /\ lost = {} /\ old = {}
    /\ held = [u \in Users |-> {}]

-----------------------------------------------------------------------------
(* Ext::connectDatabase takes a first session and gives it back.           *)

ConnectOk(s) ==
    /\ phase = "connecting" /\ phase' = "open"
    /\ idle' = <<s>> /\ nSessions' = 1
    /\ UNCHANGED <<active, janitor, lost, old, held>>

\* The connection is refused, or dead when asked: pool.reset() follows.
ConnectFails ==
    /\ phase = "connecting" /\ phase' = "failed"
    /\ UNCHANGED <<idle, active, nSessions, janitor, lost, old, held>>

-----------------------------------------------------------------------------
(* get and putBack.                                                        *)

\* Mutant: get does not call purgeDeadSessions.
DeadNone == {}
\* The sessions purgeDeadSessions erases.
Dead == Idle \cap lost

\* Mutant: the session stays in the list of idle ones.
StillIdle(list) == list
\* The list of idle sessions once its front has been taken.
NotTaken(list) == Tail(list)

\* get, when a live session is idle: the first one.
GetIdle(u, s) ==
    /\ phase = "open" /\ held[u] = {}
    /\ Idle \ Dead # {}
    /\ \E rest \in Rests(idle, Idle \ Dead) :
          s = Head(rest) /\ idle' = NotTaken(rest)
    /\ active' = active \cup {s}
    /\ held' = [held EXCEPT ![u] = {s}]
    /\ nSessions' = nSessions - Cardinality(Dead)
    /\ lost' = lost \ Dead /\ old' = old \ (Dead \cup {s})
    /\ UNCHANGED <<phase, janitor>>

\* Mutant: the test for an idle session is lost.
NeedsNewAlways == TRUE
\* get creates a session when none is left idle; no maximum is looked at.
NeedsNew == Idle \ Dead = {}

\* get, with the connection to the database made.
GetNew(u, s) ==
    /\ phase = "open" /\ held[u] = {}
    /\ NeedsNew
    /\ s \in Sessions \ InPool
    /\ \E rest \in Rests(idle, Idle \ Dead) : idle' = rest
    /\ active' = active \cup {s}
    /\ held' = [held EXCEPT ![u] = {s}]
    /\ nSessions' = nSessions - Cardinality(Dead) + 1
    /\ lost' = lost \ Dead /\ old' = old \ Dead
    /\ UNCHANGED <<phase, janitor>>

\* get, when the connection cannot be made: what was purged stays purged.
GetFails(u) ==
    /\ phase = "open" /\ held[u] = {}
    /\ NeedsNew
    /\ \E rest \in Rests(idle, Idle \ Dead) : idle' = rest
    /\ nSessions' = nSessions - Cardinality(Dead)
    /\ lost' = lost \ Dead /\ old' = old \ Dead
    /\ UNCHANGED <<active, phase, janitor, held>>

\* putBack of a connected session.
PutBackLive(u, s) ==
    /\ phase = "open" /\ held[u] = {s}
    /\ s \notin lost
    /\ idle' = <<s>> \o idle
    /\ active' = active \ {s}
    /\ held' = [held EXCEPT ![u] = {}]
    /\ UNCHANGED <<nSessions, phase, janitor, lost, old>>

\* Mutant: the count is left as it was when a dead session is dropped.
CountDroppedKept == 0
\* Mutant: both purgeDeadSessions and putBack count the session they drop.
CountDroppedTwice == 2
\* By how much putBack of a dead session lowers the count.
CountDropped == 1

\* putBack of a session whose connection died in use.
PutBackDead(u, s) ==
    /\ phase = "open" /\ held[u] = {s}
    /\ s \in lost
    /\ active' = active \ {s}
    /\ held' = [held EXCEPT ![u] = {}]
    /\ nSessions' = nSessions - CountDropped
    /\ lost' = lost \ {s}
    /\ UNCHANGED <<idle, phase, janitor, old>>

-----------------------------------------------------------------------------
(* The janitor and shutdown.                                               *)

\* The timer calls onJanitorTimer, which asks for the mutex.
JanitorWakes ==
    /\ phase \in {"connecting", "open", "failed"} /\ janitor = "sleep"
    /\ janitor' = "called"
    /\ UNCHANGED <<idle, active, nSessions, phase, lost, old, held>>

\* Idle sessions the janitor may close.
Closable == {s \in Idle : s \in old \cup lost}

\* Mutant: it stops one session too early.
SurplusOneLess ==
    {s \in Closable : Cardinality({c \in Closable : Before(c, s, idle)}) + 1
                        < nSessions - MinSessions}
\* Mutant: the loop goes on while there are not fewer than the minimum.
SurplusOneMore ==
    {s \in Closable : Cardinality({c \in Closable : Before(c, s, idle)})
                        <= nSessions - MinSessions}
\* What it closes: from the front, while there are more than MinSessions.
Surplus ==
    {s \in Closable : Cardinality({c \in Closable : Before(c, s, idle)})
                        < nSessions - MinSessions}

JanitorRuns ==
    /\ phase \in {"connecting", "open", "failed"} /\ janitor = "called"
    /\ janitor' = "sleep"
    /\ \E rest \in Rests(idle, Idle \ Surplus) : idle' = rest
    /\ nSessions' = nSessions - Cardinality(Surplus)
    /\ lost' = lost \ Surplus /\ old' = old \ Surplus
    /\ UNCHANGED <<active, phase, held>>

\* shutdown takes the mutex and tells the timer to stop.
ShutdownBegins ==
    /\ phase = "failed" /\ phase' = "stopping"
    /\ UNCHANGED <<idle, active, nSessions, janitor, lost, old, held>>

\* Timer::run finds the wake-up event set.  A janitor that has been called
\* does not get here: it waits for the mutex.
TimerEnds ==
    /\ phase = "stopping" /\ janitor = "sleep"
    /\ janitor' = "done"
    /\ UNCHANGED <<idle, active, nSessions, phase, lost, old, held>>

\* Timer::stop returns and closeAll empties both lists.
ShutdownEnds ==
    /\ phase = "stopping" /\ janitor = "done"
    /\ phase' = "closed"
    /\ idle' = <<>> /\ active' = {} /\ nSessions' = 0
    /\ lost' = {} /\ old' = {}
    /\ UNCHANGED <<janitor, held>>

-----------------------------------------------------------------------------
(* What happens to sessions.                                               *)

\* The database, or the network, ends the connection of a session.
Drop(s) ==
    /\ s \in InPool \ lost
    /\ lost' = lost \cup {s}
    /\ UNCHANGED <<idle, active, nSessions, phase, janitor, old, held>>

\* A session has been idle for longer than _idleTime: so have those behind it.
GrowsOld(s) ==
    /\ s \in Idle \ old
    /\ \A t \in Idle : Before(s, t, idle) => t \in old
    /\ old' = old \cup {s}
    /\ UNCHANGED <<idle, active, nSessions, phase, janitor, lost, held>>

Next ==
    \/ ConnectFails \/ JanitorWakes \/ JanitorRuns
    \/ ShutdownBegins \/ TimerEnds \/ ShutdownEnds
    \/ \E s \in Sessions : ConnectOk(s) \/ Drop(s) \/ GrowsOld(s)
    \/ \E u \in Users : GetFails(u)
    \/ \E u \in Users, s \in Sessions :
          GetIdle(u, s) \/ GetNew(u, s) \/ PutBackLive(u, s) \/ PutBackDead(u, s)

Spec == Init /\ [][Next]_poolVars

\* The operating system runs the timer's thread and the thread in shutdown.
PoolFairness ==
    /\ WF_poolVars(JanitorWakes)
    /\ WF_poolVars(JanitorRuns)
    /\ WF_poolVars(TimerEnds)
    /\ WF_poolVars(ShutdownBegins)
    /\ WF_poolVars(ShutdownEnds)

-----------------------------------------------------------------------------
\* Types of the pool's state; sessions that are gone leave no trace.
PoolTypeOK ==
    /\ idle \in Seq(Sessions)
    /\ active \subseteq Sessions
    /\ nSessions \in Nat
    /\ phase \in {"connecting", "open", "failed", "stopping", "closed"}
    /\ janitor \in {"sleep", "called", "done"}
    /\ lost \subseteq InPool
    /\ old \subseteq Idle
    /\ held \in [Users -> SUBSET Sessions]

\* A session has one place: one user holds it, or it is idle, once.  get and
\* putBack move it between the two lists, whoever calls them and whenever its
\* connection dies.
OnePlace ==
    /\ \A i, j \in DOMAIN idle : idle[i] = idle[j] => i = j
    /\ Idle \cap active = {}
    /\ \A u \in Users : \A s, t \in held[u] : s = t
    /\ \A u, v \in Users : u # v => held[u] \cap held[v] = {}

\* No session leaks (Changelog.txt:94): those in use are those users hold,
\* and _nSessions, which the janitor compares with its minimum, counts what
\* is in the two lists, although five places change it.
NoLeak ==
    /\ active = UNION {held[u] : u \in Users}
    /\ nSessions = Len(idle) + Cardinality(active)

\* There are never more sessions than threads that use them: get looks at no
\* maximum, and only reuse keeps the number down.
NoMoreThanUsers == nSessions <= Cardinality(Users)

\* No call starts on a session already known to be dead.
NoDeadSessionHandedOut ==
    [][\A u \in Users : held[u] = {} => held'[u] \cap lost = {}]_poolVars

\* Sessions that are too old or dead do not stay idle for ever while there are
\* more than MinSessions (SessionPool.h:94).
SurplusCloses ==
    []<>(nSessions <= MinSessions \/ Closable = {})

\* For the threads that use it the pool is a SessionLease: it makes a session
\* only when none is left that is live, keeps what is given back, and, though
\* it relies on its own count, the janitor never closes a session when that
\* leaves fewer than MinSessions, in use and idle.
Lease == INSTANCE SessionLease WITH
             open <- phase = "open", spare <- Idle, leased <- held, broken <- lost
LeaseSpec == Lease!Spec

\* DATABASE returns when the connection cannot be made, as Changelog.txt:110
\* says, and the pool it made is gone.
FailedConnectReturns == (phase = "failed") ~> (phase = "closed")
=============================================================================
