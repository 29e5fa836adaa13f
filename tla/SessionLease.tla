---------------------------- MODULE SessionLease ----------------------------
(***************************************************************************)
(* What SessionPool promises the threads of one database, without the      *)
(* lists, the count and the timer: a session is spare or leased to one     *)
(* user, a new one is made only when no live one is spare, a live one that *)
(* is given back stays, and the janitor leaves the minimum of sessions.    *)
(***************************************************************************)
EXTENDS Integers, FiniteSets

CONSTANTS Users, Sessions, MinSessions

VARIABLES open,     \* the database is connected
          spare,    \* sessions no user has
          leased,   \* user -> its session, as a set of at most one
          broken    \* sessions whose connection has died

vars == <<open, spare, leased, broken>>

InUse == UNION {leased[u] : u \in Users}
Live  == spare \ broken

Init ==
    /\ open = FALSE /\ spare = {} /\ broken = {}
    /\ leased = [u \in Users |-> {}]

\* The database is connected with a first session.
Open ==
    /\ ~open /\ open' = TRUE
    /\ \E s \in Sessions : spare' = {s}
    /\ UNCHANGED <<leased, broken>>

\* Who asks for a session notices the spare ones that are broken.
Asks(u) == open /\ leased[u] = {} /\ broken' = broken \ spare /\ UNCHANGED open

\* A user gets a live session, or a new one if there is none.
Take(u) ==
    /\ Asks(u)
    /\ \E s \in IF Live # {} THEN Live ELSE Sessions \ (spare \cup InUse) :
          /\ spare' = Live \ {s}
          /\ leased' = [leased EXCEPT ![u] = {s}]

\* A user gets none: none is live, and none can be made.
Refuse(u) == Asks(u) /\ Live = {} /\ spare' = {} /\ UNCHANGED leased

\* A user gives its session back, which stays unless it is broken.
Return(u) ==
    /\ leased[u] # {}
    /\ leased' = [leased EXCEPT ![u] = {}]
    /\ spare' = spare \cup (leased[u] \ broken)
    /\ broken' = broken \ leased[u]
    /\ UNCHANGED open

\* Spare sessions are closed; the minimum is left.
Trim ==
    \E gone \in SUBSET spare :
        /\ Cardinality(gone) <= Cardinality(spare) + Cardinality(InUse) - MinSessions
        /\ spare' = spare \ gone
        /\ broken' = broken \ gone
        /\ UNCHANGED <<open, leased>>

\* A connection dies.
Break ==
    /\ \E s \in (spare \cup InUse) \ broken : broken' = broken \cup {s}
    /\ UNCHANGED <<open, spare, leased>>

Next == Open \/ Trim \/ Break \/ \E u \in Users : Take(u) \/ Refuse(u) \/ Return(u)

Spec == Init /\ [][Next]_vars
=============================================================================
