---------------------------- MODULE CallContract ----------------------------
(***************************************************************************)
(* What extDB promises a script, without ids, threads and parts: a request *)
(* is answered at most once, and the script gets all of the string that    *)
(* answers its own request, or an error before there is one.               *)
(***************************************************************************)
EXTENDS Naturals

CONSTANTS Scripts, MaxCalls

VARIABLES made,         \* number of requests made
          pending,      \* script -> its request in progress, or 0
          answer,       \* request -> length of its answer, or 0
          reply         \* script -> what its last request returned

vars == <<made, pending, answer, reply>>

Nothing == [req |-> 0, size |-> 0]

Init == /\ made = 0
        /\ pending = [s \in Scripts |-> 0]
        /\ answer = [r \in 1..MaxCalls |-> 0]
        /\ reply = [s \in Scripts |-> Nothing]

\* A script makes a request and waits for it (pending) or not (one-way).
Ask(s) ==
    /\ pending[s] = 0 /\ made < MaxCalls
    /\ made' = made + 1
    /\ pending' \in {pending, [pending EXCEPT ![s] = made + 1]}
    /\ reply' = [reply EXCEPT ![s] = Nothing]
    /\ UNCHANGED answer

\* A request is answered, once.
Answer(r) ==
    /\ r <= made /\ answer[r] = 0
    /\ answer'[r] # 0 /\ answer' = [answer EXCEPT ![r] = answer'[r]]
    /\ UNCHANGED <<made, pending, reply>>

\* The script gets the whole answer of its own request.
Deliver(s) ==
    /\ pending[s] # 0 /\ answer[pending[s]] # 0
    /\ reply' = [reply EXCEPT ![s] = [req |-> pending[s], size |-> answer[pending[s]]]]
    /\ pending' = [pending EXCEPT ![s] = 0]
    /\ UNCHANGED <<made, answer>>

\* The request is refused, which leaves it without an answer.
Refuse(s) ==
    /\ pending[s] # 0 /\ answer[pending[s]] = 0
    /\ pending' = [pending EXCEPT ![s] = 0]
    /\ UNCHANGED <<made, answer, reply>>

Next == \/ \E s \in Scripts : Ask(s) \/ Deliver(s) \/ Refuse(s)
        \/ \E r \in 1..MaxCalls : Answer(r)

Spec == Init /\ [][Next]_vars
=============================================================================
