------------------------------ MODULE LogQueue ------------------------------
(***************************************************************************)
(* What the queue between an asynchronous logger and its worker promises:  *)
(* a bounded first-in first-out queue.  delivered is what the worker has   *)
(* been given, in order.                                                   *)
(***************************************************************************)
EXTENDS Integers, Sequences

CONSTANTS Size, Messages

VARIABLES queue, delivered

qvars == <<queue, delivered>>

Init == /\ queue = <<>>
        /\ delivered = <<>>

Put(m) == /\ Len(queue) < Size
          /\ queue' = Append(queue, m)
          /\ UNCHANGED delivered

Get == /\ queue # <<>>
       /\ delivered' = Append(delivered, Head(queue))
       /\ queue' = Tail(queue)

Next == Get \/ \E m \in Messages : Put(m)

Spec == Init /\ [][Next]_qvars
=============================================================================
