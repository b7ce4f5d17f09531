----------------------------- MODULE BoundedFifo -----------------------------
(***************************************************************************)
(* What the queue of accepted connections promises to the threads of an    *)
(* IPC server: first in, first out, at most Capacity of them, and emptied  *)
(* as a whole.                                                             *)
(***************************************************************************)
EXTENDS Naturals, Sequences

CONSTANTS Conns, Capacity

VARIABLE queue

Init == queue = <<>>

Enqueue == \E c \in Conns : Len(queue) < Capacity /\ queue' = Append(queue, c)
Dequeue == queue # <<>> /\ queue' = Tail(queue)
Clear == queue' = <<>>

Next == Enqueue \/ Dequeue \/ Clear

Spec == Init /\ [][Next]_queue
=============================================================================
