----------------------------- MODULE BoundedFifo -----------------------------
(***************************************************************************)
(* What a single-producer single-consumer event ring promises: a FIFO of   *)
(* at most Capacity events.  taken is the event the last pop returned.     *)
(***************************************************************************)
EXTENDS Naturals, Sequences

CONSTANTS Values, Capacity, NoValue

VARIABLES queue, taken

Init == queue = <<>> /\ taken = NoValue

Push(v) == /\ Len(queue) < Capacity
           /\ queue' = Append(queue, v)
           /\ UNCHANGED taken

Pop == /\ queue # <<>>
       /\ taken' = Head(queue)
       /\ queue' = Tail(queue)

Next == Pop \/ \E v \in Values : Push(v)

Spec == Init /\ [][Next]_<<queue, taken>>
=============================================================================
