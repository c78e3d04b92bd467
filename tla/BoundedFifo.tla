----------------------------- MODULE BoundedFifo -----------------------------
(***************************************************************************)
(* What pkg/circularbuffer promises its users: a first-in first-out queue   *)
(* of at most MaxCapacity items, whose oldest items may also be dropped.    *)
(***************************************************************************)
EXTENDS Naturals, Sequences

CONSTANT MaxCapacity

VARIABLE queue

Enqueue(more) == Len(queue \o more) <= MaxCapacity /\ queue' = queue \o more

Put == \E n \in 1 .. Len(queue') : Enqueue(SubSeq(queue', n, Len(queue')))

(* Read, Seek within the data, Clear and Flush. *)
Drop == \E n \in 1 .. Len(queue) : queue' = SubSeq(queue, n + 1, Len(queue))

Init == queue = << >>
Next == Put \/ Drop
Spec == Init /\ [][Next]_queue

=============================================================================
