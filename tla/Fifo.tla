------------------------------- MODULE Fifo -------------------------------
(* A bounded first-in first-out queue: what PendingQueue promises Game.     *)
EXTENDS Integers, Sequences

CONSTANTS Entries, Capacity

VARIABLE queue

FifoInit == queue = <<>>

Enqueue(e) == Len(queue) < Capacity /\ queue' = Append(queue, e)

Dequeue == queue # <<>> /\ queue' = Tail(queue)

Reset == queue' = <<>>

FifoNext == (\E e \in Entries : Enqueue(e)) \/ Dequeue \/ Reset

FifoSpec == FifoInit /\ [][FifoNext]_queue

=============================================================================
