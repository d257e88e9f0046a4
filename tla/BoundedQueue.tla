---------------------------- MODULE BoundedQueue ----------------------------
(***************************************************************************)
(* What the Memory Intent ring promises: a first-in first-out queue of at  *)
(* most Capacity entries, from which each entry is delivered once.         *)
(***************************************************************************)
EXTENDS Naturals, Sequences

CONSTANTS Values, Capacity

VARIABLES queue, delivered

queueVars == <<queue, delivered>>

QueueInit == queue = <<>> /\ delivered = <<>>

Enqueue(v) ==
    /\ Len(queue) < Capacity
    /\ queue' = Append(queue, v)
    /\ UNCHANGED delivered

\* delivered is the last entry taken out.
Dequeue ==
    /\ queue # <<>>
    /\ delivered' = Head(queue)
    /\ queue' = Tail(queue)

QueueNext == Dequeue \/ \E v \in Values : Enqueue(v)

QueueSpec == QueueInit /\ [][QueueNext]_queueVars

=============================================================================
