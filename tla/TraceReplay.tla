----------------------------- MODULE TraceReplay -----------------------------
(***************************************************************************)
(* KVMemorySimulator.run() on the trace of a producer: the events still to *)
(* be taken are a queue, and run() handles its head.  The producers        *)
(* (VllmAdapter, WorkloadTraces) extend this module.                       *)
(*                                                                         *)
(* The code records a whole trace before it replays it.  A producer never  *)
(* looks at the simulator, so feeding the queue call by call gives the same *)
(* simulator states, in the same order.                                    *)
(***************************************************************************)
EXTENDS TierSimulator, Sequences, SequencesExt

CONSTANT Requests    \* the request ids

VARIABLE trace    \* the events that run() has not taken yet

\* schema.py: EventType, as far as some producer emits it.  EVICTED and MISS
\* occur in hand-written traces only; TierSimulator has them.
EventType ==
    {"ALLOCATED", "ACCESSED", "COMMITTED", "FREED", "SPILLED", "PREFETCHED",
     "MARKED_COLD", "MARKED_DECODE_CRITICAL"}

MemoryIntentEvent == [event_type : EventType, object_id : Blocks, intent : Intents]

Ev(type, b, i) == [event_type |-> type, object_id |-> b, intent |-> i]

\* The branch of run() for one event.
Handle(e) ==
    LET b == e.object_id
        i == e.intent
    IN  \/ e.event_type = "ALLOCATED" /\ Allocated(b, i)
        \/ e.event_type = "ACCESSED" /\ Accessed(b, i)
        \/ e.event_type = "MARKED_DECODE_CRITICAL" /\ MarkedDecodeCritical(b, i)
        \/ e.event_type = "MARKED_COLD" /\ MarkedCold(b, i)
        \/ e.event_type = "COMMITTED" /\ Committed(b)
        \/ e.event_type = "SPILLED" /\ Spilled(b)
        \/ e.event_type = "PREFETCHED" /\ \E urgent \in BOOLEAN : Prefetched(b, i, urgent)
        \/ e.event_type = "FREED" /\ Freed(b)

Replay ==
    /\ trace # <<>>
    /\ Handle(Head(trace))
    /\ trace' = Tail(trace)

\* The simulator is between two events and has taken all of them.
Quiescent == trace = <<>> /\ pc = "idle"

\* One step of run().
Simulate == Replay \/ ((Loop \/ Finish) /\ UNCHANGED trace)

-----------------------------------------------------------------------------
(***************************************************************************)
(* What the properties of the producers say                                *)
(***************************************************************************)
\* run() takes an event about a block that is not live: it ignores the event
\* (MARKED_COLD, SPILLED, PREFETCHED, COMMITTED) or makes up a block (ACCESSED,
\* MARKED_DECODE_CRITICAL).
TakesUnknownBlock ==
    /\ trace # <<>> /\ trace' = Tail(trace)
    /\ Head(trace).event_type # "ALLOCATED"
    /\ Head(trace).object_id \notin live_blocks

=============================================================================
