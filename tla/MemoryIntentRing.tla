-------------------------- MODULE MemoryIntentRing --------------------------
(***************************************************************************)
(* The shared-memory ring of the Memory Intent ABI                         *)
(* (src/abi/memory_intent_ring.c) between one producer and one consumer.   *)
(* head and tail are free-running uint64_t counters, here modulo Modulus.  *)
(*                                                                         *)
(* mi_ring_push reads tail, copies the entry into its slot and publishes   *)
(* head; mi_ring_pop reads head, copies the slot out and publishes tail.   *)
(* Each shared access is a step, and a struct copy is two steps, one half  *)
(* of the entry each, so that a copy can be caught in the middle.  head is *)
(* written by the producer only and tail by the consumer only, so each     *)
(* side's loads of its own counter can be taken together with the load of  *)
(* the other.  The atomics are sequentially consistent (plain atomic_load  *)
(* and atomic_store).  The argument checks (EINVAL, EPROTO) do not depend  *)
(* on the ring's state after mi_ring_init and are left out.                *)
(***************************************************************************)
EXTENDS Integers, Sequences

CONSTANTS
    Entries,    \* the entries that producers push
    Capacity,   \* MI_RING_CAPACITY, a power of two
    Modulus     \* 2^64: the range of head and tail

ASSUME RingAssumption ==
    /\ Capacity \in Nat \ {0}
    /\ Modulus \in Nat
    /\ Capacity < Modulus
    /\ Modulus % Capacity = 0

VARIABLES
    head, tail,          \* ring->head and ring->tail
    entries,             \* the slots, each the two halves of an entry
    push_pc, push_entry, \* producer: where it is and what it pushes
    pop_pc, out,         \* consumer: where it is and what it has copied
    delivered            \* the entry that the last successful pop returned

producer == <<push_pc, push_entry>>
consumer == <<pop_pc, out, delivered>>
ringVars == <<head, tail, entries, push_pc, push_entry, pop_pc, out, delivered>>

Slots == 0 .. Capacity - 1
Halves == 1 .. 2
Whole(e) == [h \in Halves |-> e]

SlotWithShortMask(position) == IF position % Capacity = 0 THEN 0
                               ELSE (position % Capacity) - 1    \* mutant

\* position & (capacity - 1), for a capacity that is a power of two
Slot(position) == position % Capacity

\* uint64_t arithmetic
IncrementCounter(position) == (position + 1) % Modulus
Distance(a, b) == (a - b) % Modulus

Count == Distance(head, tail)

\* mi_ring_init on a calloc'ed ring; the contents of a slot before its first
\* write are never read.
RingInit ==
    /\ head = 0
    /\ tail = 0
    /\ entries \in {[s \in Slots |-> Whole(e)] : e \in Entries}
    /\ push_pc = "idle"
    /\ push_entry \in Entries
    /\ pop_pc = "idle"
    /\ out = Whole(push_entry)
    /\ delivered = <<>>

-----------------------------------------------------------------------------
FullOneLate == Count > Capacity    \* mutant

mi_ring_full == Count >= Capacity

mi_ring_empty == head = tail

\* mi_ring_push: the full check.  A full ring is refused with ENOSPC.
PushBegin(e) ==
    /\ push_pc = "idle"
    /\ ~ mi_ring_full
    /\ push_pc' = "write1"
    /\ push_entry' = e
    /\ UNCHANGED <<head, tail, entries, consumer>>

\* The slot copy.
PushWrite(half) ==
    /\ push_pc = IF half = 1 THEN "write1" ELSE "write2"
    /\ entries' = [entries EXCEPT ![Slot(head)][half] = push_entry]
    /\ push_pc' = IF half = 1 THEN "write2" ELSE "publish"
    /\ UNCHANGED <<head, tail, push_entry, consumer>>

PushPublish ==
    /\ push_pc = "publish"
    /\ head' = IncrementCounter(head)
    /\ push_pc' = "idle"
    /\ UNCHANGED <<tail, entries, push_entry, consumer>>

\* Mutant: the check for an empty ring is missing.
PopBeginUnchecked ==
    /\ pop_pc = "idle"
    /\ pop_pc' = "read1"
    /\ UNCHANGED <<head, tail, entries, producer, out, delivered>>

\* mi_ring_pop: the empty check.  An empty ring is refused with ENODATA.
PopBegin ==
    /\ pop_pc = "idle"
    /\ ~ mi_ring_empty
    /\ pop_pc' = "read1"
    /\ UNCHANGED <<head, tail, entries, producer, out, delivered>>

PopRead(half) ==
    /\ pop_pc = IF half = 1 THEN "read1" ELSE "read2"
    /\ out' = [out EXCEPT ![half] = entries[Slot(tail)][half]]
    /\ pop_pc' = IF half = 1 THEN "read2" ELSE "retire"
    /\ UNCHANGED <<head, tail, entries, producer, delivered>>

PopRetire ==
    /\ pop_pc = "retire"
    /\ tail' = IncrementCounter(tail)
    /\ delivered' = out
    /\ pop_pc' = "idle"
    /\ UNCHANGED <<head, entries, producer, out>>

Push == PushPublish \/ (\E e \in Entries : PushBegin(e)) \/ (\E h \in Halves : PushWrite(h))
Pop == PopBegin \/ PopRetire \/ (\E h \in Halves : PopRead(h))

RingNext == Push \/ Pop

RingSpec == RingInit /\ [][RingNext]_ringVars

-----------------------------------------------------------------------------
(***************************************************************************)
(* Properties                                                              *)
(***************************************************************************)
\* Every variable has its type; the counters never leave 64 bits.
RingTypeOK ==
    /\ head \in 0 .. Modulus - 1
    /\ tail \in 0 .. Modulus - 1
    /\ entries \in [Slots -> [Halves -> Entries]]
    /\ push_pc \in {"idle", "write1", "write2", "publish"}
    /\ push_entry \in Entries
    /\ pop_pc \in {"idle", "read1", "read2", "retire"}
    /\ out \in [Halves -> Entries]
    /\ delivered \in {<<>>} \cup [Halves -> Entries]

\* The ring never holds more than its capacity, whether or not the counters have
\* wrapped between the producer's check and its publication.
WithinCapacity == Count <= Capacity

\* The producer and the consumer never copy to and from the same slot at the
\* same time: the entry copies are plain memory accesses, and a conflict would
\* be a data race and a torn entry.
NoSlotRace ==
    push_pc \in {"write1", "write2"} /\ pop_pc \in {"read1", "read2"} =>
        Slot(head) # Slot(tail)

\* The entries published and not yet retired, oldest first.
Contents == [k \in 1 .. Count |-> entries[Slot((tail + k - 1) % Modulus)]]

Queue == INSTANCE BoundedQueue
            WITH Values <- {Whole(e) : e \in Entries}, queue <- Contents

\* The ring implements the bounded queue: entries come out whole, once, in the
\* order they were pushed, across any wraparound.
ImplementsQueue == Queue!QueueSpec

=============================================================================
