----------------------------- MODULE VllmAdapter -----------------------------
(***************************************************************************)
(* VLLMIntentAdapter and KVIntentPlugin: the serving engine's callbacks,   *)
(* the adapter's table of blocks and requests, and the events that it      *)
(* records, replayed by the simulator of TraceReplay.                      *)
(*                                                                         *)
(* The engine is the environment: it may repeat a callback, leave one out, *)
(* or make it late, after the request has finished.  A callback is one     *)
(* action; the next one comes when the simulator has taken its events.     *)
(*                                                                         *)
(* Abstracted data: deadlines, slack, request priorities, recency and cost *)
(* fields, which only feed the eviction score; of a request's metadata only *)
(* its presence is kept.                                                   *)
(***************************************************************************)
EXTENDS TraceReplay

CONSTANTS
    BlockIds,
    BlockLists,             \* the lists of block ids that the engine passes
    Sizes,                  \* size_bytes, the default size among them
    DefaultSize,            \* default_block_size_bytes
    default_allowed_tiers

\* _object_id: request and block id in one string.
ASSUME BlocksAssumption == Requests \X BlockIds \subseteq Blocks
ASSUME ListsAssumption == BlockLists \subseteq Seq(BlockIds)
ASSUME SizesAssumption == Sizes \subseteq Nat \ {0} /\ DefaultSize \in Sizes
\* emit_sequence_spill copies a block with current_tier DRAM, which raises for
\* an adapter that does not allow DRAM; the default is {HBM, DRAM}.
ASSUME TiersAssumption ==
    default_allowed_tiers \subseteq Tier /\ {"HBM", "DRAM"} \subseteq default_allowed_tiers
\* The events carry whatever intent the adapter can make.
ASSUME AdapterIntentsAssumption ==
    Intents = {i \in [phase : Phase, priority : Priority, pin_requested : BOOLEAN,
                      allowed_tiers : {default_allowed_tiers},
                      current_tier : {"HBM", "DRAM"}, size_bytes : Sizes] : Accepted(i)}

VARIABLES
    blocks,             \* the adapter's table (NoIntent for a key that is absent)
    request_metadata    \* the keys of request_metadata

adapter == <<blocks, request_metadata>>
allVars == <<vars, trace, adapter>>

TablesEmpty ==
    /\ blocks = [b \in Blocks |-> NoIntent]
    /\ request_metadata = {}

AdapterInit == Init /\ trace = <<>> /\ TablesEmpty

Known(b) == blocks[b] # NoIntent

-----------------------------------------------------------------------------
(***************************************************************************)
(* Building intents                                                        *)
(***************************************************************************)
make_intent(phase, priority, pin, size) ==
    [phase |-> phase, priority |-> priority, pin_requested |-> pin,
     allowed_tiers |-> default_allowed_tiers, current_tier |-> "HBM",
     size_bytes |-> size]

\* Mutant: a known block gets the default size.
get_or_create_default_size(b, phase, priority, decode_critical) ==
    make_intent(phase, IF decode_critical THEN "DECODE_CRITICAL" ELSE priority,
                decode_critical, DefaultSize)

\* A known block keeps its size, its tier and, once it has one, its pin; an
\* unknown one is made up on the spot, with no ALLOCATED event.
get_or_create(b, phase, priority, decode_critical) ==
    LET p == IF decode_critical THEN "DECODE_CRITICAL" ELSE priority
    IN  IF Known(b)
        THEN [blocks[b] EXCEPT !.phase = phase, !.priority = p,
                               !.pin_requested = decode_critical \/ @]
        ELSE make_intent(phase, p, decode_critical, DefaultSize)

\* _request_defaults, which _make_intent calls for a block that is unknown.
DefaultedRequests(bs) ==
    request_metadata \cup {b[1] : b \in {c \in bs : ~ Known(c)}}

AccessedIntentOf(b, phase, decode_critical) ==
    get_or_create(b, phase, IF phase = "DECODE" THEN "HOT" ELSE "WARM", decode_critical)

PrefillIntent(b) ==
    [get_or_create(b, "PREFILL", "WARM", FALSE) EXCEPT !.pin_requested = FALSE]

\* block.phase is VERIFY after _get_or_create_block, never DECODE: always WARM.
CommittedIntent(b) == get_or_create(b, "VERIFY", "WARM", FALSE)

ColdIntent(b, phase) ==
    [get_or_create(b, phase, "COLD", FALSE) EXCEPT !.pin_requested = FALSE]

\* Mutant: the pin of a freed block is kept.
FreedIntentPinned(b) ==
    [get_or_create(b, "DONE", "COLD", FALSE) EXCEPT !.current_tier = "DRAM"]

\* Freed blocks are said to be in DRAM, which every adapter here allows.
FreedIntent(b) == [ColdIntent(b, "DONE") EXCEPT !.current_tier = "DRAM"]

-----------------------------------------------------------------------------
(***************************************************************************)
(* Callbacks                                                               *)
(***************************************************************************)
\* _record for the events es, which leave the table with the given intents.
Record(intents, es) ==
    /\ trace' = es
    /\ blocks' = [b \in Blocks |-> IF b \in DOMAIN intents THEN intents[b] ELSE blocks[b]]
    /\ UNCHANGED vars

RecordOne(type, b, i) ==
    /\ Record([c \in {b} |-> i], <<Ev(type, b, i)>>)
    /\ request_metadata' = DefaultedRequests({b})

ListedBlocks(r, ids) == {<<r, ids[k]>> : k \in DOMAIN ids}

\* What the adapter knows about a request survives, block deadlines included.
on_request_scheduled(r) ==
    /\ Quiescent
    /\ request_metadata' = request_metadata \cup {r}
    /\ UNCHANGED <<vars, trace, blocks>>

\* A fresh intent, even for a block that is known.
on_block_allocated(b, phase, is_draft, size) ==
    /\ Quiescent
    /\ LET priority == IF phase = "PREFILL" THEN "WARM"
                       ELSE IF is_draft THEN "COLD" ELSE "HOT"
           i == make_intent(phase, priority, FALSE, size)
       IN  Record([c \in {b} |-> i], <<Ev("ALLOCATED", b, i)>>)
    /\ request_metadata' = request_metadata \cup {b[1]}

on_block_accessed(b, phase, decode_critical) ==
    /\ Quiescent
    /\ RecordOne("ACCESSED", b, AccessedIntentOf(b, phase, decode_critical))

DecodeEvents(r, ids) ==
    [k \in 1 .. 2 * Len(ids) |->
       LET b == <<r, ids[(k + 1) \div 2]>>
       IN  Ev(IF k % 2 = 1 THEN "MARKED_DECODE_CRITICAL" ELSE "ACCESSED",
              b, AccessedIntentOf(b, "DECODE", TRUE))]

on_decode_step(r, ids) ==
    /\ Quiescent
    /\ Record([b \in ListedBlocks(r, ids) |-> AccessedIntentOf(b, "DECODE", TRUE)],
              DecodeEvents(r, ids))
    /\ request_metadata' = request_metadata \cup {r}

PrefillEvents(r, ids) ==
    [k \in 1 .. Len(ids) |-> Ev("ACCESSED", <<r, ids[k]>>, PrefillIntent(<<r, ids[k]>>))]

on_prefill_step(r, ids) ==
    /\ Quiescent
    /\ Record([b \in ListedBlocks(r, ids) |-> PrefillIntent(b)], PrefillEvents(r, ids))
    /\ request_metadata' = DefaultedRequests(ListedBlocks(r, ids))

on_block_committed(b) ==
    /\ Quiescent
    /\ RecordOne("COMMITTED", b, CommittedIntent(b))

on_block_marked_cold(b) ==
    /\ Quiescent
    /\ RecordOne("MARKED_COLD", b, ColdIntent(b, "IDLE"))

\* Mutant: the free is recorded only for a block in HBM.
on_block_freed_if_hbm(b) ==
    /\ Quiescent
    /\ IF Known(b) /\ blocks[b].current_tier = "DRAM"
       THEN /\ blocks' = [blocks EXCEPT ![b] = FreedIntent(b)]
            /\ UNCHANGED <<vars, trace, request_metadata>>
       ELSE RecordOne("FREED", b, FreedIntent(b))

\* The block stays in the table, in phase DONE.
on_block_freed(b) ==
    /\ Quiescent
    /\ RecordOne("FREED", b, FreedIntent(b))

FinishEvents(r, ids) ==
    [k \in 1 .. 2 * Len(ids) |->
       LET b == <<r, ids[(k + 1) \div 2]>>
       IN  IF k % 2 = 1 THEN Ev("MARKED_COLD", b, ColdIntent(b, "DONE"))
                        ELSE Ev("FREED", b, FreedIntent(b))]

\* The listed blocks leave the table, and the request its metadata: blocks
\* that are not listed stay behind.
on_request_finished(r, ids) ==
    /\ Quiescent
    /\ Record([b \in ListedBlocks(r, ids) |-> NoIntent], FinishEvents(r, ids))
    /\ request_metadata' = request_metadata \ {r}

\* A preempted sequence: blocks that are unknown are skipped, so at holds the
\* positions of the others, in the order of the list.
emit_sequence_spill(r, ids) ==
    LET SpilledIntent(b) == [blocks[b] EXCEPT !.current_tier = "DRAM"]
        known == {k \in DOMAIN ids : Known(<<r, ids[k]>>)}
    IN  /\ Quiescent
        /\ \E at \in [1 .. Cardinality(known) -> known] :
              /\ \A j, k \in DOMAIN at : j < k => at[j] < at[k]
              /\ Record([b \in {<<r, ids[k]>> : k \in known} |-> SpilledIntent(b)],
                        [j \in DOMAIN at |-> Ev("SPILLED", <<r, ids[at[j]]>>,
                                                SpilledIntent(<<r, ids[at[j]]>>))])
        /\ UNCHANGED request_metadata

\* A prefill step of a request that is unknown schedules it first.
emit_sequence_accesses(r, ids) ==
    /\ Quiescent
    /\ Record([b \in ListedBlocks(r, ids) |-> PrefillIntent(b)], PrefillEvents(r, ids))
    /\ request_metadata' = request_metadata \cup {r}

\* KVIntentPlugin.on_scheduler_step for a decoding sequence: the decode step's
\* events and, after them, the last four once more as decode-critical marks.
on_scheduler_step(r, ids) ==
    LET es == DecodeEvents(r, ids)
        tail == SubSeq(es, IF Len(es) > 4 THEN Len(es) - 3 ELSE 1, Len(es))
    IN  /\ Quiescent
        /\ Record([b \in ListedBlocks(r, ids) |-> AccessedIntentOf(b, "DECODE", TRUE)],
                  es \o [k \in 1 .. Len(tail) |->
                           Ev("MARKED_DECODE_CRITICAL", tail[k].object_id, tail[k].intent)])
        /\ request_metadata' = request_metadata \cup {r}

-----------------------------------------------------------------------------
BlockCallback ==
    \E b \in Requests \X BlockIds :
       \/ \E phase \in {"PREFILL", "DECODE"} :
             \/ \E is_draft \in BOOLEAN, size \in Sizes :
                   on_block_allocated(b, phase, is_draft, size)
             \/ \E critical \in BOOLEAN : on_block_accessed(b, phase, critical)
       \/ on_block_committed(b)
       \/ on_block_marked_cold(b)
       \/ on_block_freed(b)

RequestCallback ==
    \E r \in Requests :
       \/ on_request_scheduled(r)
       \/ \E ids \in BlockLists :
             \/ on_decode_step(r, ids)
             \/ on_prefill_step(r, ids)
             \/ on_request_finished(r, ids)

\* The plugin's three hooks; the file gets exactly the events they return.
PluginCallback ==
    \E r \in Requests, ids \in BlockLists :
       \/ emit_sequence_accesses(r, ids)
       \/ on_scheduler_step(r, ids)
       \/ emit_sequence_spill(r, ids)
       \/ on_request_finished(r, ids)

SimulateTrace == Simulate /\ UNCHANGED adapter

AdapterNext ==
    \/ BlockCallback
    \/ RequestCallback
    \/ PluginCallback
    \/ SimulateTrace

AdapterSpec == AdapterInit /\ [][AdapterNext]_allVars

-----------------------------------------------------------------------------
(***************************************************************************)
(* Properties                                                              *)
(***************************************************************************)
\* A block that the adapter has pinned is live and pinned in the simulator:
\* no order of callbacks makes the simulator forget a pin that the adapter
\* still holds, or evict the block for being unpinned.
\* Preemption, eviction and access leave every live block with the size that the
\* adapter recorded, also when it was allocated again or made up on access, so
\* that the capacity loop counts the bytes that the engine holds.
IntentsAgree ==
    Quiescent =>
        /\ \A b \in Blocks :
              Known(b) /\ blocks[b].pin_requested =>
                  b \in live_blocks /\ intent[b].pin_requested
        /\ \A b \in live_blocks : intent[b].size_bytes = blocks[b].size_bytes

\* Under the intent policies such a block is in HBM unless its sequence was
\* preempted, which the adapter records as tier DRAM: the access that comes with
\* each pin brings it in, and pressure from other sequences never takes it out.
PinnedIsResident ==
    Quiescent /\ Policy \in IntentPolicies => \A b \in Blocks :
        Known(b) /\ blocks[b].pin_requested /\ blocks[b].current_tier = "HBM" =>
            b \in hbm_blocks

\* A block whose last callback was on_block_freed is not live: a repeated free,
\* or a spill of the sequence that owned it, brings nothing back.
FreedStaysFreed ==
    Quiescent => \A b \in Blocks :
        Known(b) /\ blocks[b].phase = "DONE" => b \notin live_blocks

\* DRAM goes over its capacity only by the preemption of a sequence (SPILLED has
\* no capacity check) or by allocating again, with another size, a block that
\* still sits there: no access and no eviction does it.
DramOverflowIsPreemption ==
    [][dram_used' > DramCapacity /\ dram_used' > dram_used =>
         /\ trace # <<>>
         /\ \/ Head(trace).event_type = "SPILLED"
            \/ /\ Head(trace).event_type = "ALLOCATED"
               /\ Head(trace).object_id \in dram_blocks]_allVars

=============================================================================
