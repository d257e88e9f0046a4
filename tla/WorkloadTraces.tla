--------------------------- MODULE WorkloadTraces ---------------------------
(***************************************************************************)
(* The producers that write a whole trace at once: the importer of request *)
(* traces, the OpenAI proxy log adapter, the Prometheus adapter and the    *)
(* synthetic workload generator.  Each is an operator from its input to a  *)
(* sequence of events; the input is chosen in the initial state and the    *)
(* simulator of TraceReplay replays the result.  MCTraceProducers has the  *)
(* behaviours.                                                             *)
(*                                                                         *)
(* Abstracted data: deadlines, slack, recency, costs and request           *)
(* priorities.  Sizes, block counts and the order of events are exact.     *)
(***************************************************************************)
EXTENDS TraceReplay

CONSTANTS
    MaxBlocks,                \* bound: blocks of a request
    Tokens,                   \* token counts that a request may have
    kv_bytes_per_token,
    block_size_bytes,
    decode_block_tokens,
    max_blocks_per_request,   \* 0 for None
    logical_block_tokens,     \* of the proxy log adapter
    decode_steps,             \* of the synthetic workload
    PrefetchPeriod,           \* the 5 of decode_step % 5
    max_memory_bytes,         \* of the telemetry adapter
    Samples                   \* bound: telemetry samples of one trace

ASSUME RequestsAssumption ==
    /\ IsFiniteSet(Requests) /\ Requests = 0 .. Cardinality(Requests) - 1
    /\ Requests \X (0 .. MaxBlocks - 1) \subseteq Blocks
\* The ValueErrors of request_trace_to_intent_events and of RequestTraceRecord.
ASSUME ImporterAssumption ==
    /\ {kv_bytes_per_token, block_size_bytes, decode_block_tokens, logical_block_tokens}
          \subseteq Nat \ {0}
    /\ max_blocks_per_request \in Nat
    /\ Tokens \subseteq Nat
ASSUME SyntheticAssumption ==
    decode_steps \in Nat /\ PrefetchPeriod \in Nat \ {0} /\ max_memory_bytes \in Nat

VARIABLE input    \* what the trace was made from

ceil(a, b) == (a + b - 1) \div b

\* The intents of all producers allow HBM and DRAM.
make(phase, priority, tier, size) ==
    [phase |-> phase, priority |-> priority,
     pin_requested |-> priority = "DECODE_CRITICAL",
     allowed_tiers |-> {"HBM", "DRAM"}, current_tier |-> tier, size_bytes |-> size]

\* One event per block id from first to last, in ascending order.
PerBlock(first, last, Event_(_)) ==
    [k \in 1 .. last - first + 1 |-> Event_(first + k - 1)]

\* MARKED_DECODE_CRITICAL and ACCESSED for each block from first to last.
CriticalPairs(r, first, last, size) ==
    LET i == make("DECODE", "DECODE_CRITICAL", "HBM", size)
    IN  FlattenSeq(PerBlock(first, last, LAMBDA n :
            <<Ev("MARKED_DECODE_CRITICAL", <<r, n>>, i), Ev("ACCESSED", <<r, n>>, i)>>))

-----------------------------------------------------------------------------
(***************************************************************************)
(* trace_importer.py                                                       *)
(***************************************************************************)
Records ==
    [request_id : Requests, prompt_tokens : Tokens, generated_tokens : Tokens,
     status : {"completed", "failed"}]

estimate_request_kv_bytes(rec) ==
    kv_bytes_per_token * (rec.prompt_tokens + rec.generated_tokens)

RequestedBlocks(rec) ==
    Max({1, ceil(estimate_request_kv_bytes(rec), block_size_bytes)})

IsCapped(rec) ==
    max_blocks_per_request # 0 /\ RequestedBlocks(rec) > max_blocks_per_request

num_blocks(rec) == IF IsCapped(rec) THEN max_blocks_per_request ELSE RequestedBlocks(rec)

\* Mutant: the capped block size rounds down.
logical_block_size_floor(rec) ==
    IF IsCapped(rec) THEN estimate_request_kv_bytes(rec) \div num_blocks(rec)
    ELSE block_size_bytes

logical_block_size(rec) ==
    IF IsCapped(rec) THEN ceil(estimate_request_kv_bytes(rec), num_blocks(rec))
    ELSE block_size_bytes

decode_hot_blocks(rec) ==
    Min({Max({1, ceil(Max({rec.generated_tokens, 1}), decode_block_tokens)}),
         num_blocks(rec)})

\* The hot tail starts here; older blocks are WARM in the younger half.
TailStart(rec) == num_blocks(rec) - decode_hot_blocks(rec)

AllocationPriority(rec, n) ==
    IF n >= TailStart(rec) THEN "HOT"
    ELSE IF 2 * n > Max({num_blocks(rec) - 1, 1}) THEN "WARM" ELSE "COLD"

ImportAllocations(rec) ==
    PerBlock(0, num_blocks(rec) - 1, LAMBDA n :
        Ev("ALLOCATED", <<rec.request_id, n>>,
           make("PREFILL", AllocationPriority(rec, n), "HBM", logical_block_size(rec))))

ImportHotTail(rec) ==
    CriticalPairs(rec.request_id, TailStart(rec), num_blocks(rec) - 1,
                  logical_block_size(rec))

ImportCold(rec) ==
    PerBlock(0, TailStart(rec) - 1, LAMBDA n :
        Ev("MARKED_COLD", <<rec.request_id, n>>,
           make("IDLE", "COLD", "HBM", logical_block_size(rec))))

\* Mutant: the range of the frees is one too long.
FreeAllOneMore(r, count, size) ==
    PerBlock(0, count, LAMBDA n : Ev("FREED", <<r, n>>, make("DONE", "COLD", "DRAM", size)))

FreeAll(r, count, size) ==
    PerBlock(0, count - 1, LAMBDA n : Ev("FREED", <<r, n>>, make("DONE", "COLD", "DRAM", size)))

\* Mutant: the hot tail of a completed request is never freed.
ImportFreesColdOnly(rec) ==
    IF rec.status = "completed"
    THEN FreeAll(rec.request_id, TailStart(rec), logical_block_size(rec)) ELSE <<>>

ImportFrees(rec) ==
    IF rec.status = "completed"
    THEN FreeAll(rec.request_id, num_blocks(rec), logical_block_size(rec)) ELSE <<>>

\* A failed request keeps its blocks: only completed ones are freed.
request_trace_to_intent_events(records) ==
    FlattenSeq([k \in DOMAIN records |->
        ImportAllocations(records[k]) \o ImportHotTail(records[k])
          \o ImportCold(records[k]) \o ImportFrees(records[k])])

\* Traces sorted by arrival, with one record per request.
ImporterInit ==
    /\ Init
    /\ input \in {s \in BoundedSeq(Records, Cardinality(Requests)) :
                    IsInjective([k \in DOMAIN s |-> s[k].request_id])}
    /\ trace = request_trace_to_intent_events(input)

-----------------------------------------------------------------------------
(***************************************************************************)
(* openai_proxy_adapter.py: one entry per completed request                *)
(***************************************************************************)
ProxyEntries == [request_id : Requests, prompt_tokens : Tokens]

ProxyBlocks(entry) == Max({1, ceil(entry.prompt_tokens, logical_block_tokens)})

ProxyBlockSize == kv_bytes_per_token * logical_block_tokens

ProxyAllocations(entry) ==
    PerBlock(0, ProxyBlocks(entry) - 1, LAMBDA n :
        Ev("ALLOCATED", <<entry.request_id, n>>, make("PREFILL", "WARM", "HBM", ProxyBlockSize)))

\* The last two blocks, without an access.
ProxyMarks(entry) ==
    PerBlock(Max({0, ProxyBlocks(entry) - 2}), ProxyBlocks(entry) - 1, LAMBDA n :
        Ev("MARKED_DECODE_CRITICAL", <<entry.request_id, n>>,
           make("DECODE", "DECODE_CRITICAL", "HBM", ProxyBlockSize)))

ProxyFrees(entry) == FreeAll(entry.request_id, ProxyBlocks(entry), ProxyBlockSize)

openai_proxy_logs_to_intent_events(entries) ==
    FlattenSeq([k \in DOMAIN entries |->
        ProxyAllocations(entries[k]) \o ProxyMarks(entries[k]) \o ProxyFrees(entries[k])])

\* Ids may repeat: an entry without one is numbered by its position.
ProxyInit ==
    /\ Init
    /\ input \in BoundedSeq(ProxyEntries, Cardinality(Requests))
    /\ trace = openai_proxy_logs_to_intent_events(input)

-----------------------------------------------------------------------------
(***************************************************************************)
(* prometheus_adapter.py: one monitor block, never allocated               *)
(***************************************************************************)
Monitor == <<0, 0>>

\* high_pressure: more than 85% of the memory is used.
HighPressure(bytes) == 100 * bytes > 85 * max_memory_bytes

MonitorEvent(bytes) ==
    IF HighPressure(bytes)
    THEN Ev("MARKED_DECODE_CRITICAL", Monitor,
            make("DECODE", "DECODE_CRITICAL", "HBM", Max({bytes, 1})))
    ELSE Ev("MARKED_COLD", Monitor, make("IDLE", "COLD", "HBM", Max({bytes, 1})))

\* A sample, sorted by time, is the number of bytes in use.
prometheus_samples_to_intent_events(samples) ==
    [k \in DOMAIN samples |-> MonitorEvent(samples[k])]

PrometheusInit ==
    /\ Init
    /\ input \in BoundedSeq(0 .. max_memory_bytes + 1, Samples)
    /\ trace = prometheus_samples_to_intent_events(input)

-----------------------------------------------------------------------------
(***************************************************************************)
(* simulator.py: generate_synthetic_kv_workload.  The profile decides the  *)
(* number of blocks, the length of the hot tail, and whether a request has *)
(* high priority; each request may combine them in any way.                *)
(***************************************************************************)
SyntheticRequests ==
    {req \in [block_count : 1 .. MaxBlocks, hot_span : {2, 3}, is_high : BOOLEAN] :
       req.is_high => req.hot_span = 3}

\* block_ids[:-hot_span]: empty for a request shorter than its tail.
ColdCount(req) == Max({0, req.block_count - req.hot_span})

SyntheticAllocations(reqs) ==
    FlattenSeq([r \in DOMAIN reqs |->
        PerBlock(0, reqs[r].block_count - 1, LAMBDA n :
            Ev("ALLOCATED", <<r - 1, n>>,
               make("PREFILL", IF n >= ColdCount(reqs[r]) THEN "HOT" ELSE "WARM", "HBM",
                    block_size_bytes)))])

\* Mutant: the stale block is taken from the whole request.
StaleIdAnywhere(req, step) == step % req.block_count

StaleId(req, step) == step % ColdCount(req)

\* The hot tail, then one old block marked cold and, in some steps, committed
\* (drafts of the speculative profile) and prefetched again.
DecodeStepEvents(reqs, step, is_draft) ==
    LET r == step % Len(reqs)
        req == reqs[r + 1]
        stale == <<r, StaleId(req, step)>>
        cold == make(IF step % 7 = 0 THEN "DONE" ELSE "VERIFY", "COLD", "HBM",
                     block_size_bytes)
    IN  CriticalPairs(r, ColdCount(req), req.block_count - 1, block_size_bytes)
          \o IF ColdCount(req) = 0 THEN <<>>
             ELSE <<Ev("MARKED_COLD", stale, cold)>>
                    \o (IF is_draft /\ step % PrefetchPeriod = 0
                        THEN <<Ev("COMMITTED", stale, cold)>> ELSE <<>>)
                    \o (IF step % PrefetchPeriod = 0
                        THEN <<Ev("PREFETCHED", stale,
                                  [cold EXCEPT !.current_tier = "DRAM",
                                               !.priority = IF req.is_high THEN "HOT" ELSE "WARM"])>>
                        ELSE <<>>)

generate_synthetic_kv_workload(reqs, speculative) ==
    SyntheticAllocations(reqs)
      \o FlattenSeq([s \in 1 .. decode_steps |->
            DecodeStepEvents(reqs, s - 1, speculative /\ (s - 1) % 2 = 0)])

SyntheticInit ==
    /\ Init
    /\ \E speculative \in BOOLEAN :
          /\ input \in TupleOf(SyntheticRequests, Cardinality(Requests))
          /\ trace = generate_synthetic_kv_workload(input, speculative)

-----------------------------------------------------------------------------
\* MaxBlocks bounds what the inputs ask for, and the events carry the intents that
\* the simulator knows.
ASSUME BlockBoundAssumption ==
    /\ MaxBlocks \in Nat
    /\ \A rec \in Records : num_blocks(rec) <= MaxBlocks
    /\ \A entry \in ProxyEntries : ProxyBlocks(entry) <= MaxBlocks
    /\ Monitor \in Blocks

WorkloadSizes ==
    {logical_block_size(rec) : rec \in Records} \cup {ProxyBlockSize, block_size_bytes}
      \cup (1 .. max_memory_bytes + 1)

ASSUME WorkloadIntentsAssumption ==
    \A phase \in Phase, priority \in Priority, tier \in {"HBM", "DRAM"}, size \in WorkloadSizes :
       make(phase, priority, tier, size) \in Intents

WorkloadNext == Simulate /\ UNCHANGED input

-----------------------------------------------------------------------------
(***************************************************************************)
(* Properties                                                              *)
(***************************************************************************)
\* The blocks of an imported request hold all its KV bytes, whether or not
\* max_blocks_per_request merges them, and waste less than a block, or than a
\* byte per block where they were merged.
RequestIsCovered(rec) ==
    LET held == num_blocks(rec) * logical_block_size(rec)
        bytes == estimate_request_kv_bytes(rec)
    IN  /\ held >= bytes
        /\ bytes > 0 => held - bytes < IF IsCapped(rec) THEN num_blocks(rec)
                                                   ELSE block_size_bytes

\* At the end of an imported trace the live blocks are those of the requests
\* that did not complete, and each of these still has its decode tail pinned.
OnlyUnfinishedStayLive ==
    LET unfinished == {rec \in Range(input) : rec.status # "completed"}
    IN  /\ live_blocks = UNION {{rec.request_id} \X (0 .. num_blocks(rec) - 1) :
                                  rec \in unfinished}
        /\ \A rec \in unfinished :
              \E n \in 0 .. num_blocks(rec) - 1 : intent[<<rec.request_id, n>>].pin_requested

\* The requests of a proxy log are all complete: nothing is left behind, also
\* when an id occurs twice.
ProxyLeavesNothing == live_blocks = {}

\* The monitor block is live once a sample showed high pressure, its priority
\* follows the last sample, and its size is that of the first high sample for
\* good: the marks copy no size, and it never enters a tier.
MonitorFollowsSamples ==
    LET high == {k \in DOMAIN input : HighPressure(input[k])}
    IN  /\ live_blocks = IF high = {} THEN {} ELSE {Monitor}
        /\ high # {} =>
              /\ intent[Monitor].priority =
                   IF HighPressure(Last(input)) THEN "DECODE_CRITICAL" ELSE "COLD"
              /\ intent[Monitor].size_bytes = input[Min(high)]
        /\ hbm_blocks \cup dram_blocks = {}

\* The synthetic workload frees nothing.
SyntheticKeepsAll ==
    live_blocks = UNION {{r - 1} \X (0 .. input[r].block_count - 1) : r \in DOMAIN input}

=============================================================================
