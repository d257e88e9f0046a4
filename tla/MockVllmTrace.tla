---------------------------- MODULE MockVllmTrace ----------------------------
(***************************************************************************)
(* generate_mock_vllm_trace: the driver that stands in for a serving       *)
(* engine.  It schedules and fills every request, decodes round robin, ages *)
(* old blocks, commits and touches some, and finishes all requests.        *)
(***************************************************************************)
EXTENDS VllmAdapter

CONSTANTS
    block_counts,        \* blocks of each request (18, 36 or 44 in the code)
    mock_decode_steps,   \* decode_steps of the code
    CommitPeriod,        \* the 7 of decode_step % 7
    AccessPeriod         \* the 11 of decode_step % 11

ASSUME MockAssumption ==
    /\ IsFiniteSet(Requests) /\ Requests = 0 .. Cardinality(Requests) - 1 /\ Requests # {}
    /\ block_counts \in [Requests -> Nat \ (0 .. 2)]
    /\ \A r \in Requests : 0 .. block_counts[r] - 1 \subseteq BlockIds

VARIABLES
    stage,    \* where the driver is
    req,      \* the request that it schedules or finishes
    n         \* block_id while it allocates, decode_step afterwards

driver == <<stage, req, n>>

MockInit == AdapterInit /\ stage = "schedule" /\ req = 0 /\ n = 0

IdsUpTo(count) == [k \in 1 .. count |-> k - 1]

LastRequest == req = Cardinality(Requests) - 1

ScheduleRequest ==
    /\ stage = "schedule"
    /\ on_request_scheduled(req)
    /\ stage' = "allocate" /\ n' = 0 /\ UNCHANGED req

\* A draft block differs in is_draft only: PREFILL makes it WARM all the same.
AllocateBlock ==
    /\ stage = "allocate"
    /\ \E is_draft \in BOOLEAN : on_block_allocated(<<req, n>>, "PREFILL", is_draft, DefaultSize)
    /\ stage' = IF n + 1 = block_counts[req] THEN "prefill" ELSE "allocate"
    /\ n' = n + 1 /\ UNCHANGED req

Prefill ==
    /\ stage = "prefill"
    /\ on_prefill_step(req, IdsUpTo(Min({3, block_counts[req]})))
    /\ n' = 0
    /\ stage' = IF LastRequest THEN "decode" ELSE "schedule"
    /\ req' = IF LastRequest THEN 0 ELSE req + 1

DecodeRequest == n % Cardinality(Requests)

\* The last two blocks.
Decode ==
    /\ stage = "decode" /\ n < mock_decode_steps
    /\ on_decode_step(DecodeRequest, <<block_counts[DecodeRequest] - 2,
                                       block_counts[DecodeRequest] - 1>>)
    /\ stage' = "cold" /\ UNCHANGED <<req, n>>

\* Mutant: the block that ages may belong to the decode tail.
cold_id_anywhere(r) == n % block_counts[r]

cold_id(r) == n % Max({1, block_counts[r] - 2})

MarkCold ==
    /\ stage = "cold"
    /\ on_block_marked_cold(<<DecodeRequest, cold_id(DecodeRequest)>>)
    /\ stage' = "commit" /\ UNCHANGED <<req, n>>

CommitBlock ==
    /\ stage = "commit"
    /\ \/ n % CommitPeriod = 0 /\ on_block_committed(<<(n + 1) % Cardinality(Requests), 1>>)
       \/ n % CommitPeriod # 0 /\ Quiescent /\ UNCHANGED allVars
    /\ stage' = "access" /\ UNCHANGED <<req, n>>

\* rng picks the request and the block.
AccessBlock ==
    /\ stage = "access"
    /\ \/ /\ n % AccessPeriod = 0
          /\ \E r \in Requests : \E b \in 0 .. block_counts[r] - 1 :
                on_block_accessed(<<r, b>>, "PREFILL", FALSE)
       \/ n % AccessPeriod # 0 /\ Quiescent /\ UNCHANGED allVars
    /\ stage' = "decode" /\ n' = n + 1 /\ UNCHANGED req

FinishRequest ==
    /\ \/ stage = "decode" /\ n = mock_decode_steps
       \/ stage = "finish"
    /\ on_request_finished(req, IdsUpTo(block_counts[req]))
    /\ stage' = IF LastRequest THEN "done" ELSE "finish"
    /\ req' = IF LastRequest THEN req ELSE req + 1
    /\ UNCHANGED n

Drive ==
    \/ ScheduleRequest
    \/ AllocateBlock
    \/ Prefill
    \/ Decode
    \/ MarkCold
    \/ CommitBlock
    \/ AccessBlock
    \/ FinishRequest

MockNext == Drive \/ (SimulateTrace /\ UNCHANGED driver)

-----------------------------------------------------------------------------
\* A block of the adapter's table loses its pin although it stays there.
Unpins(b) == Known(b) /\ blocks'[b] # NoIntent /\ blocks[b].pin_requested /\ ~ blocks'[b].pin_requested

\* The driver leaves nothing behind, in the adapter or in the simulator.
MockReleasesAll ==
    /\ live_blocks = {}
    /\ request_metadata = {}
    /\ \A b \in Blocks : ~ Known(b)

=============================================================================
