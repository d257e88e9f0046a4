------------------------- MODULE SimulatorAccounting -------------------------
(***************************************************************************)
(* The statistics of KVMemorySimulator, added to the placement machine of  *)
(* TierSimulator: every step takes the placement action together with what *)
(* the same lines of simulator.py do to the counters and to the latency.   *)
(* These are the numbers that SimulationResult reports.                    *)
(***************************************************************************)
EXTENDS TierSimulator

CONSTANTS
    base_step_latency_us, miss_penalty_us, spill_latency_us, prefetch_latency_us,
    MaxEvents      \* bound: the length of the trace

ASSUME LatencyAssumption ==
    {base_step_latency_us, miss_penalty_us, spill_latency_us,
     prefetch_latency_us, MaxEvents} \subseteq Nat

VARIABLES
    stats,          \* the counters, by name
    latency,        \* the local variable of run(): latency of the current event
    total_latency,  \* sum of latencies
    events          \* len(latencies)

accountingVars == <<stats, latency, total_latency, events>>
allVars == <<vars, accountingVars>>

Counters == {"spill_count", "prefetch_count", "miss_count", "eviction_count",
             "decode_critical_misses", "decode_critical_evictions",
             "peak_hbm_demand_bytes", "actual_peak_hbm_used_bytes",
             "capacity_exhaustion_events", "pinned_capacity_exhaustion_events"}

AccountingInit ==
    /\ Init
    /\ stats = [c \in Counters |-> 0]
    /\ latency = 0
    /\ total_latency = 0
    /\ events = 0

-----------------------------------------------------------------------------
Larger(a, b) == IF a > b THEN a ELSE b
One(condition) == IF condition THEN 1 ELSE 0

\* _record_usage on the counters s, after the step's other assignments.
record_usage(s) ==
    [s EXCEPT !.actual_peak_hbm_used_bytes =
        Larger(@, used_bytes((hbm_blocks \cap live_blocks)', intent'))]

\* The handler records usage itself unless it went through the capacity loop,
\* which records it on its way out.
RecordUnlessLoop(s) == IF pc' = "finish" THEN record_usage(s) ELSE s

\* An event adds these latencies to the base latency of its step.
Charge(added) == latency' = base_step_latency_us + added

AccountAllocated(b, i) ==
    LET demand == used_bytes(hbm_blocks \cap live_blocks', intent')
                  + IF i.current_tier = "HBM" THEN i.size_bytes ELSE 0
    IN  /\ Allocated(b, i)
        /\ stats' = RecordUnlessLoop(
              [stats EXCEPT !.peak_hbm_demand_bytes = Larger(@, demand)])
        /\ Charge(0)

AccountAccessed(b, i) ==
    LET miss == b \notin hbm_blocks
        counted == [stats EXCEPT
            !.miss_count = @ + One(miss),
            !.decode_critical_misses =
                @ + One(miss /\ is_decode_critical(AccessedIntent(b, i)))]
    IN  /\ Accessed(b, i)
        /\ stats' = IF pc' = "raised" THEN stats ELSE RecordUnlessLoop(counted)
        /\ Charge(IF miss THEN miss_penalty_us ELSE 0)

\* Mutant: the counter goes up although nothing was spilled.
AccountSpilledAlways(b) ==
    LET spilled == b \in live_blocks /\ "DRAM" \in intent[b].allowed_tiers
    IN  /\ Spilled(b)
        /\ stats' = [stats EXCEPT !.spill_count = @ + 1]
        /\ Charge(IF spilled THEN spill_latency_us ELSE 0)

AccountSpilled(b) ==
    LET spilled == b \in live_blocks /\ "DRAM" \in intent[b].allowed_tiers
    IN  /\ Spilled(b)
        /\ stats' = [stats EXCEPT !.spill_count = @ + One(spilled)]
        /\ Charge(IF spilled THEN spill_latency_us ELSE 0)

AccountPrefetched(b, i, urgent) ==
    LET moved == /\ b \in live_blocks \ hbm_blocks
                 /\ should_prefetch(i, urgent)
    IN  /\ Prefetched(b, i, urgent)
        /\ stats' = [stats EXCEPT !.prefetch_count = @ + One(moved)]
        /\ Charge(IF moved THEN prefetch_latency_us ELSE 0)

AccountEvicted(b) ==
    LET evicted == b \in live_blocks
    IN  /\ Evicted(b)
        /\ stats' = [stats EXCEPT
              !.eviction_count = @ + One(evicted),
              !.decode_critical_evictions =
                  @ + One(evicted /\ is_decode_critical(intent[b]))]
        /\ Charge(0)

\* The handlers without counters.
AccountUncounted(b) ==
    /\ \/ \E i \in Intents : MarkedDecodeCritical(b, i) \/ MarkedCold(b, i)
       \/ Committed(b)
       \/ Freed(b)
       \/ Miss
    /\ Charge(0)
    /\ UNCHANGED stats

\* One iteration of the loop.  A victim that goes to DRAM costs a spill.
AccountEvictOne ==
    /\ EvictOne
    /\ LET v == CHOOSE b \in hbm_blocks : b \notin hbm_blocks'
           spilled == v \in dram_blocks'
       IN  /\ stats' = [stats EXCEPT
                 !.eviction_count = @ + 1,
                 !.decode_critical_evictions = @ + One(is_decode_critical(intent[v])),
                 !.spill_count = @ + One(spilled)]
           /\ latency' = latency + IF spilled THEN spill_latency_us ELSE 0

\* Mutant: giving up is not counted as an exhaustion.
AccountExhaustedSilently == CapacityExhausted /\ stats' = record_usage(stats)
                            /\ UNCHANGED latency

AccountExhausted ==
    /\ CapacityExhausted
    /\ stats' = record_usage([stats EXCEPT
          !.capacity_exhaustion_events = @ + 1,
          !.pinned_capacity_exhaustion_events = @ + 1])
    /\ UNCHANGED latency

AccountEnsureDone ==
    /\ EnsureDone
    /\ stats' = record_usage(stats)
    /\ UNCHANGED latency

\* latencies.append(latency), unless the decay raised.
AccountFinish ==
    /\ Finish
    /\ IF pc' = "idle"
       THEN /\ total_latency' = total_latency + latency
            /\ events' = events + 1
       ELSE UNCHANGED <<total_latency, events>>
    /\ latency' = 0
    /\ UNCHANGED stats

AccountEvent ==
    /\ events < MaxEvents
    /\ \E b \in Blocks :
          \/ \E i \in Intents :
                \/ AccountAllocated(b, i)
                \/ AccountAccessed(b, i)
                \/ \E urgent \in BOOLEAN : AccountPrefetched(b, i, urgent)
          \/ AccountSpilled(b)
          \/ AccountEvicted(b)
          \/ AccountUncounted(b)
    /\ UNCHANGED <<total_latency, events>>

AccountLoop ==
    /\ AccountEvictOne \/ AccountExhausted \/ AccountEnsureDone
    /\ UNCHANGED <<total_latency, events>>

AccountingNext == AccountEvent \/ AccountLoop \/ AccountFinish

AccountingSpec == AccountingInit /\ [][AccountingNext]_allVars

-----------------------------------------------------------------------------
(***************************************************************************)
(* Properties                                                              *)
(***************************************************************************)
\* Between events the reported total latency is exactly what the counters
\* explain: every miss, spill and prefetch is charged once, on whichever of the
\* paths (handler or capacity loop) it happened.
LatencyExplained ==
    pc = "idle" =>
        total_latency = events * base_step_latency_us
                        + stats.miss_count * miss_penalty_us
                        + stats.spill_count * spill_latency_us
                        + stats.prefetch_count * prefetch_latency_us

\* The reported peak is never below what HBM holds between two events, although
\* SPILLED, EVICTED, FREED and PREFETCHED do not record usage.  And HBM is over
\* its capacity then, or the reported peak is, only after the simulator has
\* reported that pinned blocks exhausted it.
OverCapacityIsReported ==
    pc = "idle" =>
        /\ hbm_used <= stats.actual_peak_hbm_used_bytes
        /\ ~ Realloc /\ stats.actual_peak_hbm_used_bytes > HbmCapacity =>
              stats.pinned_capacity_exhaustion_events > 0

=============================================================================
