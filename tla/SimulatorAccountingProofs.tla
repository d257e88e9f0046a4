---------------------- MODULE SimulatorAccountingProofs ----------------------
(***************************************************************************)
(* Proofs about the numbers that the simulator reports, for any blocks,    *)
(* intents, capacities and latencies, and traces of any length.            *)
(***************************************************************************)
EXTENDS SimulatorAccounting, TierSimulatorProofs

-----------------------------------------------------------------------------
(***************************************************************************)
(* The statistics do not disturb the placement                             *)
(***************************************************************************)
\* Every step with its accounting is a step of the simulator.
LEMMA AccountingRefines ==
    ASSUME [AccountingNext]_allVars
    PROVE  [Next]_vars
<1>1. CASE AccountEvent
  BY <1>1 DEF AccountEvent, AccountAllocated, AccountAccessed, AccountPrefetched,
              AccountSpilled, AccountEvicted, AccountUncounted, Next, Event
<1>2. CASE AccountLoop \/ AccountFinish
  BY <1>2 DEF AccountLoop, AccountFinish, AccountEvictOne, AccountExhausted,
              AccountEnsureDone, Next, Loop
<1>3. CASE UNCHANGED allVars
  BY <1>3 DEF allVars
<1> QED
  BY <1>1, <1>2, <1>3 DEF AccountingNext

-----------------------------------------------------------------------------
(***************************************************************************)
(* Types                                                                   *)
(***************************************************************************)
CountersAreNat ==
    /\ stats \in [Counters -> Nat]
    /\ latency \in Nat /\ total_latency \in Nat /\ events \in Nat

\* _record_usage raises one counter, to the bytes in HBM, and no other.
LEMMA RecordUsage ==
    ASSUME NEW s \in [Counters -> Nat], hbm_used' \in Nat
    PROVE  /\ record_usage(s) \in [Counters -> Nat]
           /\ \A c \in Counters \ {"actual_peak_hbm_used_bytes"} : record_usage(s)[c] = s[c]
           /\ record_usage(s).actual_peak_hbm_used_bytes
                 = Larger(s.actual_peak_hbm_used_bytes, hbm_used')
<1>1. used_bytes((hbm_blocks \cap live_blocks)', intent') = hbm_used'
  BY DEF hbm_used
<1>2. Larger(s.actual_peak_hbm_used_bytes, hbm_used') \in Nat
  BY DEF Larger, Counters
<1> QED
  BY <1>1, <1>2 DEF record_usage, Counters

\* What counting twice in one statement does.
LEMMA TwoCounters ==
    ASSUME NEW s \in [Counters -> Nat], NEW n \in Nat, NEW m \in Nat,
           NEW c \in Counters, NEW d \in Counters, c # d, NEW t,
           t = [s EXCEPT ![c] = @ + n, ![d] = @ + m]
    PROVE  /\ t \in [Counters -> Nat] /\ t[c] = s[c] + n
           /\ \A e \in Counters \ {c, d} : t[e] = s[e]
<1> HIDE DEF Counters
<1>1. s[c] + n \in Nat /\ s[d] + m \in Nat
  OBVIOUS
<1> QED
  BY <1>1

\* The largest usage is one of the two.
LEMMA LargerOfTwo ==
    ASSUME NEW a \in Nat, NEW b \in Nat
    PROVE  Larger(a, b) \in Nat /\ a <= Larger(a, b) /\ b <= Larger(a, b)
           /\ Larger(a, b) \in {a, b}
BY DEF Larger

-----------------------------------------------------------------------------
(***************************************************************************)
(* What one step does to the counters                                      *)
(***************************************************************************)
\* A charge that is made, or is not.
Times(n, charge) == IF n = 1 THEN charge ELSE 0

\* The step counts m misses, s spills and p prefetches.
Counts(m, s, p) ==
    /\ stats' \in [Counters -> Nat]
    /\ stats'.miss_count = stats.miss_count + m
    /\ stats'.spill_count = stats.spill_count + s
    /\ stats'.prefetch_count = stats.prefetch_count + p

\* An event charges what it counts and leaves the counter of exhaustions alone.  It
\* records the usage, or goes into the loop, or cannot raise it.
EventEffect ==
    /\ pc = "idle" /\ pc' \in {"ensure", "finish", "raised"}
    /\ latency' \in Nat
    /\ \E m, s, p \in {0, 1} :
          /\ Counts(m, s, p)
          /\ pc' # "raised" =>
                latency' = base_step_latency_us + Times(m, miss_penalty_us)
                           + Times(s, spill_latency_us) + Times(p, prefetch_latency_us)
    /\ stats'.pinned_capacity_exhaustion_events = stats.pinned_capacity_exhaustion_events
    /\ \/ /\ stats'.actual_peak_hbm_used_bytes = stats.actual_peak_hbm_used_bytes
          /\ pc' = "finish" => FirstUseEvent
       \/ /\ pc' = "finish"
          /\ stats'.actual_peak_hbm_used_bytes
                = Larger(stats.actual_peak_hbm_used_bytes, hbm_used')

\* The handler records the usage when it does not go through the loop.
LEMMA RecordUnlessLoopFacts ==
    ASSUME NEW s \in [Counters -> Nat], hbm_used' \in Nat
    PROVE  /\ RecordUnlessLoop(s) \in [Counters -> Nat]
           /\ \A c \in Counters \ {"actual_peak_hbm_used_bytes"} : RecordUnlessLoop(s)[c] = s[c]
           /\ RecordUnlessLoop(s).actual_peak_hbm_used_bytes =
                 IF pc' = "finish" THEN Larger(s.actual_peak_hbm_used_bytes, hbm_used')
                                   ELSE s.actual_peak_hbm_used_bytes
BY RecordUsage DEF RecordUnlessLoop

\* ALLOCATED raises the peak demand, and nothing else that matters here.
LEMMA AllocatedEffect ==
    ASSUME Counted, CountersAreNat, Counted', NEW b \in Blocks, NEW i \in Intents,
           AccountAllocated(b, i)
    PROVE  EventEffect
<1> DEFINE demand == used_bytes(hbm_blocks \cap live_blocks', intent')
                     + IF i.current_tier = "HBM" THEN i.size_bytes ELSE 0
           s == [stats EXCEPT !.peak_hbm_demand_bytes = Larger(@, demand)]
<1>1. demand \in Nat
  <2>1. IsFiniteSet(live_blocks')
        /\ \A c \in live_blocks' : intent'[c].size_bytes \in Nat
    BY DEF Counted, Residency, TypeOK, MemoryIntent
  <2>2. used_bytes(hbm_blocks \cap live_blocks', intent') \in Nat
    BY <2>1, FS_Subset, UsedIsNat
  <2>3. i.size_bytes \in Nat
    BY IntentsAssumption DEF MemoryIntent
  <2> QED
    BY <2>2, <2>3
<1>2. /\ Allocated(b, i) /\ stats' = RecordUnlessLoop(s)
      /\ latency' = base_step_latency_us + 0
  BY DEF AccountAllocated, Charge
<1> HIDE DEF demand
<1>3. /\ s \in [Counters -> Nat]
      /\ \A c \in Counters \ {"peak_hbm_demand_bytes"} : s[c] = stats[c]
  BY <1>1, LargerOfTwo DEF CountersAreNat, Counters
<1>4. hbm_used' \in Nat
  BY HbmIsCountedNext
<1> HIDE DEF s
<1>5. Counts(0, 0, 0)
  BY <1>2, <1>3, <1>4, RecordUnlessLoopFacts DEF Counts, Counters
<1>6. pc = "idle" /\ pc' \in {"ensure", "finish"}
  BY <1>2 DEF Allocated
<1>7. latency' = base_step_latency_us + Times(0, miss_penalty_us)
                 + Times(0, spill_latency_us) + Times(0, prefetch_latency_us)
      /\ latency' \in Nat
  BY <1>2, LatencyAssumption DEF Times
<1>8. /\ stats'.pinned_capacity_exhaustion_events = stats.pinned_capacity_exhaustion_events
      /\ \/ /\ stats'.actual_peak_hbm_used_bytes = stats.actual_peak_hbm_used_bytes
            /\ pc' # "finish"
         \/ /\ pc' = "finish"
            /\ stats'.actual_peak_hbm_used_bytes
                  = Larger(stats.actual_peak_hbm_used_bytes, hbm_used')
  BY <1>2, <1>3, <1>4, RecordUnlessLoopFacts DEF Counters
<1> QED
  BY <1>5, <1>6, <1>7, <1>8 DEF EventEffect

\* ACCESSED charges a miss exactly when it counts one.
LEMMA AccessedEffect ==
    ASSUME Counted, CountersAreNat, Counted', NEW b \in Blocks, NEW i \in Intents,
           AccountAccessed(b, i)
    PROVE  EventEffect
<1> DEFINE miss == b \notin hbm_blocks
           n == One(miss)
           critical == One(miss /\ is_decode_critical(AccessedIntent(b, i)))
           s == [stats EXCEPT !.miss_count = @ + n,
                              !.decode_critical_misses = @ + critical]
<1>1. /\ Accessed(b, i)
      /\ stats' = IF pc' = "raised" THEN stats ELSE RecordUnlessLoop(s)
      /\ latency' = base_step_latency_us + IF miss THEN miss_penalty_us ELSE 0
  BY DEF AccountAccessed, Charge
<1>2. critical \in Nat /\ n \in {0, 1} /\ n \in Nat
  BY DEF One
<1> HIDE DEF critical, n
<1>3. /\ s \in [Counters -> Nat]
      /\ s.miss_count = stats.miss_count + n
      /\ \A c \in Counters \ {"miss_count", "decode_critical_misses"} : s[c] = stats[c]
  <2>1. /\ stats \in [Counters -> Nat] /\ n \in Nat /\ critical \in Nat
        /\ "miss_count" \in Counters /\ "decode_critical_misses" \in Counters
    BY <1>2 DEF CountersAreNat, Counters
  <2>2. s = [stats EXCEPT !["miss_count"] = @ + n, !["decode_critical_misses"] = @ + critical]
    OBVIOUS
  <2> HIDE DEF s
  <2> QED
    BY <2>1, <2>2, TwoCounters
<1>4. hbm_used' \in Nat
  BY HbmIsCountedNext
<1>5. pc = "idle" /\ pc' \in {"ensure", "finish", "raised"}
  BY <1>1 DEF Accessed, Raise, move_to_hbm
<1>6. latency' = base_step_latency_us + Times(n, miss_penalty_us)
                 + Times(0, spill_latency_us) + Times(0, prefetch_latency_us)
      /\ latency' \in Nat
  BY <1>1, LatencyAssumption DEF Times, One, n
<1> HIDE DEF s, miss
<1>7. CASE pc' = "raised"
  <2>1. Counts(0, 0, 0)
    BY <1>1, <1>7 DEF Counts, CountersAreNat, Counters
  <2> QED
    BY <1>1, <1>5, <1>6, <1>7, <2>1 DEF EventEffect
<1>8. CASE pc' # "raised"
  <2>1. Counts(n, 0, 0)
    BY <1>1, <1>2, <1>3, <1>4, <1>8, RecordUnlessLoopFacts DEF Counts, Counters, CountersAreNat
  <2>2. /\ stats'.pinned_capacity_exhaustion_events = stats.pinned_capacity_exhaustion_events
        /\ \/ /\ stats'.actual_peak_hbm_used_bytes = stats.actual_peak_hbm_used_bytes
              /\ pc' # "finish"
           \/ /\ pc' = "finish"
              /\ stats'.actual_peak_hbm_used_bytes
                    = Larger(stats.actual_peak_hbm_used_bytes, hbm_used')
    BY <1>1, <1>3, <1>4, <1>8, RecordUnlessLoopFacts DEF Counters
  <2> QED
    BY <1>2, <1>5, <1>6, <2>1, <2>2 DEF EventEffect
<1> QED
  BY <1>7, <1>8

\* The other events count at most one spill or prefetch and charge it.
LEMMA OtherEventEffect ==
    ASSUME Counted, CountersAreNat, NEW b \in Blocks,
           \/ AccountSpilled(b) \/ AccountEvicted(b) \/ AccountUncounted(b)
           \/ \E i \in Intents, u \in BOOLEAN : AccountPrefetched(b, i, u)
    PROVE  EventEffect
<1>l. {base_step_latency_us, spill_latency_us, prefetch_latency_us} \subseteq Nat
  BY LatencyAssumption
<1>f. FirstUseEvent
  BY DEF AccountSpilled, AccountEvicted, AccountUncounted, AccountPrefetched, FirstUseEvent
<1>1. CASE AccountSpilled(b)
  <2> DEFINE spilled == b \in live_blocks /\ "DRAM" \in intent[b].allowed_tiers
  <2>1. /\ Spilled(b)
        /\ stats' = [stats EXCEPT !.spill_count = @ + One(spilled)]
        /\ latency' = base_step_latency_us + IF spilled THEN spill_latency_us ELSE 0
    BY <1>1 DEF AccountSpilled, Charge
  <2>2. One(spilled) \in {0, 1}
    BY DEF One
  <2>3. latency' = base_step_latency_us + Times(0, miss_penalty_us)
                   + Times(One(spilled), spill_latency_us) + Times(0, prefetch_latency_us)
        /\ latency' \in Nat
    BY <2>1, <1>l DEF Times, One
  <2>4. pc = "idle" /\ pc' = "finish"
    BY <2>1 DEF Spilled, Ignore
  <2> HIDE DEF spilled
  <2>5. /\ Counts(0, One(spilled), 0)
        /\ stats'.pinned_capacity_exhaustion_events = stats.pinned_capacity_exhaustion_events
        /\ stats'.actual_peak_hbm_used_bytes = stats.actual_peak_hbm_used_bytes
    BY <2>1, <2>2 DEF Counts, CountersAreNat, Counters
  <2> QED
    BY <1>f, <2>2, <2>3, <2>4, <2>5 DEF EventEffect
<1>2. ASSUME NEW i \in Intents, NEW u \in BOOLEAN, AccountPrefetched(b, i, u)
      PROVE  EventEffect
  <2> DEFINE moved == b \in live_blocks \ hbm_blocks /\ should_prefetch(i, u)
  <2>1. /\ Prefetched(b, i, u)
        /\ stats' = [stats EXCEPT !.prefetch_count = @ + One(moved)]
        /\ latency' = base_step_latency_us + IF moved THEN prefetch_latency_us ELSE 0
    BY <1>2 DEF AccountPrefetched, Charge
  <2>2. One(moved) \in {0, 1}
    BY DEF One
  <2>3. latency' = base_step_latency_us + Times(0, miss_penalty_us)
                   + Times(0, spill_latency_us) + Times(One(moved), prefetch_latency_us)
        /\ latency' \in Nat
    BY <2>1, <1>l DEF Times, One
  <2>4. pc = "idle" /\ pc' \in {"ensure", "finish"}
    BY <2>1 DEF Prefetched, Ignore, move_to_hbm
  <2> HIDE DEF moved
  <2>5. /\ Counts(0, 0, One(moved))
        /\ stats'.pinned_capacity_exhaustion_events = stats.pinned_capacity_exhaustion_events
        /\ stats'.actual_peak_hbm_used_bytes = stats.actual_peak_hbm_used_bytes
    BY <2>1, <2>2 DEF Counts, CountersAreNat, Counters
  <2> QED
    BY <1>f, <2>2, <2>3, <2>4, <2>5 DEF EventEffect
<1>3. CASE AccountEvicted(b) \/ AccountUncounted(b)
  <2>1. pc = "idle" /\ pc' \in {"finish", "raised"}
    BY <1>3 DEF AccountEvicted, AccountUncounted, Evicted, MarkedDecodeCritical,
                MarkedCold, Committed, Freed, Miss, Ignore, Raise
  <2>2. latency' = base_step_latency_us + Times(0, miss_penalty_us)
                   + Times(0, spill_latency_us) + Times(0, prefetch_latency_us)
        /\ latency' \in Nat
    BY <1>3, <1>l DEF AccountEvicted, AccountUncounted, Charge, Times
  <2>3. /\ Counts(0, 0, 0)
        /\ stats'.pinned_capacity_exhaustion_events = stats.pinned_capacity_exhaustion_events
        /\ stats'.actual_peak_hbm_used_bytes = stats.actual_peak_hbm_used_bytes
    <3>1. CASE AccountUncounted(b)
      BY <3>1 DEF AccountUncounted, Counts, CountersAreNat, Counters
    <3>2. CASE AccountEvicted(b)
      <4> DEFINE n == One(b \in live_blocks)
                 m == One(b \in live_blocks /\ is_decode_critical(intent[b]))
      <4>1. n \in Nat /\ m \in Nat
        BY DEF One
      <4>2. stats' = [stats EXCEPT !.eviction_count = @ + n,
                                   !.decode_critical_evictions = @ + m]
        BY <3>2 DEF AccountEvicted
      <4> HIDE DEF n, m
      <4>3. /\ stats \in [Counters -> Nat]
            /\ "eviction_count" \in Counters /\ "decode_critical_evictions" \in Counters
        BY DEF CountersAreNat, Counters
      <4>4. stats' = [stats EXCEPT !["eviction_count"] = @ + n,
                                   !["decode_critical_evictions"] = @ + m]
        BY <4>2
      <4>5. /\ stats' \in [Counters -> Nat]
            /\ \A c \in Counters \ {"eviction_count", "decode_critical_evictions"} :
                  stats'[c] = stats[c]
        BY <4>1, <4>3, <4>4, TwoCounters
      <4> QED
        BY <4>3, <4>5 DEF Counts, Counters
    <3> QED
      BY <1>3, <3>1, <3>2
  <2> QED
    BY <1>f, <2>1, <2>2, <2>3 DEF EventEffect
<1> QED
  BY <1>1, <1>2, <1>3

-----------------------------------------------------------------------------
(***************************************************************************)
(* What the capacity loop does to the counters                             *)
(***************************************************************************)
\* A turn of the loop counts at most one spill and charges it.  On its way out the
\* loop records the usage, which only the exhausted exit can find over capacity.
LoopEffect ==
    /\ pc = "ensure" /\ pc' \in {"ensure", "finish"}
    /\ latency' \in Nat
    /\ \E s \in {0, 1} : /\ Counts(0, s, 0)
                         /\ latency' = latency + Times(s, spill_latency_us)
    /\ \/ /\ pc' = "ensure"
          /\ stats'.actual_peak_hbm_used_bytes = stats.actual_peak_hbm_used_bytes
          /\ stats'.pinned_capacity_exhaustion_events
                = stats.pinned_capacity_exhaustion_events
       \/ /\ pc' = "finish"
          /\ stats'.actual_peak_hbm_used_bytes
                = Larger(stats.actual_peak_hbm_used_bytes, hbm_used')
          /\ \/ /\ hbm_used' <= HbmCapacity
                /\ stats'.pinned_capacity_exhaustion_events
                      = stats.pinned_capacity_exhaustion_events
             \/ stats'.pinned_capacity_exhaustion_events
                   = stats.pinned_capacity_exhaustion_events + 1

\* One victim: the spill is counted on the way through the loop as well.
LEMMA EvictOneEffect ==
    ASSUME CountersAreNat, AccountEvictOne
    PROVE  LoopEffect
<1> DEFINE v == CHOOSE b \in hbm_blocks : b \notin hbm_blocks'
           spilled == v \in dram_blocks'
           n == One(spilled)
           m == One(is_decode_critical(intent[v]))
           s == [stats EXCEPT !.eviction_count = @ + 1, !.decode_critical_evictions = @ + m]
<1>1. /\ EvictOne
      /\ stats' = [stats EXCEPT !.eviction_count = @ + 1,
                                !.decode_critical_evictions = @ + m,
                                !.spill_count = @ + n]
      /\ latency' = latency + IF spilled THEN spill_latency_us ELSE 0
  BY DEF AccountEvictOne
<1>2. n \in {0, 1} /\ m \in Nat
  BY DEF One
<1>3. latency' = latency + Times(n, spill_latency_us)
  BY <1>1 DEF Times, One
<1>4. pc = "ensure" /\ pc' = "ensure"
  BY <1>1 DEF EvictOne
<1>5. latency' \in Nat
  BY <1>2, <1>3, LatencyAssumption DEF CountersAreNat, Times
<1> HIDE DEF spilled, n, m, v
<1>6. /\ s \in [Counters -> Nat]
      /\ \A e \in Counters \ {"eviction_count", "decode_critical_evictions"} : s[e] = stats[e]
  <2>1. /\ stats \in [Counters -> Nat] /\ 1 \in Nat /\ m \in Nat
        /\ "eviction_count" \in Counters /\ "decode_critical_evictions" \in Counters
    BY <1>2 DEF CountersAreNat, Counters
  <2>2. s = [stats EXCEPT !["eviction_count"] = @ + 1,
                          !["decode_critical_evictions"] = @ + m]
    OBVIOUS
  <2> HIDE DEF s
  <2> QED
    BY <2>1, <2>2, TwoCounters
<1>7. stats' = [s EXCEPT !.spill_count = @ + n]
  BY <1>1
<1> HIDE DEF s
<1>8. /\ stats' \in [Counters -> Nat]
      /\ stats'.spill_count = stats.spill_count + n
      /\ \A e \in Counters \ {"spill_count", "eviction_count", "decode_critical_evictions"} :
            stats'[e] = stats[e]
  BY <1>2, <1>6, <1>7 DEF Counters
<1>9. /\ Counts(0, n, 0)
      /\ stats'.actual_peak_hbm_used_bytes = stats.actual_peak_hbm_used_bytes
      /\ stats'.pinned_capacity_exhaustion_events = stats.pinned_capacity_exhaustion_events
  BY <1>8 DEF Counts, Counters, CountersAreNat
<1> QED
  BY <1>2, <1>3, <1>4, <1>5, <1>9 DEF LoopEffect

\* The two exits record the usage; the one over capacity is counted.
LEMMA ExitEffect ==
    ASSUME Counted, Counted', CountersAreNat, AccountExhausted \/ AccountEnsureDone
    PROVE  LoopEffect
<1>1. /\ pc = "ensure" /\ pc' = "finish" /\ latency' = latency /\ UNCHANGED placement
  BY DEF AccountExhausted, AccountEnsureDone, CapacityExhausted, EnsureDone
<1>2. hbm_used' = hbm_used /\ hbm_used \in Nat /\ hbm_used' \in Nat
  BY <1>1, UsedUnchanged, HbmIsCounted
<1>3. latency' = latency + Times(0, spill_latency_us) /\ latency' \in Nat
  BY <1>1 DEF CountersAreNat, Times
<1>4. CASE AccountExhausted
  <2> DEFINE s == [stats EXCEPT !["capacity_exhaustion_events"] = @ + 1,
                                !["pinned_capacity_exhaustion_events"] = @ + 1]
  <2>1. stats' = record_usage(s)
    BY <1>4 DEF AccountExhausted
  <2>2. /\ s \in [Counters -> Nat]
        /\ \A e \in Counters \ {"capacity_exhaustion_events",
                                "pinned_capacity_exhaustion_events"} : s[e] = stats[e]
    <3>1. /\ stats \in [Counters -> Nat] /\ 1 \in Nat
          /\ "capacity_exhaustion_events" \in Counters
          /\ "pinned_capacity_exhaustion_events" \in Counters
      BY DEF CountersAreNat, Counters
    <3> DEFINE t == s
    <3>2. t = [stats EXCEPT !["capacity_exhaustion_events"] = @ + 1,
                            !["pinned_capacity_exhaustion_events"] = @ + 1]
      OBVIOUS
    <3> HIDE DEF t
    <3>3. /\ t \in [Counters -> Nat]
          /\ \A e \in Counters \ {"capacity_exhaustion_events",
                                  "pinned_capacity_exhaustion_events"} : t[e] = stats[e]
      BY <3>1, <3>2, TwoCounters
    <3> QED
      BY <3>3 DEF t
  <2>3. s.pinned_capacity_exhaustion_events = stats.pinned_capacity_exhaustion_events + 1
    BY DEF CountersAreNat, Counters
  <2> HIDE DEF s
  <2>4. /\ Counts(0, 0, 0)
        /\ stats'.actual_peak_hbm_used_bytes
              = Larger(stats.actual_peak_hbm_used_bytes, hbm_used')
        /\ stats'.pinned_capacity_exhaustion_events
              = stats.pinned_capacity_exhaustion_events + 1
    BY <1>2, <2>1, <2>2, <2>3, RecordUsage DEF Counts, Counters, CountersAreNat
  <2> QED
    BY <1>1, <1>3, <2>4 DEF LoopEffect
<1>5. CASE AccountEnsureDone
  <2>1. stats' = record_usage(stats) /\ ~ (hbm_used > HbmCapacity)
    BY <1>5 DEF AccountEnsureDone, EnsureDone, OverCapacity
  <2>2. hbm_used' <= HbmCapacity
    BY <1>2, <2>1, CapacityAssumption
  <2>3. /\ Counts(0, 0, 0)
        /\ stats'.actual_peak_hbm_used_bytes
              = Larger(stats.actual_peak_hbm_used_bytes, hbm_used')
        /\ stats'.pinned_capacity_exhaustion_events
              = stats.pinned_capacity_exhaustion_events
    BY <1>2, <2>1, RecordUsage DEF Counts, Counters, CountersAreNat
  <2> QED
    BY <1>1, <1>3, <2>2, <2>3 DEF LoopEffect
<1> QED
  BY <1>4, <1>5

\* The end of an event adds its latency to the total and counts it.
FinishEffect ==
    /\ pc = "finish" /\ pc' \in {"idle", "raised"}
    /\ pc' = "idle" => total_latency' = total_latency + latency /\ events' = events + 1
    /\ pc' = "raised" => UNCHANGED <<total_latency, events>>
    /\ latency' = 0
    /\ UNCHANGED stats
    /\ hbm_used' = hbm_used

\* Finish is the code's last statement of an event.
LEMMA FinishFacts == ASSUME AccountFinish PROVE FinishEffect
<1>1. UNCHANGED placement /\ pc = "finish" /\ pc' \in {"idle", "raised"}
  BY DEF AccountFinish, Finish
<1>2. hbm_used' = hbm_used
  BY <1>1, UsedUnchanged
<1> QED
  BY <1>1, <1>2 DEF AccountFinish, FinishEffect

\* All that a step can do to the statistics.
LEMMA AccountingEffect ==
    ASSUME Counted, CountersAreNat, [AccountingNext]_allVars
    PROVE  \/ EventEffect /\ UNCHANGED <<total_latency, events>>
           \/ LoopEffect /\ UNCHANGED <<total_latency, events>>
           \/ FinishEffect
           \/ UNCHANGED allVars
<1>1. Counted'
  BY AccountingRefines, CountedStep
<1>2. CASE AccountEvent
  <2>1. PICK b \in Blocks :
           \/ \E i \in Intents :
                 \/ AccountAllocated(b, i)
                 \/ AccountAccessed(b, i)
                 \/ \E urgent \in BOOLEAN : AccountPrefetched(b, i, urgent)
           \/ AccountSpilled(b) \/ AccountEvicted(b) \/ AccountUncounted(b)
    BY <1>2 DEF AccountEvent
  <2>2. ASSUME NEW i \in Intents, AccountAllocated(b, i) PROVE EventEffect
    BY <1>1, <2>2, AllocatedEffect
  <2>3. ASSUME NEW i \in Intents, AccountAccessed(b, i) PROVE EventEffect
    BY <1>1, <2>3, AccessedEffect
  <2>4. ASSUME \/ AccountSpilled(b) \/ AccountEvicted(b) \/ AccountUncounted(b)
               \/ \E i \in Intents, u \in BOOLEAN : AccountPrefetched(b, i, u)
        PROVE  EventEffect
    BY <2>4, OtherEventEffect
  <2>5. EventEffect
    BY <2>1, <2>2, <2>3, <2>4
  <2> QED
    BY <1>2, <2>5 DEF AccountEvent
<1>3. CASE AccountLoop
  BY <1>1, <1>3, EvictOneEffect, ExitEffect DEF AccountLoop
<1>4. CASE AccountFinish
  BY <1>4, FinishFacts
<1> QED
  BY <1>2, <1>3, <1>4 DEF AccountingNext

\* Every step keeps the counters natural numbers.
LEMMA CountersStep ==
    ASSUME Counted, CountersAreNat, [AccountingNext]_allVars
    PROVE  CountersAreNat'
<1>1. CASE (EventEffect \/ LoopEffect) /\ UNCHANGED <<total_latency, events>>
  BY <1>1 DEF EventEffect, LoopEffect, Counts, CountersAreNat
<1>2. CASE FinishEffect
  BY <1>2 DEF FinishEffect, CountersAreNat
<1>3. CASE UNCHANGED allVars
  BY <1>3 DEF allVars, accountingVars, CountersAreNat
<1> QED
  BY <1>1, <1>2, <1>3, AccountingEffect

-----------------------------------------------------------------------------
(***************************************************************************)
(* The total latency is what the counters explain                          *)
(***************************************************************************)
\* The latency that the counters account for.
Explained ==
    events * base_step_latency_us + stats.miss_count * miss_penalty_us
    + stats.spill_count * spill_latency_us + stats.prefetch_count * prefetch_latency_us

\* In the middle of an event its own latency is not in the total yet, and its base
\* latency is not in the count of events.
LatencyBalance ==
    /\ pc = "idle" => total_latency = Explained
    /\ pc \in {"ensure", "finish"} =>
          total_latency + latency = base_step_latency_us + Explained

\* One more on a counter is one more charge.
LEMMA OneMoreCharge ==
    ASSUME NEW n \in Nat, NEW charge \in Nat, NEW m \in {0, 1}
    PROVE  /\ n * charge \in Nat
           /\ (n + m) * charge = n * charge + Times(m, charge)
BY DEF Times

\* What a step counts is what it adds to the explanation.
LEMMA ExplainedStep ==
    ASSUME CountersAreNat, NEW m \in {0, 1}, NEW s \in {0, 1}, NEW p \in {0, 1},
           Counts(m, s, p), events' = events
    PROVE  /\ Explained \in Nat
           /\ Explained' = Explained + Times(m, miss_penalty_us)
                           + Times(s, spill_latency_us) + Times(p, prefetch_latency_us)
<1> DEFINE E == events * base_step_latency_us
           M == stats.miss_count * miss_penalty_us
           S == stats.spill_count * spill_latency_us
           P == stats.prefetch_count * prefetch_latency_us
           tm == Times(m, miss_penalty_us)
           ts == Times(s, spill_latency_us)
           tp == Times(p, prefetch_latency_us)
<1>1. /\ stats.miss_count \in Nat /\ stats.spill_count \in Nat
      /\ stats.prefetch_count \in Nat /\ events \in Nat
  BY DEF CountersAreNat, Counters
<1>2. /\ base_step_latency_us \in Nat /\ miss_penalty_us \in Nat
      /\ spill_latency_us \in Nat /\ prefetch_latency_us \in Nat
  BY LatencyAssumption
<1>3. E \in Nat /\ M \in Nat /\ S \in Nat /\ P \in Nat
  BY <1>1, <1>2, OneMoreCharge
<1>4. tm \in Nat /\ ts \in Nat /\ tp \in Nat
  BY <1>2 DEF Times
<1>5. stats'.miss_count * miss_penalty_us = M + tm
  BY <1>1, <1>2, OneMoreCharge DEF Counts
<1>6. stats'.spill_count * spill_latency_us = S + ts
  BY <1>1, <1>2, OneMoreCharge DEF Counts
<1>7. stats'.prefetch_count * prefetch_latency_us = P + tp
  BY <1>1, <1>2, OneMoreCharge DEF Counts
<1>8. Explained = E + M + S + P
  BY DEF Explained
<1>9. Explained' = E + (M + tm) + (S + ts) + (P + tp)
  BY <1>5, <1>6, <1>7 DEF Explained
<1> HIDE DEF E, M, S, P, tm, ts, tp
<1>10. /\ Explained \in Nat
       /\ Explained' = Explained + tm + ts + tp
  BY <1>3, <1>4, <1>8, <1>9
<1> QED
  BY <1>10 DEF tm, ts, tp

\* No step unbalances the latency.
LEMMA LatencyStep ==
    ASSUME Counted, CountersAreNat, LatencyBalance, [AccountingNext]_allVars
    PROVE  LatencyBalance'
<1>t. /\ latency \in Nat /\ total_latency \in Nat /\ events \in Nat
      /\ base_step_latency_us \in Nat /\ CountersAreNat'
  BY CountersStep, LatencyAssumption DEF CountersAreNat
<1>c. /\ miss_penalty_us \in Nat /\ spill_latency_us \in Nat /\ prefetch_latency_us \in Nat
  BY LatencyAssumption
<1>1. CASE EventEffect /\ UNCHANGED <<total_latency, events>>
  <2>1. PICK m \in {0, 1}, s \in {0, 1}, p \in {0, 1} :
           /\ Counts(m, s, p)
           /\ pc' # "raised" =>
                 latency' = base_step_latency_us + Times(m, miss_penalty_us)
                            + Times(s, spill_latency_us) + Times(p, prefetch_latency_us)
    BY <1>1 DEF EventEffect
  <2> DEFINE tm == Times(m, miss_penalty_us)
             ts == Times(s, spill_latency_us)
             tp == Times(p, prefetch_latency_us)
  <2>2. Explained \in Nat /\ Explained' = Explained + tm + ts + tp
    BY <1>1, <2>1, ExplainedStep
  <2>3. tm \in Nat /\ ts \in Nat /\ tp \in Nat
    BY <1>c DEF Times
  <2>4. pc = "idle" /\ pc' \in {"ensure", "finish", "raised"}
    BY <1>1 DEF EventEffect
  <2>5. total_latency = Explained /\ total_latency' = total_latency
    BY <1>1, <2>4 DEF LatencyBalance
  <2>6. pc' # "raised" => latency' = base_step_latency_us + tm + ts + tp
    BY <2>1
  <2> HIDE DEF tm, ts, tp
  <2>7. pc' # "raised" => total_latency' + latency' = base_step_latency_us + Explained'
    BY <1>t, <2>2, <2>3, <2>5, <2>6
  <2> QED
    BY <2>4, <2>7 DEF LatencyBalance
<1>2. CASE LoopEffect /\ UNCHANGED <<total_latency, events>>
  <2>1. PICK s \in {0, 1} : Counts(0, s, 0) /\ latency' = latency + Times(s, spill_latency_us)
    BY <1>2 DEF LoopEffect
  <2> DEFINE ts == Times(s, spill_latency_us)
  <2>2. Explained \in Nat /\ Explained' = Explained + ts
    <3>1. /\ Explained \in Nat
          /\ Explained' = Explained + Times(0, miss_penalty_us) + ts
                          + Times(0, prefetch_latency_us)
      BY <1>2, <2>1, ExplainedStep
    <3>2. ts \in Nat /\ Times(0, miss_penalty_us) = 0 /\ Times(0, prefetch_latency_us) = 0
      BY <1>c DEF Times
    <3> HIDE DEF ts
    <3> QED
      BY <3>1, <3>2
  <2>3. ts \in Nat /\ latency' = latency + ts
    BY <1>c, <2>1 DEF Times
  <2>4. pc = "ensure" /\ pc' \in {"ensure", "finish"} /\ total_latency' = total_latency
    BY <1>2 DEF LoopEffect
  <2>5. total_latency + latency = base_step_latency_us + Explained
    BY <2>4 DEF LatencyBalance
  <2> HIDE DEF ts
  <2>6. total_latency' + latency' = base_step_latency_us + Explained'
    BY <1>t, <2>2, <2>3, <2>4, <2>5
  <2> QED
    BY <2>4, <2>6 DEF LatencyBalance
<1>3. CASE FinishEffect
  <2>1. CASE pc' = "idle"
    <3>1. /\ pc = "finish" /\ total_latency' = total_latency + latency
          /\ events' = events + 1 /\ stats' = stats
      BY <1>3, <2>1 DEF FinishEffect
    <3>2. total_latency + latency = base_step_latency_us + Explained
      BY <3>1 DEF LatencyBalance
    <3>3. Explained' = base_step_latency_us + Explained
      <4> DEFINE E == events * base_step_latency_us
                 M == stats.miss_count * miss_penalty_us
                 S == stats.spill_count * spill_latency_us
                 P == stats.prefetch_count * prefetch_latency_us
      <4>1. /\ stats.miss_count \in Nat /\ stats.spill_count \in Nat
            /\ stats.prefetch_count \in Nat
        BY DEF CountersAreNat, Counters
      <4>2. E \in Nat /\ M \in Nat /\ S \in Nat /\ P \in Nat
        BY <1>t, <1>c, <4>1, OneMoreCharge
      <4>3. (events + 1) * base_step_latency_us = E + base_step_latency_us
        BY <1>t, OneMoreCharge DEF Times
      <4>4. Explained = E + M + S + P
        BY DEF Explained
      <4>5. Explained' = (E + base_step_latency_us) + M + S + P
        BY <3>1, <4>3 DEF Explained
      <4> HIDE DEF E, M, S, P
      <4> QED
        BY <1>t, <4>2, <4>4, <4>5
    <3> QED
      BY <2>1, <3>1, <3>2, <3>3 DEF LatencyBalance
  <2>2. CASE pc' = "raised"
    BY <2>2 DEF LatencyBalance
  <2> QED
    BY <1>3, <2>1, <2>2 DEF FinishEffect
<1>4. CASE UNCHANGED allVars
  BY <1>4 DEF allVars, accountingVars, vars, LatencyBalance, Explained
<1> QED
  BY <1>1, <1>2, <1>3, <1>4, AccountingEffect

-----------------------------------------------------------------------------
(***************************************************************************)
(* The reported peak                                                       *)
(***************************************************************************)
\* Once the loop has been left, HBM holds no more than the reported peak; and a peak
\* over capacity has been reported as an exhaustion, unless blocks are allocated
\* again.
PeakIsReported ==
    /\ pc \in {"idle", "finish"} => hbm_used <= stats.actual_peak_hbm_used_bytes
    /\ ~ Realloc /\ stats.actual_peak_hbm_used_bytes > HbmCapacity =>
          stats.pinned_capacity_exhaustion_events > 0

\* Without second allocations every event is one that the placement proofs know.
LEMMA EventsAreFirstUses ==
    ASSUME ~ Realloc, AccountEvent
    PROVE  FirstUseEvent
BY DEF AccountEvent, AccountAllocated, AccountAccessed, AccountPrefetched, AccountSpilled,
       AccountEvicted, AccountUncounted, Allocated, FirstUseEvent

\* The numbers that the two peaks are made of.
LEMMA PeakTypes ==
    ASSUME Counted, CountersAreNat
    PROVE  /\ hbm_used \in Nat /\ HbmCapacity \in Nat
           /\ stats.actual_peak_hbm_used_bytes \in Nat
           /\ stats.pinned_capacity_exhaustion_events \in Nat
BY HbmIsCounted, CapacityAssumption DEF CountersAreNat, Counters

\* An event that ends without the loop leaves HBM below the peak and, without second
\* allocations, the peak where it was.
LEMMA PeakAfterEvent ==
    ASSUME Counted, Counted', CountersAreNat, PeakIsReported, EventEffect,
           ~ Realloc => FirstUseEvent
    PROVE  PeakIsReported'
<1> DEFINE peak == stats.actual_peak_hbm_used_bytes
           reported == stats.pinned_capacity_exhaustion_events
<1>1. /\ hbm_used \in Nat /\ hbm_used' \in Nat /\ HbmCapacity \in Nat
      /\ peak \in Nat /\ reported \in Nat
  BY PeakTypes, HbmIsCountedNext
<1>2. /\ pc = "idle" /\ pc' \in {"ensure", "finish", "raised"}
      /\ reported' = reported
      /\ \/ peak' = peak /\ (pc' = "finish" => FirstUseEvent)
         \/ pc' = "finish" /\ peak' = Larger(peak, hbm_used')
  BY DEF EventEffect
<1>3. hbm_used <= peak
  BY <1>2 DEF PeakIsReported
<1>4. pc' = "finish" /\ FirstUseEvent => hbm_used' <= hbm_used
  BY EventShrinksHbm, UsedShrinks DEF Counted
<1>5. ~ Realloc /\ peak > HbmCapacity => reported > 0
  BY DEF PeakIsReported
<1> HIDE DEF peak, reported
<1>6. pc' \in {"idle", "finish"} => hbm_used' <= peak'
  BY <1>1, <1>2, <1>3, <1>4, LargerOfTwo
<1>7. ~ Realloc => peak' = peak
  <2>1. ~ Realloc /\ pc' = "finish" => Larger(peak, hbm_used') = peak
    BY <1>1, <1>3, <1>4 DEF Larger
  <2> QED
    BY <1>2, <2>1
<1>8. ~ Realloc /\ peak' > HbmCapacity => reported' > 0
  BY <1>2, <1>5, <1>7
<1> QED
  BY <1>6, <1>8 DEF PeakIsReported, peak, reported

\* The loop's exits record the usage: within capacity, or reported.
LEMMA PeakAfterLoop ==
    ASSUME Counted, Counted', CountersAreNat, PeakIsReported, LoopEffect
    PROVE  PeakIsReported'
<1> DEFINE peak == stats.actual_peak_hbm_used_bytes
           reported == stats.pinned_capacity_exhaustion_events
<1>1. /\ hbm_used' \in Nat /\ HbmCapacity \in Nat /\ peak \in Nat /\ reported \in Nat
  BY PeakTypes, HbmIsCountedNext
<1>2. /\ pc' \in {"ensure", "finish"}
      /\ \/ pc' = "ensure" /\ peak' = peak /\ reported' = reported
         \/ /\ pc' = "finish" /\ peak' = Larger(peak, hbm_used')
            /\ \/ hbm_used' <= HbmCapacity /\ reported' = reported
               \/ reported' = reported + 1
  BY DEF LoopEffect
<1>3. ~ Realloc /\ peak > HbmCapacity => reported > 0
  BY DEF PeakIsReported
<1> HIDE DEF peak, reported
<1>4. pc' \in {"idle", "finish"} => hbm_used' <= peak'
  BY <1>1, <1>2, LargerOfTwo
<1>5. ~ Realloc /\ peak' > HbmCapacity => reported' > 0
  BY <1>1, <1>2, <1>3 DEF Larger
<1> QED
  BY <1>4, <1>5 DEF PeakIsReported, peak, reported

\* Every step keeps the peak true.
LEMMA PeakStep ==
    ASSUME Counted, CountersAreNat, PeakIsReported, [AccountingNext]_allVars
    PROVE  PeakIsReported'
<1>1. Counted'
  BY AccountingRefines, CountedStep
<1>2. CASE AccountEvent
  <2>1. EventEffect
    <3>1. pc = "idle"
      BY ZenonT(30), <1>2 DEF AccountEvent, AccountAllocated, AccountAccessed, AccountPrefetched,
                  AccountSpilled, AccountEvicted, AccountUncounted, Allocated, Accessed,
                  Prefetched, Spilled, Evicted, MarkedDecodeCritical, MarkedCold,
                  Committed, Freed, Miss
    <3>2. pc' # "idle"
      BY ZenonT(30), <1>2 DEF AccountEvent, AccountAllocated, AccountAccessed, AccountPrefetched,
                  AccountSpilled, AccountEvicted, AccountUncounted, Allocated, Accessed,
                  Prefetched, Spilled, Evicted, MarkedDecodeCritical, MarkedCold,
                  Committed, Freed, Miss, Ignore, Raise, move_to_hbm
    <3>3. ~ LoopEffect /\ ~ FinishEffect
      BY <3>1 DEF LoopEffect, FinishEffect
    <3>4. ~ UNCHANGED allVars
      BY <3>1, <3>2 DEF allVars, vars
    <3> QED
      BY <3>3, <3>4, AccountingEffect
  <2> QED
    BY <1>1, <1>2, <2>1, EventsAreFirstUses, PeakAfterEvent
<1>3. CASE AccountLoop
  <2>1. LoopEffect
    BY <1>1, <1>3, EvictOneEffect, ExitEffect DEF AccountLoop
  <2> QED
    BY <1>1, <2>1, PeakAfterLoop
<1>4. CASE AccountFinish
  <2>1. pc = "finish" /\ UNCHANGED stats /\ hbm_used' = hbm_used
    BY <1>4, FinishFacts DEF FinishEffect
  <2> QED
    BY <2>1 DEF PeakIsReported
<1>5. CASE UNCHANGED allVars
  <2>1. pc' = pc /\ stats' = stats /\ UNCHANGED placement
    BY <1>5 DEF allVars, accountingVars, vars, placement
  <2>2. hbm_used' = hbm_used
    BY <2>1, UsedUnchanged
  <2> QED
    BY <2>1, <2>2 DEF PeakIsReported
<1> QED
  BY <1>2, <1>3, <1>4, <1>5 DEF AccountingNext

-----------------------------------------------------------------------------
(***************************************************************************)
(* The reported numbers                                                    *)
(***************************************************************************)
\* The inductive invariant of the accounting.
AccountingInvariant == Counted /\ CountersAreNat /\ LatencyBalance /\ PeakIsReported

\* It holds throughout every run.
LEMMA AccountingHolds == AccountingSpec => []AccountingInvariant
<1>1. AccountingInit => AccountingInvariant
  <2> SUFFICES ASSUME AccountingInit PROVE AccountingInvariant
    OBVIOUS
  <2>1. Counted /\ hbm_used = 0
    BY CountedInit DEF AccountingInit
  <2>2. /\ pc = "idle" /\ latency = 0 /\ total_latency = 0 /\ events = 0
        /\ stats = [c \in Counters |-> 0]
    BY DEF AccountingInit, Init
  <2>3. CountersAreNat
    BY <2>2 DEF CountersAreNat
  <2>4. /\ stats.miss_count = 0 /\ stats.spill_count = 0 /\ stats.prefetch_count = 0
        /\ stats.actual_peak_hbm_used_bytes = 0
    BY <2>2 DEF Counters
  <2>5. \A n \in Nat : 0 * n = 0
    OBVIOUS
  <2>6. Explained = 0
    BY <2>2, <2>4, <2>5, LatencyAssumption DEF Explained
  <2>7. LatencyBalance
    BY <2>2, <2>6 DEF LatencyBalance
  <2>8. PeakIsReported
    BY <2>1, <2>4, CapacityAssumption DEF PeakIsReported
  <2> QED
    BY <2>1, <2>3, <2>7, <2>8 DEF AccountingInvariant
<1>2. AccountingInvariant /\ [AccountingNext]_allVars => AccountingInvariant'
  BY AccountingRefines, CountedStep, CountersStep, LatencyStep, PeakStep
  DEF AccountingInvariant
<1> QED
  BY <1>1, <1>2, PTL DEF AccountingSpec

\* The latencies that run() reports add up to the base latency of its events and a
\* charge for every counted miss, spill and prefetch: none is charged twice, missed,
\* or charged without being counted, on any of the paths that move a block.
THEOREM LatencyIsExplained == AccountingSpec => []LatencyExplained
<1>1. AccountingInvariant => LatencyExplained
  BY DEF AccountingInvariant, LatencyBalance, Explained, LatencyExplained
<1> QED
  BY <1>1, AccountingHolds, PTL

\* The reported peak bounds what HBM holds between events, and HBM exceeds its
\* capacity only after pinned blocks were reported to exhaust it.
THEOREM OverCapacityIsAlwaysReported == AccountingSpec => []OverCapacityIsReported
<1>1. AccountingInvariant => OverCapacityIsReported
  BY DEF AccountingInvariant, PeakIsReported, OverCapacityIsReported
<1> QED
  BY <1>1, AccountingHolds, PTL

\* Keeping the statistics never changes the placement: every run with them is a run
\* of the placement machine, so all that is proved of TierSimulator holds of it.
THEOREM AccountingRefinesPlacement == AccountingSpec => Spec
<1>1. AccountingInit => Init
  BY DEF AccountingInit
<1>2. [AccountingNext]_allVars => [Next]_vars
  BY AccountingRefines
<1> QED
  BY <1>1, <1>2, PTL DEF AccountingSpec, Spec

=============================================================================
