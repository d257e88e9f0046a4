------------------------- MODULE TierSimulatorProofs -------------------------
(***************************************************************************)
(* Proofs about TierSimulator, for any set of blocks, any intents, any     *)
(* capacities and every policy.                                            *)
(***************************************************************************)
EXTENDS TierSimulator, DataLemmas, TLAPS

-----------------------------------------------------------------------------
(***************************************************************************)
(* Facts about single intents                                              *)
(***************************************************************************)
\* The tier sets and enumerations contain the constants the actions assign.
LEMMA Enumerations ==
    /\ "HBM" \in Tier /\ "DRAM" \in Tier /\ "NVME" \in Tier
    /\ "DECODE_CRITICAL" \in Priority /\ "COLD" \in Priority
BY DEF Tier, Priority

\* ACCESSED leaves an intent of the right type.
LEMMA AccessedType ==
    ASSUME TypeOK, NEW b \in Blocks, NEW i \in Intents
    PROVE  AccessedIntent(b, i) \in MemoryIntent
<1>1. i \in MemoryIntent /\ i.phase \in Phase /\ i.priority \in Priority
      /\ i.pin_requested \in BOOLEAN
  BY IntentsAssumption DEF MemoryIntent
<1>2. b \in live_blocks => intent[b] \in MemoryIntent
  BY DEF TypeOK
<1> QED
  BY <1>1, <1>2 DEF AccessedIntent, MemoryIntent

\* A victim's new tier is a tier.
LEMMA TargetIsTier ==
    ASSUME NEW v, intent[v] \in MemoryIntent, NEW t \in TargetTiers(v)
    PROVE  t \in Tier
BY Enumerations DEF TargetTiers, fallback_tiers, MemoryIntent

\* The loop's victims are resident live blocks.
LEMMA VictimIsResident ==
    ASSUME NEW v \in choose_victim(Candidates)
    PROVE  v \in hbm_blocks /\ v \in live_blocks
BY DEF choose_victim, Candidates

-----------------------------------------------------------------------------
(***************************************************************************)
(* Type correctness                                                        *)
(***************************************************************************)
\* _move_to_hbm stores a copy of the intent whose tier is HBM: still an intent.
LEMMA TypeMove ==
    ASSUME TypeOK, NEW b \in Blocks, NEW i \in MemoryIntent, move_to_hbm(b, i)
    PROVE  TypeOK'
<1>1. [i EXCEPT !.current_tier = "HBM"] \in MemoryIntent
  BY Enumerations DEF MemoryIntent
<1> QED
  BY <1>1, NoIntentAssumption DEF TypeOK, move_to_hbm

\* Every event, every turn of the eviction loop and the end of the run keep the
\* types.
LEMMA TypeStep ==
    ASSUME TypeOK, [Next]_vars
    PROVE  TypeOK'
<1> USE DEF TypeOK
<1>i. ASSUME NEW i \in Intents
      PROVE  i \in MemoryIntent /\ i.phase \in Phase
  BY IntentsAssumption DEF MemoryIntent
<1>l. ASSUME NEW b \in live_blocks PROVE intent[b] \in MemoryIntent
  OBVIOUS
<1>1. ASSUME NEW b \in Blocks, NEW i \in Intents, Allocated(b, i) PROVE TypeOK'
  BY <1>1, <1>i, NoIntentAssumption DEF Allocated
<1>2. ASSUME NEW b \in Blocks, NEW i \in Intents, Accessed(b, i) PROVE TypeOK'
  <2>1. AccessedIntent(b, i) \in MemoryIntent
    BY AccessedType
  <2>2. CASE move_to_hbm(b, AccessedIntent(b, i))
    BY <2>1, <2>2, TypeMove
  <2> QED
    BY <1>2, <2>1, <2>2, NoIntentAssumption DEF Accessed, Raise, placement
<1>3. ASSUME NEW b \in Blocks, NEW i \in Intents, MarkedDecodeCritical(b, i)
      PROVE  TypeOK'
  <2> DEFINE base == IF b \in live_blocks THEN intent[b] ELSE i
             new == [base EXCEPT !.priority = "DECODE_CRITICAL",
                                 !.phase = i.phase, !.pin_requested = TRUE]
  <2>1. new \in MemoryIntent
    BY <1>i, <1>l, Enumerations DEF MemoryIntent
  <2> QED
    BY <1>3, <2>1, NoIntentAssumption DEF MarkedDecodeCritical, Raise, placement
<1>4. ASSUME NEW b \in Blocks, NEW i \in Intents, MarkedCold(b, i) PROVE TypeOK'
  <2>1. ASSUME b \in live_blocks
        PROVE  [intent[b] EXCEPT !.priority = "COLD", !.phase = i.phase] \in MemoryIntent
    BY <2>1, <1>i, <1>l, Enumerations DEF MemoryIntent
  <2> QED
    BY <1>4, <2>1, NoIntentAssumption DEF MarkedCold, Raise, Ignore, placement
<1>5. ASSUME NEW b \in Blocks, NEW i \in Intents, NEW u \in BOOLEAN,
             Prefetched(b, i, u)
      PROVE  TypeOK'
  <2>1. CASE move_to_hbm(b, i)
    BY <2>1, <1>i, TypeMove
  <2> QED
    BY <1>5, <2>1, <1>i, NoIntentAssumption DEF Prefetched, Ignore, placement
<1>6. ASSUME NEW b \in Blocks, Spilled(b) PROVE TypeOK'
  <2>1. ASSUME b \in live_blocks
        PROVE  [intent[b] EXCEPT !.current_tier = "DRAM"] \in MemoryIntent
    BY <2>1, <1>l, Enumerations DEF MemoryIntent
  <2> QED
    BY <1>6, <2>1, NoIntentAssumption DEF Spilled, Ignore, placement
<1>7. ASSUME NEW b \in Blocks, Committed(b) \/ Evicted(b) \/ Freed(b) \/ Miss
      PROVE  TypeOK'
  BY <1>7 DEF Committed, Evicted, Freed, Miss, Ignore, Raise, placement
<1>8. CASE EvictOne
  <2>1. PICK v \in choose_victim(Candidates) : Displace(v)
    BY <1>8 DEF EvictOne
  <2>2. v \in hbm_blocks /\ v \in live_blocks
    BY VictimIsResident
  <2>3. PICK t \in TargetTiers(v) :
           /\ hbm_blocks' = hbm_blocks \ {v}
           /\ dram_blocks' = IF SpillFits(v, t)
                             THEN dram_blocks \cup {v} ELSE dram_blocks \ {v}
           /\ intent' = [intent EXCEPT ![v].current_tier = t]
    BY <2>1 DEF Displace
  <2>4. [intent[v] EXCEPT !.current_tier = t] \in MemoryIntent
    BY <2>2, <1>l, TargetIsTier DEF MemoryIntent
  <2> QED
    BY <1>8, <2>2, <2>3, <2>4, NoIntentAssumption DEF EvictOne
<1>9. CASE CapacityExhausted \/ EnsureDone \/ Finish \/ UNCHANGED vars
  BY <1>9 DEF CapacityExhausted, EnsureDone, Finish, placement, vars
<1> QED
  BY <1>1, <1>2, <1>3, <1>4, <1>5, <1>6, <1>7, <1>8, <1>9
  DEF Next, Event, Loop, Miss, Ignore, placement

\* Every state of the simulator is type correct: each handler and each loop
\* iteration leaves a record for exactly the live blocks.
THEOREM TypeCorrect == Spec => []TypeOK
<1>1. Init => TypeOK
  BY NoIntentAssumption DEF Init, TypeOK
<1> QED
  BY <1>1, TypeStep, PTL DEF Spec

-----------------------------------------------------------------------------
(***************************************************************************)
(* Residency and pinning: one inductive invariant                          *)
(***************************************************************************)
\* __post_init__ pins every decode-critical intent; the merges keep that.
CriticalIsPinned ==
    \A b \in live_blocks :
        intent[b].priority = "DECODE_CRITICAL" => intent[b].pin_requested

\* OneTierPerBlock needs NoDeadResident: a block ALLOCATED for the first time
\* is in neither set only because the sets hold live blocks.
Residency == TypeOK /\ NoDeadResident /\ OneTierPerBlock /\ CriticalIsPinned

\* Moving one block to HBM takes it out of DRAM, and keeps the record pinned
\* that __post_init__ pinned.
LEMMA ResidencyMove ==
    ASSUME Residency, NEW b \in Blocks, NEW i \in MemoryIntent,
           i.priority = "DECODE_CRITICAL" => i.pin_requested, move_to_hbm(b, i)
    PROVE  Residency'
<1> DEFINE new == [i EXCEPT !.current_tier = "HBM"]
<1>1. TypeOK'
  BY TypeMove DEF Residency
<1>2. /\ new.current_tier = "HBM" /\ new.priority = i.priority
      /\ new.pin_requested = i.pin_requested
  BY DEF MemoryIntent
<1>3. intent' = [intent EXCEPT ![b] = new] /\ intent \in [Blocks -> MemoryIntent \cup {NoIntent}]
  BY DEF move_to_hbm, Residency, TypeOK
<1>4. intent'[b] = new /\ \A c \in Blocks : c # b => intent'[c] = intent[c]
  BY <1>3
<1> QED
  BY <1>1, <1>2, <1>4
  DEF Residency, TypeOK, NoDeadResident, OneTierPerBlock, CriticalIsPinned, move_to_hbm

\* Residency is inductive: one step per event handler and per turn of the loop.
LEMMA ResidencyStep ==
    ASSUME Residency, [Next]_vars
    PROVE  Residency'
<1> USE DEF Residency, NoDeadResident, OneTierPerBlock, CriticalIsPinned
<1>t. TypeOK'
  BY TypeStep
<1>T. /\ intent \in [Blocks -> MemoryIntent \cup {NoIntent}]
      /\ live_blocks \subseteq Blocks
      /\ \A b \in live_blocks : intent[b] \in MemoryIntent
  BY DEF TypeOK
<1>i. ASSUME NEW i \in Intents
      PROVE  /\ i \in MemoryIntent
             /\ i.priority = "DECODE_CRITICAL" => i.pin_requested
  BY IntentsAssumption DEF Accepted
<1>1. ASSUME NEW b \in Blocks, NEW i \in Intents, Allocated(b, i) PROVE Residency'
  BY <1>1, <1>i, <1>t, <1>T DEF Allocated
<1>2. ASSUME NEW b \in Blocks, NEW i \in Intents, Accessed(b, i) PROVE Residency'
  <2>1. /\ AccessedIntent(b, i) \in MemoryIntent
        /\ AccessedIntent(b, i).priority = "DECODE_CRITICAL"
              => AccessedIntent(b, i).pin_requested
        /\ b \in live_blocks =>
              AccessedIntent(b, i).current_tier = intent[b].current_tier
    <3>1. AccessedIntent(b, i) \in MemoryIntent
      BY AccessedType
    <3>2. CASE b \in live_blocks
      <4>1. /\ AccessedIntent(b, i).priority = i.priority
            /\ AccessedIntent(b, i).pin_requested = i.pin_requested
            /\ AccessedIntent(b, i).current_tier = intent[b].current_tier
        BY <3>2, <1>T DEF AccessedIntent, MemoryIntent
      <4> QED
        BY <3>1, <4>1, <1>i
    <3>3. CASE b \notin live_blocks
      BY <3>1, <3>3, <1>i DEF AccessedIntent
    <3> QED
      BY <3>2, <3>3
  <2>2. CASE move_to_hbm(b, AccessedIntent(b, i))
    BY <2>1, <2>2, ResidencyMove
  <2>3. CASE Raise
    BY <2>3, <1>t DEF Raise, placement
  <2>4. CASE b \in hbm_blocks /\ intent' = [intent EXCEPT ![b] = AccessedIntent(b, i)]
             /\ live_blocks' = live_blocks \cup {b}
             /\ UNCHANGED <<hbm_blocks, dram_blocks>>
    BY <2>1, <2>4, <1>t, <1>T
  <2> QED
    BY <1>2, <2>2, <2>3, <2>4 DEF Accessed
<1>3. ASSUME NEW b \in Blocks, NEW i \in Intents, MarkedDecodeCritical(b, i)
      PROVE  Residency'
  <2> DEFINE base == IF b \in live_blocks THEN intent[b] ELSE i
             new == [base EXCEPT !.priority = "DECODE_CRITICAL",
                                 !.phase = i.phase, !.pin_requested = TRUE]
  <2>1. new.pin_requested = TRUE /\ new.current_tier = base.current_tier
    BY <1>i, <1>T DEF MemoryIntent
  <2>2. CASE Raise
    BY <2>2, <1>t DEF Raise, placement
  <2>3. CASE /\ intent' = [intent EXCEPT ![b] = new]
             /\ live_blocks' = live_blocks \cup {b}
             /\ UNCHANGED <<hbm_blocks, dram_blocks>>
    BY <2>1, <2>3, <1>t, <1>T
  <2> QED
    BY <1>3, <2>2, <2>3 DEF MarkedDecodeCritical
<1>4. ASSUME NEW b \in Blocks, NEW i \in Intents, MarkedCold(b, i) PROVE Residency'
  <2>1. CASE Raise \/ Ignore
    BY <2>1, <1>t DEF Raise, Ignore, placement
  <2>2. CASE /\ b \in live_blocks
             /\ intent' = [intent EXCEPT ![b].priority = "COLD", ![b].phase = i.phase]
             /\ UNCHANGED <<live_blocks, hbm_blocks, dram_blocks>>
    <3>1. /\ intent'[b].priority = "COLD"
          /\ intent'[b].current_tier = intent[b].current_tier
      BY <2>2, <1>T DEF MemoryIntent
    <3>2. \A c \in Blocks : c # b => intent'[c] = intent[c]
      BY <2>2, <1>T
    <3> QED
      BY <2>2, <3>1, <3>2, <1>t, <1>T
  <2> QED
    BY <1>4, <2>1, <2>2 DEF MarkedCold
<1>5. ASSUME NEW b \in Blocks, NEW i \in Intents, NEW u \in BOOLEAN,
             Prefetched(b, i, u)
      PROVE  Residency'
  <2>1. CASE move_to_hbm(b, i)
    BY <2>1, <1>i, ResidencyMove
  <2>2. CASE Ignore
    BY <2>2, <1>t DEF Ignore, placement
  <2>3. CASE /\ b \notin hbm_blocks /\ intent' = [intent EXCEPT ![b] = i]
             /\ UNCHANGED <<live_blocks, hbm_blocks, dram_blocks>>
    BY <2>3, <1>i, <1>t, <1>T
  <2> QED
    BY <1>5, <2>1, <2>2, <2>3 DEF Prefetched
<1>6. ASSUME NEW b \in Blocks, Spilled(b) PROVE Residency'
  <2>1. CASE Ignore
    BY <2>1, <1>t DEF Ignore, placement
  <2>2. CASE /\ b \in live_blocks
             /\ hbm_blocks' = hbm_blocks \ {b} /\ dram_blocks' = dram_blocks \cup {b}
             /\ intent' = [intent EXCEPT ![b].current_tier = "DRAM"]
             /\ UNCHANGED live_blocks
    <3>1. /\ intent'[b].priority = intent[b].priority
          /\ intent'[b].pin_requested = intent[b].pin_requested
      BY <2>2, <1>T DEF MemoryIntent
    <3>2. \A c \in Blocks : c # b => intent'[c] = intent[c]
      BY <2>2, <1>T
    <3> QED
      BY <2>2, <3>1, <3>2, <1>t, <1>T
  <2> QED
    BY <1>6, <2>1, <2>2 DEF Spilled
<1>7. ASSUME NEW b \in Blocks, Committed(b) \/ Evicted(b) \/ Miss PROVE Residency'
  BY <1>7, <1>t DEF Committed, Evicted, Miss, Ignore, Raise, placement
<1>8. ASSUME NEW b \in Blocks, Freed(b) PROVE Residency'
  BY <1>8, <1>t, <1>T DEF Freed
<1>9. CASE EvictOne
  <2>1. PICK v \in choose_victim(Candidates) : Displace(v)
    BY <1>9 DEF EvictOne
  <2>2. v \in hbm_blocks /\ v \in live_blocks
    BY VictimIsResident
  <2>3. PICK t \in TargetTiers(v) :
           /\ hbm_blocks' = hbm_blocks \ {v}
           /\ dram_blocks' = IF SpillFits(v, t)
                             THEN dram_blocks \cup {v} ELSE dram_blocks \ {v}
           /\ intent' = [intent EXCEPT ![v].current_tier = t]
    BY <2>1 DEF Displace
  <2>4. /\ intent'[v].priority = intent[v].priority
        /\ intent'[v].pin_requested = intent[v].pin_requested
    BY <2>2, <2>3, <1>T DEF MemoryIntent
  <2>5. \A c \in Blocks : c # v => intent'[c] = intent[c]
    BY <2>3, <1>T
  <2>6. live_blocks' = live_blocks
    BY <1>9 DEF EvictOne
  <2> QED
    BY <2>2, <2>3, <2>4, <2>5, <2>6, <1>t, <1>T
<1>10. CASE CapacityExhausted \/ EnsureDone \/ Finish \/ UNCHANGED vars
  BY <1>10, <1>t DEF CapacityExhausted, EnsureDone, Finish, placement, vars
<1>11. CASE Miss
  BY <1>11, <1>t DEF Miss, Ignore, placement
<1> QED
  BY <1>1, <1>2, <1>3, <1>4, <1>5, <1>6, <1>7, <1>8, <1>9, <1>10, <1>11
  DEF Next, Event, Loop

\* Residency holds in every state of every run.
LEMMA ResidencyInvariant == Spec => []Residency
<1>1. Init => Residency
  BY NoIntentAssumption
  DEF Init, Residency, TypeOK, NoDeadResident, OneTierPerBlock, CriticalIsPinned
<1> QED
  BY <1>1, ResidencyStep, PTL DEF Spec

\* The tier sets hold live blocks only, on any trace and under every policy.
THEOREM NoDeadResidentHolds == Spec => []NoDeadResident
BY ResidencyInvariant, PTL DEF Residency

\* A block is charged to one tier only and a block in HBM says so, unless the
\* trace allocates live blocks again.
THEOREM OneTierPerBlockHolds == Spec => []OneTierPerBlock
BY ResidencyInvariant, PTL DEF Residency

-----------------------------------------------------------------------------
(***************************************************************************)
(* Capacity pressure and decode-critical blocks                            *)
(***************************************************************************)
\* Under the intent policies no capacity loop, however long, takes a block of
\* priority DECODE_CRITICAL out of HBM.
THEOREM DecodeCriticalProtected == Spec => DecodeCriticalStaysResident
<1>1. ASSUME Residency, [Next]_vars
      PROVE  [pc = "ensure" /\ Policy \in IntentPolicies =>
                \A b \in hbm_blocks \ hbm_blocks' :
                   intent[b].priority # "DECODE_CRITICAL"]_vars
  <2> SUFFICES ASSUME pc = "ensure", Policy \in IntentPolicies,
                      NEW b \in hbm_blocks \ hbm_blocks'
               PROVE  intent[b].priority # "DECODE_CRITICAL"
    OBVIOUS
  <2>1. EvictOne
    BY <1>1 DEF Next, Event, Loop, Allocated, Accessed, MarkedDecodeCritical,
                MarkedCold, Prefetched, Committed, Spilled, Evicted, Freed, Miss,
                CapacityExhausted, EnsureDone, Finish, placement, vars
  <2>2. PICK v \in choose_victim(Candidates) : Displace(v)
    BY <2>1 DEF EvictOne
  <2>3. b = v
    BY <2>2 DEF Displace
  <2>4. ~ intent[v].pin_requested
    BY <2>1, <2>2 DEF EvictOne, choose_victim, AllPinned
  <2>5. v \in live_blocks
    BY VictimIsResident
  <2> QED
    BY <1>1, <2>3, <2>4, <2>5 DEF Residency, CriticalIsPinned
<1> QED
  BY <1>1, ResidencyInvariant, PTL DEF Spec, DecodeCriticalStaysResident

-----------------------------------------------------------------------------
(***************************************************************************)
(* Why the capacity loop ends                                              *)
(***************************************************************************)
\* _used_bytes reads nothing but the resident live blocks and their sizes.
LEMMA UsedUnchanged ==
    ASSUME UNCHANGED placement
    PROVE  hbm_used' = hbm_used
<1>1. intent' = intent /\ hbm_blocks' = hbm_blocks /\ live_blocks' = live_blocks
  BY DEF placement
<1> QED
  BY <1>1 DEF hbm_used

\* The loop is left by its two exits only.  On the exit for pinned blocks all of
\* hbm_blocks is pinned, and not just the live part that the loop looks at,
\* because no dead block is left in the set.
LEMMA LoopExit ==
    ASSUME NoDeadResident, [Next]_vars, pc = "ensure", pc' = "finish"
    PROVE  \/ ~ (hbm_used' > HbmCapacity)
           \/ /\ Policy \in IntentPolicies
              /\ \A b \in hbm_blocks' : intent'[b].pin_requested
<1>1. CapacityExhausted \/ EnsureDone
  BY DEF Next, vars, Event, Loop, Finish, EvictOne, Miss, Allocated, Accessed,
         MarkedDecodeCritical, MarkedCold, Prefetched, Committed, Spilled,
         Evicted, Freed
<1>2. CASE CapacityExhausted
  BY <1>2 DEF CapacityExhausted, placement, AllPinned, Candidates, NoDeadResident
<1>3. CASE EnsureDone
  BY <1>3, UsedUnchanged DEF EnsureDone, OverCapacity
<1> QED
  BY <1>1, <1>2, <1>3

\* The capacity loop ends with HBM within capacity or, for the intent policies
\* only, with nothing but pinned blocks in HBM.
THEOREM LoopEndsForAReason == Spec => LoopEndsWithCause
<1>1. ASSUME Residency, [Next]_vars
      PROVE  [pc = "ensure" /\ pc' = "finish" =>
                \/ ~ (hbm_used' > HbmCapacity)
                \/ /\ Policy \in IntentPolicies
                   /\ \A b \in hbm_blocks' : intent'[b].pin_requested]_vars
  BY <1>1, LoopExit DEF Residency
<1> QED
  BY <1>1, ResidencyInvariant, PTL DEF Spec, LoopEndsWithCause

-----------------------------------------------------------------------------
(***************************************************************************)
(* The bytes in a tier                                                     *)
(***************************************************************************)
\* _used_bytes is a sum of sizes, whatever intents the sizes come from.
LEMMA UsedIsSum ==
    ASSUME NEW ids, IsFiniteSet(ids), NEW info, NEW f,
           \A b \in ids : f[b] = info[b].size_bytes
    PROVE  used_bytes(ids, info) = SumOver(f, ids)
<1> DEFINE Table(g) == g = [s \in SUBSET ids |->
                IF s = {} THEN 0
                ELSE info[CHOOSE x \in s : TRUE].size_bytes
                     + g[s \ {CHOOSE x \in s : TRUE}]]
           g0 == CHOOSE g : Table(g)
           h0 == CHOOSE g : SumsOf(g, f, ids)
<1>1. used_bytes(ids, info) = g0[ids]
  BY DEF used_bytes, MapThenSumSet, MapThenFoldSet
<1>2. ASSUME NEW g PROVE Table(g) <=> SumsOf(g, f, ids)
  <2>1. ASSUME NEW s \in SUBSET ids, s # {}
        PROVE  f[CHOOSE x \in s : TRUE] = info[CHOOSE x \in s : TRUE].size_bytes
    <3> DEFINE x == CHOOSE x \in s : TRUE
    <3>1. x \in ids
      BY <2>1
    <3> HIDE DEF x
    <3>2. f[x] = info[x].size_bytes
      BY <3>1
    <3> QED
      BY <3>2 DEF x
  <2> QED
    BY <2>1 DEF SumsOf
<1>3. SumsOf(h0, f, ids)
  BY SumsExist
<1> HIDE DEF Table
<1>4. SumsOf(g0, f, ids)
  BY <1>2, SumsExist
<1> HIDE DEF g0, h0
<1>5. g0[ids] = h0[ids]
  BY <1>3, <1>4, SumsUnique
<1> QED
  BY <1>1, <1>5 DEF SumOver, h0

\* Fewer blocks, of the same sizes, use no more bytes.
LEMMA UsedMonotone ==
    ASSUME NEW S, IsFiniteSet(S), NEW R \in SUBSET S, NEW old, NEW new,
           \A b \in S : old[b].size_bytes \in Nat,
           \A b \in R : new[b].size_bytes = old[b].size_bytes
    PROVE  used_bytes(R, new) <= used_bytes(S, old)
<1> DEFINE f == [b \in S |-> old[b].size_bytes]
           g == [b \in R |-> new[b].size_bytes]
<1>1. used_bytes(S, old) = SumOver(f, S)
  <2>1. \A b \in S : f[b] = old[b].size_bytes
    OBVIOUS
  <2> HIDE DEF f
  <2> QED
    BY <2>1, UsedIsSum
<1>2. used_bytes(R, new) = SumOver(g, R)
  <2>1. \A b \in R : g[b] = new[b].size_bytes
    OBVIOUS
  <2> HIDE DEF g
  <2> QED
    BY <2>1, UsedIsSum, FS_Subset
<1>3. /\ \A b \in S : f[b] \in Nat
      /\ \A b \in R : g[b] \in Nat /\ g[b] <= f[b]
  OBVIOUS
<1> HIDE DEF f, g
<1> QED
  BY <1>1, <1>2, <1>3, SumMonotone

\* The bytes in a tier are a natural number.
LEMMA UsedIsNat ==
    ASSUME NEW S, IsFiniteSet(S), NEW info, \A b \in S : info[b].size_bytes \in Nat
    PROVE  used_bytes(S, info) \in Nat
<1> DEFINE f == [b \in S |-> info[b].size_bytes]
<1>1. \A b \in S : f[b] = info[b].size_bytes /\ f[b] \in Nat
  OBVIOUS
<1> HIDE DEF f
<1> QED
  BY <1>1, UsedIsSum, SumIsNat

\* A block more takes its size more.
LEMMA UsedAdd ==
    ASSUME NEW S, IsFiniteSet(S), NEW v, v \notin S, NEW info,
           \A b \in S \cup {v} : info[b].size_bytes \in Nat
    PROVE  used_bytes(S \cup {v}, info) = info[v].size_bytes + used_bytes(S, info)
<1> DEFINE f == [b \in S \cup {v} |-> info[b].size_bytes]
<1>1. \A b \in S \cup {v} : f[b] = info[b].size_bytes /\ f[b] \in Nat
  OBVIOUS
<1> HIDE DEF f
<1>2. IsFiniteSet(S \cup {v}) /\ (S \cup {v}) \ {v} = S
  BY FS_AddElement
<1>3. SumOver(f, S \cup {v}) = f[v] + SumOver(f, (S \cup {v}) \ {v})
  BY <1>1, <1>2, SumRemove
<1>4. used_bytes(S \cup {v}, info) = SumOver(f, S \cup {v})
  BY <1>1, <1>2, UsedIsSum
<1>5. used_bytes(S, info) = SumOver(f, S)
  BY <1>1, UsedIsSum
<1> QED
  BY <1>1, <1>2, <1>3, <1>4, <1>5

-----------------------------------------------------------------------------
(***************************************************************************)
(* HBM stays within its capacity                                           *)
(***************************************************************************)
\* No block comes into HBM, and those that stay keep their size.
HbmShrinks ==
    /\ hbm_blocks' \subseteq hbm_blocks
    /\ \A c \in hbm_blocks' : intent'[c].size_bytes = intent[c].size_bytes

\* Only finitely many blocks are live, though any number may occur in a trace.
Counted == Residency /\ IsFiniteSet(live_blocks)

\* One event makes at most one block live.
LEMMA OneBlockMore ==
    ASSUME [Next]_vars
    PROVE  \E b : live_blocks' \subseteq live_blocks \cup {b}
<1>1. CASE Miss \/ Loop \/ Finish \/ UNCHANGED vars
  <2>1. live_blocks' = live_blocks
    BY <1>1 DEF Miss, Ignore, Loop, EvictOne, CapacityExhausted, EnsureDone, Finish,
                placement, vars
  <2> QED
    BY <2>1
<1>2. ASSUME NEW b \in Blocks, NEW i \in Intents,
             \/ Allocated(b, i) \/ Accessed(b, i) \/ MarkedDecodeCritical(b, i)
             \/ MarkedCold(b, i) \/ \E u \in BOOLEAN : Prefetched(b, i, u)
      PROVE  live_blocks' \subseteq live_blocks \cup {b}
  BY <1>2 DEF Allocated, Accessed, MarkedDecodeCritical, MarkedCold, Prefetched,
              Raise, Ignore, move_to_hbm, placement
<1>3. ASSUME NEW b \in Blocks, Committed(b) \/ Spilled(b) \/ Evicted(b) \/ Freed(b)
      PROVE  live_blocks' \subseteq live_blocks \cup {b}
  BY <1>3 DEF Committed, Spilled, Evicted, Freed, Raise, Ignore, placement
<1> QED
  BY <1>1, <1>2, <1>3 DEF Next, Event

\* Counted is inductive.
LEMMA CountedStep ==
    ASSUME Counted, [Next]_vars
    PROVE  Counted'
<1>1. PICK b : live_blocks' \subseteq live_blocks \cup {b}
  BY OneBlockMore
<1>2. IsFiniteSet(live_blocks \cup {b})
  BY FS_AddElement DEF Counted
<1>3. IsFiniteSet(live_blocks')
  BY <1>1, <1>2, FS_Subset
<1> QED
  BY <1>3, ResidencyStep DEF Counted

\* The blocks in HBM have sizes, and _used_bytes counts all of them.
LEMMA HbmIsCounted ==
    ASSUME Counted
    PROVE  /\ hbm_blocks \cap live_blocks = hbm_blocks
           /\ IsFiniteSet(hbm_blocks)
           /\ \A b \in hbm_blocks : intent[b].size_bytes \in Nat
           /\ hbm_used \in Nat
<1>1. hbm_blocks \subseteq live_blocks
  BY DEF Counted, Residency, NoDeadResident
<1>2. \A b \in hbm_blocks : intent[b].size_bytes \in Nat
  BY <1>1 DEF Counted, Residency, TypeOK, MemoryIntent
<1>3. hbm_blocks \cap live_blocks = hbm_blocks /\ IsFiniteSet(hbm_blocks)
  BY <1>1, FS_Subset DEF Counted
<1> QED
  BY <1>2, <1>3, UsedIsNat DEF hbm_used

\* So do those of the next state.
LEMMA HbmIsCountedNext ==
    ASSUME Counted'
    PROVE  hbm_used' \in Nat
<1>1. hbm_blocks' \subseteq live_blocks' /\ IsFiniteSet(live_blocks')
  BY DEF Counted, Residency, NoDeadResident
<1>2. \A b \in hbm_blocks' : intent'[b].size_bytes \in Nat
  BY <1>1 DEF Counted, Residency, TypeOK, MemoryIntent
<1>3. hbm_blocks' \cap live_blocks' = hbm_blocks' /\ IsFiniteSet(hbm_blocks')
  BY <1>1, FS_Subset
<1> QED
  BY <1>2, <1>3, UsedIsNat DEF hbm_used

\* The bytes in HBM do not grow when HBM shrinks.
LEMMA UsedShrinks ==
    ASSUME Counted, Counted', HbmShrinks
    PROVE  hbm_used' <= hbm_used
<1>1. /\ hbm_used = used_bytes(hbm_blocks, intent)
      /\ IsFiniteSet(hbm_blocks) /\ \A b \in hbm_blocks : intent[b].size_bytes \in Nat
  BY HbmIsCounted DEF hbm_used
<1>2. hbm_used' = used_bytes(hbm_blocks', intent')
  <2>1. hbm_blocks' \cap live_blocks' = hbm_blocks'
    BY DEF Counted, Residency, NoDeadResident
  <2> QED
    BY <2>1 DEF hbm_used
<1> QED
  BY <1>1, <1>2, UsedMonotone DEF HbmShrinks

\* An event other than the allocation of a block that is already live.
FirstUseEvent ==
    \/ Miss
    \/ \E b \in Blocks :
          \/ \E i \in Intents :
                \/ b \notin live_blocks /\ Allocated(b, i)
                \/ Accessed(b, i)
                \/ MarkedDecodeCritical(b, i)
                \/ MarkedCold(b, i)
                \/ \E urgent \in BOOLEAN : Prefetched(b, i, urgent)
          \/ Committed(b)
          \/ Spilled(b)
          \/ Evicted(b)
          \/ Freed(b)

\* Such an event brings nothing into HBM, unless it enters the capacity loop.
LEMMA EventShrinksHbm ==
    ASSUME Residency, FirstUseEvent, pc' # "ensure"
    PROVE  HbmShrinks
<1>T. /\ intent \in [Blocks -> MemoryIntent \cup {NoIntent}]
      /\ live_blocks \subseteq Blocks
      /\ \A b \in live_blocks : intent[b] \in MemoryIntent
      /\ hbm_blocks \subseteq live_blocks
  BY DEF Residency, TypeOK, NoDeadResident
<1>s. ASSUME hbm_blocks' \subseteq hbm_blocks, UNCHANGED intent
      PROVE  HbmShrinks
  BY <1>s DEF HbmShrinks
<1>o. ASSUME NEW b \in Blocks, NEW new, b \notin hbm_blocks, UNCHANGED hbm_blocks,
             intent' = [intent EXCEPT ![b] = new]
      PROVE  HbmShrinks
  BY <1>o, <1>T DEF HbmShrinks
<1>k. ASSUME NEW b \in live_blocks, NEW new, hbm_blocks' \subseteq hbm_blocks,
             new.size_bytes = intent[b].size_bytes,
             intent' = [intent EXCEPT ![b] = new]
      PROVE  HbmShrinks
  BY <1>k, <1>T DEF HbmShrinks
<1>1. ASSUME NEW b \in Blocks, NEW i \in Intents, b \notin live_blocks, Allocated(b, i)
      PROVE  HbmShrinks
  BY <1>1, <1>o, <1>T DEF Allocated
<1>2. ASSUME NEW b \in Blocks, NEW i \in Intents, Accessed(b, i) PROVE HbmShrinks
  <2>1. CASE Raise
    BY <2>1, <1>s DEF Raise, placement
  <2>2. CASE b \in hbm_blocks /\ intent' = [intent EXCEPT ![b] = AccessedIntent(b, i)]
             /\ UNCHANGED hbm_blocks
    <3>1. AccessedIntent(b, i).size_bytes = intent[b].size_bytes
      BY <2>2, <1>T DEF AccessedIntent, MemoryIntent
    <3> QED
      BY <2>2, <3>1, <1>k, <1>T
  <2> QED
    BY <1>2, <2>1, <2>2 DEF Accessed, move_to_hbm
<1>3. ASSUME NEW b \in Blocks, NEW i \in Intents, MarkedDecodeCritical(b, i)
      PROVE  HbmShrinks
  <2> DEFINE base == IF b \in live_blocks THEN intent[b] ELSE i
             new == [base EXCEPT !.priority = "DECODE_CRITICAL",
                                 !.phase = i.phase, !.pin_requested = TRUE]
  <2>1. CASE Raise
    BY <2>1, <1>s DEF Raise, placement
  <2>2. CASE intent' = [intent EXCEPT ![b] = new] /\ UNCHANGED hbm_blocks
    <3>1. b \in live_blocks => new.size_bytes = intent[b].size_bytes
      BY <1>T DEF MemoryIntent
    <3> HIDE DEF new
    <3> QED
      BY <2>2, <3>1, <1>k, <1>o, <1>T
  <2> QED
    BY <1>3, <2>1, <2>2 DEF MarkedDecodeCritical
<1>4. ASSUME NEW b \in Blocks, NEW i \in Intents, MarkedCold(b, i) PROVE HbmShrinks
  <2>1. CASE Raise \/ Ignore
    BY <2>1, <1>s DEF Raise, Ignore, placement
  <2>2. CASE b \in live_blocks /\ UNCHANGED hbm_blocks
             /\ intent' = [intent EXCEPT ![b].priority = "COLD", ![b].phase = i.phase]
    <3>1. intent'[b].size_bytes = intent[b].size_bytes
      BY <2>2, <1>T DEF MemoryIntent
    <3>2. \A c \in Blocks : c # b => intent'[c] = intent[c]
      BY <2>2, <1>T
    <3> QED
      BY <2>2, <3>1, <3>2, <1>T DEF HbmShrinks
  <2> QED
    BY <1>4, <2>1, <2>2 DEF MarkedCold
<1>5. ASSUME NEW b \in Blocks, NEW i \in Intents, NEW u \in BOOLEAN,
             Prefetched(b, i, u)
      PROVE  HbmShrinks
  <2>1. CASE Ignore
    BY <2>1, <1>s DEF Ignore, placement
  <2> QED
    BY <1>5, <2>1, <1>o DEF Prefetched, move_to_hbm
<1>6. ASSUME NEW b \in Blocks, Spilled(b) PROVE HbmShrinks
  <2>1. CASE Ignore
    BY <2>1, <1>s DEF Ignore, placement
  <2>2. CASE b \in live_blocks /\ hbm_blocks' = hbm_blocks \ {b}
             /\ intent' = [intent EXCEPT ![b].current_tier = "DRAM"]
    BY <2>2, <1>T DEF HbmShrinks
  <2> QED
    BY <1>6, <2>1, <2>2 DEF Spilled
<1>7. ASSUME NEW b \in Blocks, Committed(b) \/ Evicted(b) PROVE HbmShrinks
  BY <1>7, <1>s DEF Committed, Evicted, Raise, Ignore, placement
<1>8. ASSUME NEW b \in Blocks, Freed(b) PROVE HbmShrinks
  BY <1>8, <1>T DEF Freed, HbmShrinks
<1>9. CASE Miss
  BY <1>9, <1>s DEF Miss, Ignore, placement
<1> QED
  BY <1>1, <1>2, <1>3, <1>4, <1>5, <1>6, <1>7, <1>8, <1>9 DEF FirstUseEvent

\* Between the end of the loop and the next event nothing grows.
WithinCapacityAfterLoop ==
    Policy \in RecencyPolicies /\ ~ Realloc /\ pc \in {"idle", "finish"} =>
        hbm_used <= HbmCapacity

\* Usage is inductive: an event that leaves out the loop shrinks HBM, and the
\* recency policies leave the loop only within capacity.
LEMMA UsageStep ==
    ASSUME Counted, WithinCapacityAfterLoop, [Next]_vars
    PROVE  WithinCapacityAfterLoop'
<1> SUFFICES ASSUME Policy \in RecencyPolicies, ~ Realloc, pc' \in {"idle", "finish"}
             PROVE  hbm_used' <= HbmCapacity
  BY DEF WithinCapacityAfterLoop
<1>n. HbmCapacity \in Nat /\ hbm_used \in Nat /\ hbm_used' \in Nat
  <2>1. hbm_used' \in Nat
    BY CountedStep, HbmIsCountedNext
  <2> QED
    BY <2>1, HbmIsCounted, CapacityAssumption
<1>1. CASE Event
  <2>1. pc = "idle"
    BY <1>1 DEF Event, Miss, Allocated, Accessed, MarkedDecodeCritical, MarkedCold,
                Prefetched, Committed, Spilled, Evicted, Freed
  <2>2. HbmShrinks
    <3>1. FirstUseEvent
      BY <1>1 DEF Event, FirstUseEvent, Allocated
    <3> QED
      BY <3>1, EventShrinksHbm DEF Counted
  <2>3. hbm_used' <= hbm_used
    BY <2>2, CountedStep, UsedShrinks
  <2> QED
    BY <1>n, <2>1, <2>3 DEF WithinCapacityAfterLoop
<1>2. CASE Loop
  <2>1. EnsureDone
    BY <1>2 DEF Loop, EvictOne, CapacityExhausted, RecencyPolicies, IntentPolicies
  <2> QED
    BY <1>n, <2>1, UsedUnchanged DEF EnsureDone, OverCapacity
<1>3. CASE Finish
  BY <1>3, UsedUnchanged DEF Finish, WithinCapacityAfterLoop
<1>4. CASE UNCHANGED vars
  BY <1>4, UsedUnchanged DEF vars, placement, WithinCapacityAfterLoop
<1> QED
  BY <1>1, <1>2, <1>3, <1>4 DEF Next

\* Nothing is live at first.
LEMMA CountedInit == Init => Counted /\ hbm_used = 0
<1> SUFFICES ASSUME Init PROVE Counted /\ hbm_used = 0
  OBVIOUS
<1>1. Residency
  BY NoIntentAssumption
  DEF Init, Residency, TypeOK, NoDeadResident, OneTierPerBlock, CriticalIsPinned
<1>2. live_blocks = {} /\ hbm_blocks \cap live_blocks = {}
  BY DEF Init
<1>3. Counted
  BY <1>1, <1>2, FS_EmptySet DEF Counted
<1> DEFINE f == [b \in {} |-> 0]
<1>4. used_bytes({}, intent) = SumOver(f, {})
  <2>1. \A b \in {} : f[b] = intent[b].size_bytes
    OBVIOUS
  <2> QED
    BY <2>1, UsedIsSum, FS_EmptySet
<1> HIDE DEF f
<1> QED
  BY <1>2, <1>3, <1>4, SumEmpty DEF hbm_used

\* Under LRU, HotCold and PredictiveHotness, which ignore pins, HBM is within its
\* capacity whenever an event has been handled, whatever the trace does, short of
\* allocating a live block again.
THEOREM CapacityIsRespected == Spec => []CapacityRespected
<1>1. Init => Counted /\ WithinCapacityAfterLoop
  BY CountedInit, CapacityAssumption DEF WithinCapacityAfterLoop
<1>2. Counted /\ WithinCapacityAfterLoop /\ [Next]_vars
         => Counted' /\ WithinCapacityAfterLoop'
  BY CountedStep, UsageStep
<1>3. WithinCapacityAfterLoop => CapacityRespected
  BY DEF WithinCapacityAfterLoop, CapacityRespected
<1> QED
  BY <1>1, <1>2, <1>3, PTL DEF Spec

-----------------------------------------------------------------------------
(***************************************************************************)
(* When the simulator cannot raise                                         *)
(***************************************************************************)
\* Every intent of the trace allows HBM and some other tier.
WellTiered(i) == "HBM" \in i.allowed_tiers /\ i.allowed_tiers # {"HBM"}

\* The loop assigns current_tier without validation, so TierAllowed is not
\* inductive on its own: the live blocks must also stay well tiered.
TierInvariant ==
    /\ TypeOK
    /\ \A b \in live_blocks : WellTiered(intent[b]) /\ TierIsAllowed(intent[b])
    /\ NeverRaises

\* If every intent of the trace allows HBM and another tier, each handler and
\* each displacement leaves a record whose tier its allowed tiers contain.
LEMMA TierStep ==
    ASSUME \A i \in Intents : WellTiered(i), TierInvariant, [Next]_vars
    PROVE  TierInvariant'
<1> USE DEF NeverRaises
<1> DEFINE Good(i) == WellTiered(i) /\ TierIsAllowed(i)
<1>t. TypeOK'
  BY TypeStep DEF TierInvariant
<1>T. /\ intent \in [Blocks -> MemoryIntent \cup {NoIntent}]
      /\ live_blocks \subseteq Blocks
      /\ \A b \in live_blocks : intent[b] \in MemoryIntent
      /\ \A b \in live_blocks : Good(intent[b])
  BY DEF TierInvariant, TypeOK
<1>n. \A b \in live_blocks : TierIsAllowed(intent[b])
  BY DEF TierInvariant
<1>i. ASSUME NEW i \in Intents PROVE i \in MemoryIntent /\ Good(i)
  BY IntentsAssumption DEF Accepted
<1>m. ASSUME NEW b \in Blocks, NEW i \in MemoryIntent, WellTiered(i), move_to_hbm(b, i)
      PROVE  TierInvariant'
  <2>1. Good([i EXCEPT !.current_tier = "HBM"])
    BY <1>m DEF MemoryIntent, WellTiered, TierIsAllowed
  <2>2. /\ intent'[b] = [i EXCEPT !.current_tier = "HBM"]
        /\ \A c \in Blocks : c # b => intent'[c] = intent[c]
    BY <1>m, <1>T DEF move_to_hbm
  <2> QED
    BY <1>m, <1>t, <1>T, <2>1, <2>2 DEF TierInvariant, move_to_hbm
<1>u. ASSUME NEW b \in Blocks, Good(intent'[b]), pc' # "raised",
             live_blocks' \subseteq live_blocks \cup {b},
             \A c \in Blocks : c # b => intent'[c] = intent[c]
      PROVE  TierInvariant'
  BY <1>u, <1>t, <1>T DEF TierInvariant
<1>s. ASSUME live_blocks' \subseteq live_blocks, pc' # "raised",
             \A c \in live_blocks' : intent'[c] = intent[c]
      PROVE  TierInvariant'
  BY <1>s, <1>t, <1>T DEF TierInvariant
<1>1. ASSUME NEW b \in Blocks, NEW i \in Intents, Allocated(b, i)
      PROVE  TierInvariant'
  BY <1>1, <1>i, <1>u, <1>T DEF Allocated
<1>2. ASSUME NEW b \in Blocks, NEW i \in Intents, Accessed(b, i)
      PROVE  TierInvariant'
  <2>1. AccessedIntent(b, i) \in MemoryIntent /\ Good(AccessedIntent(b, i))
    <3>1. AccessedIntent(b, i) \in MemoryIntent
      BY AccessedType DEF TierInvariant
    <3>2. CASE b \in live_blocks
      <4>1. /\ AccessedIntent(b, i).allowed_tiers = intent[b].allowed_tiers
            /\ AccessedIntent(b, i).current_tier = intent[b].current_tier
        BY <3>2, <1>T DEF AccessedIntent, MemoryIntent
      <4> QED
        BY <3>1, <3>2, <4>1, <1>T DEF WellTiered, TierIsAllowed
    <3>3. CASE b \notin live_blocks
      BY <3>1, <3>3, <1>i DEF AccessedIntent
    <3> QED
      BY <3>2, <3>3
  <2>2. CASE move_to_hbm(b, AccessedIntent(b, i))
    BY <2>1, <2>2, <1>m
  <2>3. CASE /\ intent' = [intent EXCEPT ![b] = AccessedIntent(b, i)]
             /\ live_blocks' = live_blocks \cup {b} /\ pc' = "finish"
    BY <2>1, <2>3, <1>u, <1>T
  <2> QED
    BY <1>2, <2>2, <2>3, <1>n DEF Accessed
<1>3. ASSUME NEW b \in Blocks, NEW i \in Intents, MarkedDecodeCritical(b, i)
      PROVE  TierInvariant'
  <2> DEFINE base == IF b \in live_blocks THEN intent[b] ELSE i
             new == [base EXCEPT !.priority = "DECODE_CRITICAL",
                                 !.phase = i.phase, !.pin_requested = TRUE]
  <2>1. base \in MemoryIntent /\ Good(base)
    BY <1>i, <1>T
  <2>2. new.allowed_tiers = base.allowed_tiers /\ new.current_tier = base.current_tier
    BY <2>1 DEF MemoryIntent
  <2>3. Good(new)
    BY <2>1, <2>2 DEF WellTiered, TierIsAllowed
  <2>4. /\ intent' = [intent EXCEPT ![b] = new]
        /\ live_blocks' = live_blocks \cup {b} /\ pc' = "finish"
    BY <1>3, <1>n DEF MarkedDecodeCritical
  <2> QED
    BY <2>3, <2>4, <1>u, <1>T
<1>4. ASSUME NEW b \in Blocks, NEW i \in Intents, MarkedCold(b, i)
      PROVE  TierInvariant'
  <2>1. CASE Ignore
    BY <2>1, <1>s DEF Ignore, placement
  <2>2. CASE /\ b \in live_blocks /\ live_blocks' = live_blocks /\ pc' = "finish"
             /\ intent' = [intent EXCEPT ![b].priority = "COLD", ![b].phase = i.phase]
    <3>1. /\ intent'[b].allowed_tiers = intent[b].allowed_tiers
          /\ intent'[b].current_tier = intent[b].current_tier
      BY <2>2, <1>T DEF MemoryIntent
    <3>2. Good(intent'[b])
      BY <2>2, <3>1, <1>T DEF WellTiered, TierIsAllowed
    <3> QED
      BY <2>2, <3>2, <1>u, <1>T
  <2> QED
    BY <1>4, <2>1, <2>2, <1>n DEF MarkedCold
<1>5. ASSUME NEW b \in Blocks, NEW i \in Intents, NEW u \in BOOLEAN,
             Prefetched(b, i, u)
      PROVE  TierInvariant'
  <2>1. CASE move_to_hbm(b, i)
    BY <2>1, <1>i, <1>m
  <2>2. CASE Ignore
    BY <2>2, <1>s DEF Ignore, placement
  <2>3. CASE /\ intent' = [intent EXCEPT ![b] = i] /\ pc' = "finish"
             /\ live_blocks' = live_blocks
    BY <2>3, <1>i, <1>u, <1>T
  <2> QED
    BY <1>5, <2>1, <2>2, <2>3 DEF Prefetched
<1>6. ASSUME NEW b \in Blocks, Spilled(b) PROVE TierInvariant'
  <2>1. CASE Ignore
    BY <2>1, <1>s DEF Ignore, placement
  <2>2. CASE /\ b \in live_blocks /\ "DRAM" \in intent[b].allowed_tiers
             /\ intent' = [intent EXCEPT ![b].current_tier = "DRAM"]
             /\ live_blocks' = live_blocks /\ pc' = "finish"
    <3>1. /\ intent'[b].allowed_tiers = intent[b].allowed_tiers
          /\ intent'[b].current_tier = "DRAM"
      BY <2>2, <1>T DEF MemoryIntent
    <3>2. Good(intent'[b])
      BY <2>2, <3>1, <1>T DEF WellTiered, TierIsAllowed
    <3> QED
      BY <2>2, <3>2, <1>u, <1>T
  <2> QED
    BY <1>6, <2>1, <2>2 DEF Spilled
<1>7. ASSUME NEW b \in Blocks, Committed(b) \/ Evicted(b) \/ Freed(b)
      PROVE  TierInvariant'
  <2>1. CASE Committed(b)
    BY <2>1, <1>s, <1>n DEF Committed, Ignore, placement
  <2>2. CASE Evicted(b)
    BY <2>2, <1>s DEF Evicted
  <2>3. CASE Freed(b)
    BY <2>3, <1>s, <1>T DEF Freed
  <2> QED
    BY <1>7, <2>1, <2>2, <2>3
<1>8. CASE EvictOne
  <2>1. PICK v \in choose_victim(Candidates) : Displace(v)
    BY <1>8 DEF EvictOne
  <2>2. v \in hbm_blocks /\ v \in live_blocks
    BY VictimIsResident
  <2>3. PICK t \in TargetTiers(v) : intent' = [intent EXCEPT ![v].current_tier = t]
    BY <2>1 DEF Displace
  <2>4. t \in intent[v].allowed_tiers
    BY <2>2, <1>T DEF TargetTiers, fallback_tiers, WellTiered
  <2>5. /\ intent'[v].allowed_tiers = intent[v].allowed_tiers
        /\ intent'[v].current_tier = t
    BY <2>2, <2>3, <1>T DEF MemoryIntent
  <2>6. Good(intent'[v])
    BY <2>2, <2>4, <2>5, <1>T DEF WellTiered, TierIsAllowed
  <2>7. v \in Blocks /\ live_blocks' = live_blocks /\ pc' = "ensure"
    BY <1>8, <2>2, <1>T DEF EvictOne
  <2> QED
    BY <2>3, <2>6, <2>7, <1>u, <1>T
<1>9. CASE CapacityExhausted \/ EnsureDone \/ Finish \/ Miss
  BY <1>9, <1>s, <1>n DEF CapacityExhausted, EnsureDone, Finish, Miss, Ignore, placement
<1>10. CASE UNCHANGED vars
  BY <1>10, <1>s DEF vars, TierInvariant
<1> QED
  BY <1>1, <1>2, <1>3, <1>4, <1>5, <1>6, <1>7, <1>8, <1>9, <1>10
  DEF Next, Event, Loop

\* If every intent of the trace allows HBM and a second tier, then no copy_with
\* in the simulator can fail: each live block's tier stays an allowed one and
\* run() is never left by a ValueError.  (The SimHbmOnly run shows that the
\* assumption is needed.)
THEOREM WellTieredTracesNeverRaise ==
    ASSUME \A i \in Intents : WellTiered(i)
    PROVE  Spec => [](TierAllowed /\ NeverRaises)
<1>1. Init => TierInvariant
  BY NoIntentAssumption DEF Init, TierInvariant, TypeOK, NeverRaises
<1>2. TierInvariant /\ [Next]_vars => TierInvariant'
  BY TierStep
<1>3. TierInvariant => TierAllowed /\ NeverRaises
  BY DEF TierInvariant, TierAllowed
<1> QED
  BY <1>1, <1>2, <1>3, PTL DEF Spec

=============================================================================
