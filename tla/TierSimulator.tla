---------------------------- MODULE TierSimulator ----------------------------
(***************************************************************************)
(* The placement state machine of KVMemorySimulator                        *)
(* (src/src/kv_memory_intent/simulator.py): which KV blocks are live, which *)
(* of them sit in HBM and in DRAM, and how the ten trace events and the     *)
(* capacity loop move them.                                                *)
(*                                                                         *)
(* The simulator is sequential.  An event handler is one action; the loop  *)
(* of _ensure_hbm_capacity is one action per iteration, reached through    *)
(* pc, and the handler's tail (recency decay) is the action Finish.  No    *)
(* other action is enabled in between.                                     *)
(*                                                                         *)
(* Abstracted data: the fields that only feed the eviction score (deadline,*)
(* slack, recency, reuse window, costs, request priority, draft flags) are *)
(* left out, so a policy picks any block its score could put first.  The   *)
(* write-only statistics (counters, latencies, decision log) are the       *)
(* subject of SimulatorAccounting, which extends this module.              *)
(***************************************************************************)
EXTENDS Integers, FiniteSets, FiniteSetsExt

CONSTANTS
    Blocks,        \* the object_ids that occur in a trace
    Intents,       \* the intents that the events of a trace carry
    HbmCapacity,   \* hbm_capacity_bytes
    DramCapacity,  \* dram_capacity_bytes
    Policy,        \* the placement policy, by its name
    Realloc,       \* may a trace ALLOCATE a block that is already live?
    NoIntent       \* what intent holds for a block that is not live

\* schema.py: Tier, Priority and Phase.  WARM behaves as HOT except in
\* should_prefetch; the phases other than DECODE differ only in the score.
Tier == {"HBM", "DRAM", "CXL", "NVME"}
Priority == {"DECODE_CRITICAL", "HOT", "WARM", "COLD"}
Phase == {"PREFILL", "DECODE", "VERIFY", "ROLLBACK", "DONE", "IDLE"}

\* The fields of MemoryIntent that decide placement.
MemoryIntent ==
    [phase : Phase, priority : Priority, pin_requested : BOOLEAN,
     allowed_tiers : SUBSET Tier, current_tier : Tier, size_bytes : Nat \ {0}]

\* What __post_init__ rejects with a ValueError (of the modelled fields).
TierIsAllowed(intent) == intent.current_tier \in intent.allowed_tiers

\* An intent that __post_init__ has accepted and normalised.
Accepted(intent) ==
    /\ TierIsAllowed(intent)
    /\ intent.priority = "DECODE_CRITICAL" => intent.pin_requested

is_decode_critical(intent) ==
    \/ intent.priority = "DECODE_CRITICAL"
    \/ intent.phase = "DECODE"

RecencyPolicies == {"LRU", "HotCold", "PredictiveHotness"}
IntentPolicies == {"IntentAware", "KVDeadline"}

ASSUME IntentsAssumption ==
    /\ Intents \subseteq MemoryIntent
    /\ Intents # {}
    /\ \A i \in Intents : Accepted(i)
ASSUME CapacityAssumption == HbmCapacity \in Nat /\ DramCapacity \in Nat
ASSUME PolicyAssumption == Policy \in RecencyPolicies \cup IntentPolicies
ASSUME ReallocAssumption == Realloc \in BOOLEAN
ASSUME NoIntentAssumption == NoIntent \notin MemoryIntent

VARIABLES
    live_blocks,   \* the keys of live_blocks
    intent,        \* its values (NoIntent where the block is not live)
    hbm_blocks,
    dram_blocks,
    pc             \* "idle", "ensure", "finish" or "raised"

placement == <<live_blocks, intent, hbm_blocks, dram_blocks>>
vars == <<live_blocks, intent, hbm_blocks, dram_blocks, pc>>

Init ==
    /\ live_blocks = {}
    /\ intent = [b \in Blocks |-> NoIntent]
    /\ hbm_blocks = {}
    /\ dram_blocks = {}
    /\ pc = "idle"

-----------------------------------------------------------------------------
(***************************************************************************)
(* Byte accounting                                                         *)
(***************************************************************************)
used_bytes(ids, info) == MapThenSumSet(LAMBDA b : info[b].size_bytes, ids)

hbm_used == used_bytes(hbm_blocks \cap live_blocks, intent)
dram_used == used_bytes(dram_blocks \cap live_blocks, intent)

-----------------------------------------------------------------------------
(***************************************************************************)
(* Placement policies, as far as the loop can tell them apart              *)
(***************************************************************************)
choose_victim_ignoring_pins(candidates) == candidates    \* mutant

\* LRU, HotCold and PredictiveHotness rank all resident blocks; the two
\* intent policies rank the unpinned ones, and all of them if there is none.
choose_victim(candidates) ==
    LET non_pinned == {b \in candidates : ~ intent[b].pin_requested}
    IN  IF Policy \in IntentPolicies /\ non_pinned # {}
        THEN non_pinned ELSE candidates

\* DeadlineAwarePolicy.should_prefetch; urgent stands for prefetch_ok together
\* with a near deadline, slack or reuse.  The base class never prefetches.
should_prefetch(i, urgent) ==
    /\ Policy = "KVDeadline"
    /\ urgent
    /\ i.current_tier # "HBM"
    /\ i.priority \in {"HOT", "DECODE_CRITICAL"} \/ i.phase = "DECODE"

-----------------------------------------------------------------------------
(***************************************************************************)
(* _move_to_hbm up to its call of _ensure_hbm_capacity                     *)
(***************************************************************************)
\* Mutant: the block is not taken out of dram_blocks.
move_to_hbm_keeps_dram(b, i) ==
    /\ live_blocks' = live_blocks \cup {b}
    /\ intent' = [intent EXCEPT ![b] = [i EXCEPT !.current_tier = "HBM"]]
    /\ hbm_blocks' = hbm_blocks \cup {b}
    /\ dram_blocks' = dram_blocks
    /\ pc' = "ensure"

\* Mutant: the block is not entered in live_blocks.
move_to_hbm_unregistered(b, i) ==
    /\ intent' = [intent EXCEPT ![b] = [i EXCEPT !.current_tier = "HBM"]]
    /\ hbm_blocks' = hbm_blocks \cup {b}
    /\ dram_blocks' = dram_blocks \ {b}
    /\ pc' = "ensure"
    /\ UNCHANGED live_blocks

move_to_hbm(b, i) ==
    /\ live_blocks' = live_blocks \cup {b}
    /\ intent' = [intent EXCEPT ![b] = [i EXCEPT !.current_tier = "HBM"]]
    /\ hbm_blocks' = hbm_blocks \cup {b}
    /\ dram_blocks' = dram_blocks \ {b}
    /\ pc' = "ensure"

\* copy_with on a live block whose tier is no longer allowed: ValueError, and
\* run() is left for good.
Raise ==
    /\ pc' = "raised"
    /\ UNCHANGED placement

\* The handler has nothing to do for this block.
Ignore ==
    /\ pc' = "finish"
    /\ UNCHANGED placement

-----------------------------------------------------------------------------
(***************************************************************************)
(* The events                                                              *)
(***************************************************************************)
\* All fields of a live block are overwritten.  A block that is already
\* resident in the other tier stays in that tier's set.
Allocated(b, i) ==
    /\ pc = "idle"
    /\ Realloc \/ b \notin live_blocks
    /\ live_blocks' = live_blocks \cup {b}
    /\ intent' = [intent EXCEPT ![b] = i]
    /\ \/ /\ i.current_tier = "HBM"
          /\ hbm_blocks' = hbm_blocks \cup {b}
          /\ pc' = "ensure"
          /\ UNCHANGED dram_blocks
       \/ /\ i.current_tier # "HBM"
          /\ dram_blocks' = IF i.current_tier = "DRAM"
                            THEN dram_blocks \cup {b} ELSE dram_blocks
          /\ UNCHANGED hbm_blocks
          /\ pc' = "finish"

\* What ACCESSED makes of the block: a live one keeps its tiers and its size.
AccessedIntent(b, i) ==
    IF b \in live_blocks
    THEN [intent[b] EXCEPT !.phase = i.phase, !.priority = i.priority,
                           !.pin_requested = i.pin_requested]
    ELSE i

Accessed(b, i) ==
    /\ pc = "idle"
    /\ \/ /\ b \in live_blocks /\ ~ TierIsAllowed(intent[b])
          /\ Raise
       \/ /\ b \in live_blocks => TierIsAllowed(intent[b])
          /\ \/ /\ b \notin hbm_blocks
                /\ move_to_hbm(b, AccessedIntent(b, i))
             \/ /\ b \in hbm_blocks
                /\ live_blocks' = live_blocks \cup {b}
                /\ intent' = [intent EXCEPT ![b] = AccessedIntent(b, i)]
                /\ UNCHANGED <<hbm_blocks, dram_blocks>>
                /\ pc' = "finish"

\* A block that is not live becomes live without being placed in any tier.
MarkedDecodeCritical(b, i) ==
    LET base == IF b \in live_blocks THEN intent[b] ELSE i
    IN  /\ pc = "idle"
        /\ \/ /\ b \in live_blocks /\ ~ TierIsAllowed(intent[b])
              /\ Raise
           \/ /\ b \in live_blocks => TierIsAllowed(intent[b])
              /\ live_blocks' = live_blocks \cup {b}
              /\ intent' = [intent EXCEPT ![b] =
                              [base EXCEPT !.priority = "DECODE_CRITICAL",
                                           !.phase = i.phase,
                                           !.pin_requested = TRUE]]
              /\ pc' = "finish"
              /\ UNCHANGED <<hbm_blocks, dram_blocks>>

\* pin_requested is not among the fields that MARKED_COLD copies.
MarkedCold(b, i) ==
    /\ pc = "idle"
    /\ \/ /\ b \notin live_blocks
          /\ Ignore
       \/ /\ b \in live_blocks /\ ~ TierIsAllowed(intent[b])
          /\ Raise
       \/ /\ b \in live_blocks /\ TierIsAllowed(intent[b])
          /\ intent' = [intent EXCEPT ![b].priority = "COLD",
                                      ![b].phase = i.phase]
          /\ pc' = "finish"
          /\ UNCHANGED <<live_blocks, hbm_blocks, dram_blocks>>

\* Only the draft flags change, which placement does not depend on.
Committed(b) ==
    /\ pc = "idle"
    /\ \/ /\ b \in live_blocks => TierIsAllowed(intent[b])
          /\ Ignore
       \/ /\ b \in live_blocks /\ ~ TierIsAllowed(intent[b])
          /\ Raise

\* There is no DRAM capacity check and the block need not be in HBM.
Spilled(b) ==
    /\ pc = "idle"
    /\ \/ /\ b \in live_blocks /\ "DRAM" \in intent[b].allowed_tiers
          /\ hbm_blocks' = hbm_blocks \ {b}
          /\ dram_blocks' = dram_blocks \cup {b}
          /\ intent' = [intent EXCEPT ![b].current_tier = "DRAM"]
          /\ pc' = "finish"
          /\ UNCHANGED live_blocks
       \/ /\ b \in live_blocks => "DRAM" \notin intent[b].allowed_tiers
          /\ Ignore

\* A live block outside HBM takes every field of the event, the tier included,
\* whether or not the policy then prefetches it.
Prefetched(b, i, urgent) ==
    /\ pc = "idle"
    /\ \/ /\ b \in live_blocks /\ b \notin hbm_blocks
          /\ \/ /\ should_prefetch(i, urgent)
                /\ move_to_hbm(b, i)
             \/ /\ ~ should_prefetch(i, urgent)
                /\ intent' = [intent EXCEPT ![b] = i]
                /\ pc' = "finish"
                /\ UNCHANGED <<live_blocks, hbm_blocks, dram_blocks>>
       \/ /\ b \notin live_blocks \/ b \in hbm_blocks
          /\ Ignore

\* The block stays live, with the tier it had.
Evicted(b) ==
    /\ pc = "idle"
    /\ hbm_blocks' = IF b \in live_blocks THEN hbm_blocks \ {b} ELSE hbm_blocks
    /\ dram_blocks' = IF b \in live_blocks THEN dram_blocks \ {b} ELSE dram_blocks
    /\ pc' = "finish"
    /\ UNCHANGED <<live_blocks, intent>>

\* Mutant: dram_blocks keeps the freed block.
FreedKeepsDram(b) ==
    /\ pc = "idle"
    /\ live_blocks' = live_blocks \ {b}
    /\ intent' = [intent EXCEPT ![b] = NoIntent]
    /\ hbm_blocks' = hbm_blocks \ {b}
    /\ pc' = "finish"
    /\ UNCHANGED dram_blocks

Freed(b) ==
    /\ pc = "idle"
    /\ live_blocks' = live_blocks \ {b}
    /\ intent' = [intent EXCEPT ![b] = NoIntent]
    /\ hbm_blocks' = hbm_blocks \ {b}
    /\ dram_blocks' = dram_blocks \ {b}
    /\ pc' = "finish"

\* A MISS event has no branch of its own.
Miss ==
    /\ pc = "idle"
    /\ Ignore

-----------------------------------------------------------------------------
(***************************************************************************)
(* _ensure_hbm_capacity                                                    *)
(***************************************************************************)
Candidates == hbm_blocks \cap live_blocks

OverCapacityByMoreThanOne == hbm_used > HbmCapacity + 1    \* mutant

OverCapacity == hbm_used > HbmCapacity

AnyPinned == \E b \in Candidates : intent[b].pin_requested    \* mutant

AllPinned == \A b \in Candidates : intent[b].pin_requested

fallback_tiers(v) == intent[v].allowed_tiers \ {"HBM"}

TargetTiersUnchecked(v) == {"NVME"}    \* mutant

\* allowed_tiers is a set: which fallback comes first is up to its hash order.
TargetTiers(v) == IF fallback_tiers(v) = {} THEN {"NVME"} ELSE fallback_tiers(v)

SpillFitsAlways(v, target) == target = "DRAM"    \* mutant

\* The victim fits in DRAM beside what is there already.
SpillFits(v, target) ==
    /\ target = "DRAM"
    /\ dram_used + intent[v].size_bytes <= DramCapacity

\* Mutant: the victim is not taken out of hbm_blocks.
DisplaceKeepsResident(v) ==
    \E target \in TargetTiers(v) :
       /\ intent' = [intent EXCEPT ![v].current_tier = target]
       /\ UNCHANGED <<hbm_blocks, dram_blocks>>

\* The victim leaves HBM, for DRAM if it fits there.
Displace(v) ==
    \E target \in TargetTiers(v) :
       /\ hbm_blocks' = hbm_blocks \ {v}
       /\ dram_blocks' = IF SpillFits(v, target)
                         THEN dram_blocks \cup {v} ELSE dram_blocks \ {v}
       /\ intent' = [intent EXCEPT ![v].current_tier = target]

\* One iteration.  A victim always exists: HBM over capacity holds some block.
EvictOne ==
    /\ pc = "ensure"
    /\ OverCapacity
    /\ ~ (Policy \in IntentPolicies /\ AllPinned)
    /\ \E v \in choose_victim(Candidates) : Displace(v)
    /\ UNCHANGED <<live_blocks, pc>>

\* Every resident block is pinned: the loop gives up, over capacity.
CapacityExhausted ==
    /\ pc = "ensure"
    /\ OverCapacity
    /\ Policy \in IntentPolicies
    /\ AllPinned
    /\ pc' = "finish"
    /\ UNCHANGED placement

EnsureDone ==
    /\ pc = "ensure"
    /\ ~ OverCapacity
    /\ pc' = "finish"
    /\ UNCHANGED placement

\* The tail of run()'s loop body.  On the first event of a step every live
\* block is copied with a lower recency, and the copy is validated.
Finish ==
    /\ pc = "finish"
    /\ UNCHANGED placement
    /\ \E first_of_step \in BOOLEAN :
          pc' = IF first_of_step /\ \E b \in live_blocks : ~ TierIsAllowed(intent[b])
                THEN "raised" ELSE "idle"

-----------------------------------------------------------------------------
Event ==
    \/ Miss
    \/ \E b \in Blocks :
          \/ \E i \in Intents :
                \/ Allocated(b, i)
                \/ Accessed(b, i)
                \/ MarkedDecodeCritical(b, i)
                \/ MarkedCold(b, i)
                \/ \E urgent \in BOOLEAN : Prefetched(b, i, urgent)
          \/ Committed(b)
          \/ Spilled(b)
          \/ Evicted(b)
          \/ Freed(b)

Loop == EvictOne \/ CapacityExhausted \/ EnsureDone

Next == Event \/ Loop \/ Finish

\* run() is a loop over a finished list: once an event is taken, the program
\* goes on with its own steps.  No event has to come.
Fairness == WF_vars(Loop) /\ WF_vars(Finish)

Spec == Init /\ [][Next]_vars

FairSpec == Spec /\ Fairness

-----------------------------------------------------------------------------
(***************************************************************************)
(* Properties                                                              *)
(***************************************************************************)
\* Every variable has its type, and intent holds a record exactly for the keys
\* of live_blocks.
TypeOK ==
    /\ live_blocks \subseteq Blocks
    /\ intent \in [Blocks -> MemoryIntent \cup {NoIntent}]
    /\ \A b \in Blocks : b \in live_blocks <=> intent[b] # NoIntent
    /\ hbm_blocks \subseteq Blocks
    /\ dram_blocks \subseteq Blocks
    /\ pc \in {"idle", "ensure", "finish", "raised"}

\* The tier sets never keep a block that FREED has removed: _used_bytes filters
\* dead ids out silently, so a leftover would never show in the byte counts.
NoDeadResident == hbm_blocks \cup dram_blocks \subseteq live_blocks

\* A block is charged to one tier only, and a block in HBM says so, as long as
\* a trace does not ALLOCATE a live block a second time.  SPILLED, ACCESSED,
\* PREFETCHED and the capacity loop each update the two sets and the tier
\* field in separate statements.
OneTierPerBlock ==
    ~ Realloc => /\ hbm_blocks \cap dram_blocks = {}
                 /\ \A b \in hbm_blocks : intent[b].current_tier = "HBM"

\* Under LRU, HotCold and PredictiveHotness HBM is within its capacity between
\* any two events, whatever the trace does (test_hbm_capacity_is_respected
\* checks the peak of one synthetic run).
CapacityRespected ==
    Policy \in RecencyPolicies /\ ~ Realloc /\ pc = "idle" =>
        hbm_used <= HbmCapacity

\* Every live block's tier is one that its producer allowed: the condition that
\* __post_init__ enforces on every copy ("current_tier must be present in
\* allowed_tiers").  The loop and _move_to_hbm assign current_tier directly.
TierAllowed == \A b \in live_blocks : TierIsAllowed(intent[b])

\* run() is not left by a ValueError in the middle of a trace of valid events.
NeverRaises == pc # "raised"

\* Capacity pressure never displaces a block of priority DECODE_CRITICAL under
\* the intent policies: only an event about the block itself takes it out of HBM.
DecodeCriticalStaysResident ==
    [][pc = "ensure" /\ Policy \in IntentPolicies =>
         \A b \in hbm_blocks \ hbm_blocks' :
            intent[b].priority # "DECODE_CRITICAL"]_vars

\* The capacity loop ends with HBM within capacity or, for the intent policies
\* only, with nothing but pinned blocks in it.
LoopEndsWithCause ==
    [][pc = "ensure" /\ pc' = "finish" =>
         \/ ~ (hbm_used' > HbmCapacity)
         \/ /\ Policy \in IntentPolicies
            /\ \A b \in hbm_blocks' : intent'[b].pin_requested]_vars

\* Every event is finished: the capacity loop removes a block in each iteration
\* and cannot go on for ever.
EventsFinish == pc \in {"ensure", "finish"} ~> pc \in {"idle", "raised"}

=============================================================================
