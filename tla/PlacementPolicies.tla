-------------------------- MODULE PlacementPolicies --------------------------
(***************************************************************************)
(* The eviction scores of the five policies, exactly: every float of the   *)
(* code is an integer number of 1/Unit, and recency_score a number of      *)
(* hundredths.  (The code's rounding errors are far below 1/Unit.)         *)
(*                                                                         *)
(* The state is one block.  Each action makes it more urgent in one field, *)
(* as a later event about the block may do: from the least urgent block    *)
(* every other one is reached.                                             *)
(***************************************************************************)
EXTENDS Integers, FiniteSetsExt

CONSTANTS
    BlockDeadlines, Slacks, Targets,   \* deadline_us, slack_us and target_decode_step
    RequestPriorities, ReuseWindows, RecomputeCosts, Recencies, AccessSteps,
    current_step,
    Absent                          \* the Absent of an optional field

ASSUME FieldsAssumption ==
    /\ BlockDeadlines \subseteq Nat /\ BlockDeadlines # {}
    /\ Slacks \subseteq Int /\ Slacks # {}
    /\ Targets \subseteq Nat /\ Targets # {}
    /\ RequestPriorities \subseteq 0 .. 100 /\ RequestPriorities # {}
    /\ ReuseWindows \subseteq Nat
    /\ \E widest \in ReuseWindows : \A w \in ReuseWindows : w <= widest
    /\ RecomputeCosts \subseteq Nat /\ RecomputeCosts # {}
    /\ Recencies \subseteq 0 .. 100 /\ Recencies # {}
    /\ AccessSteps \subseteq Nat /\ AccessSteps # {}
    /\ current_step \in Nat
    /\ Absent \notin Int

VARIABLE block

Unit == 144000

\* n divided by d, in 1/Unit; d divides Unit times every n that occurs.
over(n, d) == n * (Unit \div d)

\* Lists from the least to the most urgent.
PriorityOrder == <<"COLD", "WARM", "HOT", "DECODE_CRITICAL">>
PhaseOrder == <<"DONE", "IDLE", "PREFILL", "VERIFY", "DECODE">>
DraftOrder == <<"draft", "none", "committed">>   \* is_draft and is_committed

-----------------------------------------------------------------------------
(***************************************************************************)
(* schema.py                                                               *)
(***************************************************************************)
effective_deadline_score(b) ==
    (IF b.deadline_us # Absent THEN over(Max({0, 10000 - b.deadline_us}), 20) ELSE 0)
    + (IF b.slack_us # Absent THEN over(Max({0, 5000 - b.slack_us}), 10) ELSE 0)
    + (IF b.target_decode_step # Absent
       THEN over(Max({0, 64 - Max({b.target_decode_step - current_step, 0})}), 1) ELSE 0)
    + over(2 * b.request_priority, 1)
    + over(CASE b.phase = "DECODE" -> 120 [] b.phase = "VERIFY" -> 30 [] OTHER -> 0, 1)
    + over(CASE b.priority = "DECODE_CRITICAL" -> 300 [] b.priority = "HOT" -> 80
             [] b.priority = "WARM" -> 30 [] OTHER -> 0, 1)
    + (IF b.recompute_cost_us # Absent THEN Min({over(b.recompute_cost_us, 25), over(250, 1)}) ELSE 0)
    + (IF b.pin_requested THEN over(400, 1) ELSE 0)

eviction_risk_score(b) ==
    effective_deadline_score(b)
    + over(40 * b.recency_score, 100)
    + over(CASE b.draft = "committed" -> 15 [] b.draft = "draft" -> -35 [] OTHER -> 0, 1)
    - (IF b.recompute_ok THEN over(25, 1) ELSE 0)
    - (IF b.compression_ok THEN over(15, 1) ELSE 0)
    - (IF b.expected_reuse_window_tokens # Absent
       THEN Min({over(b.expected_reuse_window_tokens, 8), over(80, 1)}) ELSE 0)
    - over(CASE b.phase = "DONE" -> 140 [] b.phase = "IDLE" -> 60 [] OTHER -> 0, 1)

-----------------------------------------------------------------------------
(***************************************************************************)
(* policies.py                                                             *)
(***************************************************************************)
\* The victim has the least key; on a tie older, larger and smaller-named ones
\* go first.
LRU_key(b) == b.last_access_step

HotCold_key(b) == b.recency_score

predicted_hotness(b) ==
    over(7 * b.recency_score, 1000)
    + (IF b.expected_reuse_window_tokens # Absent
       THEN over(3 * Max({0, 64 - b.expected_reuse_window_tokens}), 640) ELSE 0)

\* Mutant: critical blocks are told from others by their pin alone.
priority_weight_flat(b) == over(CASE b.priority = "COLD" -> 110 [] b.priority = "WARM" -> 55
                                  [] OTHER -> 15, 1)

priority_weight(b) ==
    over(CASE b.priority = "COLD" -> 110 [] b.priority = "WARM" -> 55
           [] b.priority = "HOT" -> 15 [] b.priority = "DECODE_CRITICAL" -> -900, 1)

\* IntentAwarePolicy.eviction_score
intent_score(b) ==
    priority_weight(b)
    - (IF b.pin_requested THEN over(900, 1) ELSE 0)
    + over(CASE b.phase = "DONE" -> 120 [] b.phase = "IDLE" -> 50 [] OTHER -> 0, 1)
    + over(100 - b.request_priority, 1)
    + (IF b.expected_reuse_window_tokens # Absent
       THEN Min({over(b.expected_reuse_window_tokens, 6), over(120, 1)}) ELSE 0)
    + (IF b.recompute_ok THEN over(30, 1) ELSE 0)
    + (IF b.compression_ok THEN over(20, 1) ELSE 0)
    + (IF b.draft = "draft" THEN over(45, 1) ELSE 0)
    - (IF b.recompute_cost_us # Absent THEN Min({over(b.recompute_cost_us, 40), over(180, 1)}) ELSE 0)
    - over(60 * b.recency_score, 100)
    + Min({over(Max({current_step - b.last_access_step, 0}), 4), over(35, 1)})
    - Max({eviction_risk_score(b), 0}) \div 40

\* Mutant: blocks without a deadline are protected like those far from theirs.
DeadlineTermSwapped(b) ==
    over(IF b.deadline_us = Absent THEN 140
         ELSE IF b.deadline_us <= 1000 THEN 320 ELSE IF b.deadline_us <= 5000 THEN 140 ELSE 25, 1)

DeadlineTerm(b) ==
    over(IF b.deadline_us = Absent THEN 0
         ELSE IF b.deadline_us <= 1000 THEN 320 ELSE IF b.deadline_us <= 5000 THEN 140 ELSE 25, 1)

SlackTerm(b) ==
    over(IF b.slack_us = Absent THEN 0
         ELSE IF b.slack_us <= 500 THEN 260 ELSE IF b.slack_us <= 2000 THEN 120 ELSE 0, 1)

\* DeadlineAwarePolicy.eviction_score
deadline_score(b) ==
    intent_score(b) - DeadlineTerm(b) - SlackTerm(b)
    - (IF b.request_priority >= 80 THEN over(90, 1) ELSE 0)
    - (IF b.recompute_cost_us # Absent /\ b.recompute_cost_us >= 4000 THEN over(80, 1) ELSE 0)
    - (IF b.phase = "DECODE" THEN over(110, 1) ELSE 0)
    - (IF b.priority = "DECODE_CRITICAL" THEN over(400, 1) ELSE 0)
    - eviction_risk_score(b) \div 18
    + (IF b.phase = "DONE" THEN over(40, 1) ELSE 0)
    + (IF b.priority = "COLD" /\ b.deadline_us = Absent THEN over(35, 1) ELSE 0)

should_prefetch(b) ==
    /\ b.prefetch_ok
    /\ b.current_tier # "HBM"
    /\ \/ b.deadline_us # Absent /\ b.deadline_us <= 5000
       \/ b.slack_us # Absent /\ b.slack_us <= 2000
       \/ b.expected_reuse_window_tokens # Absent /\ b.expected_reuse_window_tokens <= 8
    /\ b.priority \in {"HOT", "DECODE_CRITICAL"} \/ b.phase = "DECODE"

-----------------------------------------------------------------------------
(***************************************************************************)
(* A block grows more urgent                                               *)
(***************************************************************************)
PolicyInit ==
    block = [deadline_us |-> Absent, slack_us |-> Absent, target_decode_step |-> Absent,
             priority |-> "COLD", phase |-> "DONE", pin_requested |-> FALSE,
             request_priority |-> Min(RequestPriorities),
             expected_reuse_window_tokens |-> Max(ReuseWindows),
             recompute_cost_us |-> Absent, recency_score |-> Min(Recencies),
             last_access_step |-> Min(AccessSteps),
             recompute_ok |-> TRUE, compression_ok |-> TRUE, draft |-> "draft",
             prefetch_ok |-> TRUE, current_tier |-> "DRAM"]

\* From Absent to a value, and from a value to a smaller one.
Tighten(old, new) == IF old = Absent THEN TRUE ELSE new < old

Costlier(old, new) == IF old = Absent THEN TRUE ELSE new > old

\* The place of a value in an order.
Rank(order, x) == CHOOSE k \in DOMAIN order : order[k] = x

Successor(order, x) == order[Rank(order, x) + 1]

MoreUrgent ==
    \/ \E d \in BlockDeadlines : Tighten(block.deadline_us, d) /\ block' = [block EXCEPT !.deadline_us = d]
    \/ \E s \in Slacks : Tighten(block.slack_us, s) /\ block' = [block EXCEPT !.slack_us = s]
    \/ \E t \in Targets : /\ Tighten(block.target_decode_step, t)
                          /\ block' = [block EXCEPT !.target_decode_step = t]
    \/ /\ block.priority # "DECODE_CRITICAL"
       /\ block' = [block EXCEPT !.priority = Successor(PriorityOrder, @),
                                 !.pin_requested = @ \/ block.priority = "HOT"]
    \/ /\ block.phase # "DECODE"
       /\ block' = [block EXCEPT !.phase = Successor(PhaseOrder, @)]
    \/ ~ block.pin_requested /\ block' = [block EXCEPT !.pin_requested = TRUE]

\* The remaining fields: a more important request, nearer reuse, higher cost of
\* recovery, a later access, a commit.
MoreValuable ==
    \/ \E p \in RequestPriorities :
          p > block.request_priority /\ block' = [block EXCEPT !.request_priority = p]
    \/ \E w \in ReuseWindows : /\ w < block.expected_reuse_window_tokens
                              /\ block' = [block EXCEPT !.expected_reuse_window_tokens = w]
    \/ \E c \in RecomputeCosts : /\ Costlier(block.recompute_cost_us, c)
                                /\ block' = [block EXCEPT !.recompute_cost_us = c]
    \/ \E r \in Recencies, s \in AccessSteps :
          /\ r >= block.recency_score /\ s > block.last_access_step
          /\ block' = [block EXCEPT !.recency_score = r, !.last_access_step = s]
    \/ block.recompute_ok /\ block' = [block EXCEPT !.recompute_ok = FALSE]
    \/ block.compression_ok /\ block' = [block EXCEPT !.compression_ok = FALSE]
    \/ block.draft # "committed" /\ block' = [block EXCEPT !.draft = Successor(DraftOrder, @)]

PolicyNext == MoreUrgent \/ MoreValuable

-----------------------------------------------------------------------------
(***************************************************************************)
(* Properties                                                              *)
(***************************************************************************)
\* A block that grows more urgent, or more expensive to lose, in any one field
\* never becomes a better victim under any of the five policies: the terms of a
\* score that pull one field in two ways (score and risk) agree.  Nor does it
\* lose its prefetch while it grows more urgent.
UrgencyProtects ==
    [][/\ intent_score(block') <= intent_score(block)
       /\ deadline_score(block') <= deadline_score(block)
       /\ LRU_key(block') >= LRU_key(block)
       /\ HotCold_key(block') >= HotCold_key(block)
       /\ predicted_hotness(block') >= predicted_hotness(block)
       /\ MoreUrgent /\ should_prefetch(block) => should_prefetch(block')]_block

\* The scores of critical blocks and those of unpinned blocks lie on two sides
\* of -1300, whatever the other fields say: cold, finished, recomputable
\* critical blocks included, no sum of the other terms outweighs criticality.
CriticalScoresLast ==
    \A score \in {intent_score(block), deadline_score(block)} :
       IF block.priority = "DECODE_CRITICAL" THEN score < over(-1300, 1)
       ELSE ~ block.pin_requested => score > over(-1300, 1)

=============================================================================
