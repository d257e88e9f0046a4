---------------------------- MODULE ScoresProofs ----------------------------
(***************************************************************************)
(* Proofs about both families of scores.                                   *)
(*                                                                         *)
(* KvEvictionScore: the order of reclaim, for any deadlines, any times and *)
(* any number of intents, as long as no score leaves int.                  *)
(*                                                                         *)
(* PlacementPolicies: a more urgent block is never easier to evict, and    *)
(* critical blocks go last, for any values of the fields.                  *)
(***************************************************************************)
EXTENDS MCScores, DataLemmas, TLAPS

\* Nothing happens so late that an intent registered at the beginning, with the
\* heaviest weight and no slack, has a score beyond INT_MAX.  For the kernel's int
\* that is a little less than six hours.
ScoresFit == \A t \in Times : 2000 + DivTen(t) <= IntMax

-----------------------------------------------------------------------------
(***************************************************************************)
(* The score                                                               *)
(***************************************************************************)
\* Division rounds by less than one unit, towards zero.
LEMMA DivTenBounds ==
    ASSUME NEW x \in Int
    PROVE  /\ DivTen(x) \in Int
           /\ x >= 0 => 10 * DivTen(x) <= x /\ x < 10 * DivTen(x) + 10
           /\ x <= 0 => x <= 10 * DivTen(x) /\ 10 * DivTen(x) - 10 < x
<1>1. \A y \in Nat : y \div 10 \in Nat /\ 10 * (y \div 10) <= y /\ y < 10 * (y \div 10) + 10
  OBVIOUS
<1>2. CASE x >= 0
  <2>1. x \in Nat
    BY <1>2
  <2> QED
    BY <2>1, <1>1, <1>2 DEF DivTen
<1>3. CASE ~ (x >= 0)
  <2>1. - x \in Nat /\ - x > 0
    BY <1>3
  <2> QED
    BY <2>1, <1>1, <1>3 DEF DivTen
<1> QED
  BY <1>2, <1>3

\* An int that is in range is not changed.
LEMMA WrapIsIdentity ==
    ASSUME NEW x \in Nat, x <= IntMax
    PROVE  Wrap(x) = x
<1> DEFINE m == 2 * (IntMax + 1)
<1>1. m \in Nat /\ m > 0 /\ x + IntMax + 1 \in 0 .. m - 1
  BY ScoreAssumption
<1>2. \A a, b \in Nat : b > 0 /\ a < b => a % b = a
  OBVIOUS
<1>3. (x + IntMax + 1) % m = x + IntMax + 1
  BY <1>1, <1>2
<1> QED
  BY <1>1, <1>3, ScoreAssumption DEF Wrap

\* The urgency of an intent, without the clamp at INT_MAX, which is not reached;
\* and the score, which does not wrap.
LEMMA ScoreWithoutInt ==
    ASSUME ScoresFit, NEW i \in Intent, NEW t \in Times
    PROVE  LET raw == 1000 - DivTen(Remaining(i, t))
           IN  /\ Remaining(i, t) \in Int /\ raw \in Int
               /\ kv_deadline_urgency_score(i, t) = IF raw < 0 THEN 0 ELSE raw
               /\ kv_deadline_urgency_score(i, t) \in Nat
               /\ kv_priority_weight[i.priority] \in 0 .. 1000
               /\ kv_eviction_score(i, t)
                     = kv_priority_weight[i.priority] + kv_deadline_urgency_score(i, t)
<1> DEFINE rem == Remaining(i, t)
           raw == 1000 - DivTen(rem)
           u == kv_deadline_urgency_score(i, t)
           w == kv_priority_weight[i.priority]
<1>1. t \in Nat /\ i.deadline_us \in Nat /\ i.registered_ktime_us \in Nat /\ IntMax \in Nat
  BY ScoreAssumption DEF Intent
<1>2. rem \in Int /\ - t <= rem
  BY <1>1 DEF Remaining
<1>3. DivTen(rem) \in Int /\ DivTen(t) \in Int
  BY <1>1, <1>2, DivTenBounds
<1>4. - DivTen(t) <= DivTen(rem)
  <2> HIDE DEF rem
  <2>1. 10 * DivTen(t) <= t /\ t < 10 * DivTen(t) + 10 /\ DivTen(t) >= 0
    BY <1>1, <1>3, DivTenBounds
  <2>2. rem >= 0 => rem < 10 * DivTen(rem) + 10
    BY <1>2, DivTenBounds
  <2>3. ~ (rem >= 0) => rem <= 10 * DivTen(rem) /\ 10 * DivTen(rem) - 10 < rem
    BY <1>2, DivTenBounds
  <2> QED
    BY <1>1, <1>2, <1>3, <2>1, <2>2, <2>3
<1>5. 2000 + DivTen(t) <= IntMax
  BY DEF ScoresFit
<1>6. raw \in Int /\ raw <= 1000 + DivTen(t)
  BY <1>3, <1>4
<1>7. u = IF raw < 0 THEN 0 ELSE raw
  BY <1>1, <1>3, <1>5, <1>6 DEF kv_deadline_urgency_score
<1>8. w \in 0 .. 1000
  BY DEF Intent, Priority, kv_priority_weight
<1>9. w + u \in Nat /\ w + u <= IntMax
  <2> HIDE DEF raw, u, w
  <2>1. DivTen(t) >= 0
    BY <1>1, <1>3, DivTenBounds
  <2> QED
    BY <1>1, <1>3, <1>5, <1>6, <1>7, <1>8, <2>1
<1>10. kv_eviction_score(i, t) = w + u
  BY <1>9, WrapIsIdentity DEF kv_eviction_score
<1>11. u \in Nat
  <2> HIDE DEF raw, u
  <2> QED
    BY <1>6, <1>7
<1> QED
  BY <1>2, <1>6, <1>7, <1>8, <1>10, <1>11

\* How much time is left, in terms of the due time.
LEMMA RemainingUntilDue ==
    ASSUME NEW i \in Intent, NEW t \in Times
    PROVE  /\ Due(i) \in Nat /\ t \in Nat
           /\ Remaining(i, t) = Due(i) - t
<1>1. i.deadline_us \in Nat /\ i.registered_ktime_us \in Nat /\ t \in Nat
  BY ScoreAssumption DEF Intent
<1> QED
  BY <1>1 DEF Due, Remaining

-----------------------------------------------------------------------------
(***************************************************************************)
(* The registry                                                            *)
(***************************************************************************)
\* Times are moments of the clock, and the registry holds intents.
ScoreTypeOK ==
    /\ registry \in Seq(Intent)
    /\ now \in Times
    /\ scan_now \in Times \cup {None}

\* A registered intent carries the time of its registration; a scan only removes.
LEMMA ScoreTypeStep ==
    ASSUME ScoreTypeOK, [Next]_vars
    PROVE  ScoreTypeOK'
<1> USE DEF ScoreTypeOK
<1>1. ASSUME NEW p \in Priority, NEW d \in Deadlines, kv_register_write(p, d)
      PROVE  ScoreTypeOK'
  <2>1. [priority |-> p, deadline_us |-> d, registered_ktime_us |-> now] \in Intent
    BY DEF Intent
  <2> QED
    BY <1>1, <2>1 DEF kv_register_write
<1>2. CASE Advance
  BY <1>2 DEF Advance
<1>3. CASE ScanClock
  BY <1>3 DEF ScanClock
<1>4. CASE ScanPick
  <2>1. CASE Evictable = {} /\ UNCHANGED <<registry, reclaimed>>
    BY <1>4, <2>1 DEF ScanPick
  <2>2. ASSUME NEW n \in Evictable, registry' = RemoveAt(registry, n)
        PROVE  ScoreTypeOK'
    <3>1. n \in 1 .. Len(registry)
      BY DEF Evictable
    <3>2. registry' \in Seq(Intent)
      BY <2>2, <3>1, RemoveAtFacts
    <3> QED
      BY <1>4, <3>2 DEF ScanPick
  <2> QED
    BY <1>4, <2>1, <2>2 DEF ScanPick
<1>5. CASE UNCHANGED vars
  BY <1>5 DEF vars
<1> QED
  BY <1>1, <1>2, <1>3, <1>4, <1>5 DEF Next

\* The registry holds intents, and the times are those of the clock.
LEMMA ScoreTypes == Spec => []ScoreTypeOK
<1>1. Init => ScoreTypeOK
  BY ScoreAssumption DEF Init, ScoreTypeOK
<1> QED
  BY <1>1, ScoreTypeStep, PTL DEF Spec

\* What a scan step takes has, by the time that it has read, at least the score of
\* everything evictable that it leaves.
LEMMA BestIsTaken ==
    ASSUME ScoreTypeOK, Next, Reclaims, NEW i \in LeftBehind
    PROVE  /\ i \in Intent /\ reclaimed' \in Intent /\ scan_now \in Times
           /\ kv_is_evictable(i) /\ kv_is_evictable(reclaimed')
           /\ kv_eviction_score(i, scan_now) <= kv_eviction_score(reclaimed', scan_now)
<1>1. ScanPick /\ Evictable # {}
  BY DEF Next, Reclaims, kv_register_write, Advance, ScanClock, ScanPick
<1>2. PICK n \in Evictable : /\ IsBest(n, scan_now)
                             /\ reclaimed' = registry[n]
                             /\ registry' = RemoveAt(registry, n)
  BY <1>1 DEF ScanPick
<1>3. n \in 1 .. Len(registry) /\ kv_is_evictable(registry[n])
  BY DEF Evictable
<1>4. PICK k \in 1 .. Len(registry') : i = registry'[k] /\ kv_is_evictable(i)
  BY DEF LeftBehind
<1>5. \E m \in 1 .. Len(registry) : i = registry[m]
  <2>1. /\ registry \in Seq(Intent) /\ Len(registry) \in Nat
        /\ Len(registry') = Len(registry) - 1
        /\ registry'[k] = IF k < n THEN registry[k] ELSE registry[k + 1]
    BY <1>2, <1>3, <1>4, RemoveAtFacts DEF ScoreTypeOK
  <2> QED
    BY <1>3, <1>4, <2>1
<1>6. PICK m \in 1 .. Len(registry) : i = registry[m]
  BY <1>5
<1>7. m \in Evictable
  BY <1>4, <1>6 DEF Evictable
<1>8. kv_eviction_score(registry[m], scan_now) <= kv_eviction_score(registry[n], scan_now)
  BY <1>2, <1>7 DEF IsBest
<1>9. registry[m] \in Intent /\ registry[n] \in Intent
  BY <1>3, <1>6 DEF ScoreTypeOK
<1>10. scan_now \in Times
  BY <1>1 DEF ScanPick, ScoreTypeOK
<1> QED
  BY <1>2, <1>3, <1>4, <1>6, <1>8, <1>9, <1>10

-----------------------------------------------------------------------------
(***************************************************************************)
(* The order of reclaim                                                    *)
(***************************************************************************)
\* Within a priority the intent that is due first is reclaimed first, to 20 us.
THEOREM DueFirstHolds ==
    ASSUME ScoresFit
    PROVE  Spec => DueFirst
<1>1. ASSUME ScoreTypeOK, [Next]_vars
      PROVE  [Reclaims =>
                \A i \in LeftBehind :
                   /\ i.priority = reclaimed'.priority
                   /\ Due(i) + 20 <= Due(reclaimed')
                   => Remaining(i, scan_now) >= 10000]_vars
  <2> SUFFICES ASSUME Next, Reclaims, NEW i \in LeftBehind,
                      i.priority = reclaimed'.priority,
                      Due(i) + 20 <= Due(reclaimed')
               PROVE  Remaining(i, scan_now) >= 10000
    BY <1>1
  <2> DEFINE t == scan_now
             r == reclaimed'
             a == Remaining(i, t)
             b == Remaining(r, t)
  <2>1. /\ i \in Intent /\ r \in Intent /\ t \in Times
        /\ kv_eviction_score(i, t) <= kv_eviction_score(r, t)
    BY <1>1, BestIsTaken
  <2>2. a \in Int /\ b \in Int /\ DivTen(a) \in Int /\ DivTen(b) \in Int
    BY <2>1, ScoreWithoutInt, DivTenBounds
  <2>3. a + 20 <= b
    <3>1. /\ Due(i) \in Nat /\ Due(r) \in Nat /\ t \in Nat
          /\ a = Due(i) - t /\ b = Due(r) - t
      BY <2>1, RemainingUntilDue
    <3> HIDE DEF a, b
    <3> QED
      BY <3>1
  <2>4. (IF 1000 - DivTen(a) < 0 THEN 0 ELSE 1000 - DivTen(a))
           <= (IF 1000 - DivTen(b) < 0 THEN 0 ELSE 1000 - DivTen(b))
    <3>1. kv_deadline_urgency_score(i, t) <= kv_deadline_urgency_score(r, t)
      <4> DEFINE u == kv_deadline_urgency_score(i, t)
                 v == kv_deadline_urgency_score(r, t)
                 w == kv_priority_weight[i.priority]
      <4>1. u \in Int /\ v \in Int /\ w \in Int
        <5>1. u \in Nat /\ w \in 0 .. 1000
          BY <2>1, ScoreWithoutInt
        <5>2. v \in Nat
          BY <2>1, ScoreWithoutInt
        <5> HIDE DEF u, v, w
        <5> QED
          BY <5>1, <5>2
      <4>2. kv_eviction_score(i, t) = w + u /\ kv_eviction_score(r, t) = w + v
        BY <2>1, ScoreWithoutInt
      <4>3. w + u <= w + v
        BY <2>1, <4>2
      <4> HIDE DEF u, v, w
      <4>4. u <= v
        BY <4>1, <4>3
      <4> QED
        BY <4>4 DEF u, v
    <3> QED
      BY <2>1, <3>1, ScoreWithoutInt
  <2>5. DivTen(a) < DivTen(b)
    <3> HIDE DEF a, b
    <3> QED
      BY <2>2, <2>3, DivTenBounds
  <2>6. DivTen(a) >= 1000
    <3> HIDE DEF a, b
    <3> QED
      BY <2>2, <2>4, <2>5
  <2>7. a >= 10000
    <3> HIDE DEF a, b
    <3> QED
      BY <2>2, <2>6, DivTenBounds
  <2> QED
    BY <2>7
<1> QED
  BY <1>1, ScoreTypes, PTL DEF Spec, DueFirst

\* A WARM intent goes before a COLD one only if it is due some 5 ms earlier.
THEOREM ColdIsWorthFiveMillisecondsHolds ==
    ASSUME ScoresFit
    PROVE  Spec => ColdIsWorthFiveMilliseconds
<1>1. ASSUME ScoreTypeOK, [Next]_vars
      PROVE  [Reclaims /\ reclaimed'.priority = "WARM" =>
                \A i \in LeftBehind :
                   i.priority = "COLD" => Due(reclaimed') + 4980 < Due(i)]_vars
  <2> SUFFICES ASSUME Next, Reclaims, reclaimed'.priority = "WARM",
                      NEW i \in LeftBehind, i.priority = "COLD"
               PROVE  Due(reclaimed') + 4980 < Due(i)
    BY <1>1
  <2> DEFINE t == scan_now
             r == reclaimed'
             a == Remaining(i, t)
             b == Remaining(r, t)
  <2>1. /\ i \in Intent /\ r \in Intent /\ t \in Times
        /\ kv_eviction_score(i, t) <= kv_eviction_score(r, t)
    BY <1>1, BestIsTaken
  <2>2. a \in Int /\ b \in Int /\ DivTen(a) \in Int /\ DivTen(b) \in Int
    BY <2>1, ScoreWithoutInt, DivTenBounds
  <2>3. 1000 + (IF 1000 - DivTen(a) < 0 THEN 0 ELSE 1000 - DivTen(a))
           <= 500 + (IF 1000 - DivTen(b) < 0 THEN 0 ELSE 1000 - DivTen(b))
    <3>1. kv_priority_weight[i.priority] = 1000 /\ kv_priority_weight[r.priority] = 500
      BY DEF kv_priority_weight
    <3> QED
      BY <2>1, <3>1, ScoreWithoutInt
  <2>4. b + 4980 < a
    <3> HIDE DEF a, b
    <3>1. DivTen(b) + 500 <= DivTen(a)
      BY <2>2, <2>3
    <3> QED
      BY <2>2, <3>1, DivTenBounds
  <2>5. /\ Due(i) \in Nat /\ Due(r) \in Nat /\ t \in Nat
        /\ a = Due(i) - t /\ b = Due(r) - t
    BY <2>1, RemainingUntilDue
  <2> HIDE DEF a, b
  <2> QED
    BY <2>4, <2>5
<1> QED
  BY <1>1, ScoreTypes, PTL DEF Spec, ColdIsWorthFiveMilliseconds

\* The promise of the module's README, whose violation the run with a small int
\* shows: while no score leaves int, the most reclaimable entry is taken first.
THEOREM MostReclaimableFirstWhileScoresFit ==
    ASSUME ScoresFit
    PROVE  Spec => MostReclaimableFirst
<1>1. ASSUME ScoreTypeOK, [Next]_vars
      PROVE  [Reclaims =>
                \A i \in LeftBehind :
                   IdealScore(i, scan_now) <= IdealScore(reclaimed', scan_now)]_vars
  <2> SUFFICES ASSUME Next, Reclaims, NEW i \in LeftBehind
               PROVE  IdealScore(i, scan_now) <= IdealScore(reclaimed', scan_now)
    BY <1>1
  <2> QED
    BY <1>1, BestIsTaken, ScoreWithoutInt DEF IdealScore
<1> QED
  BY <1>1, ScoreTypes, PTL DEF Spec, MostReclaimableFirst

-----------------------------------------------------------------------------
(***************************************************************************)
(* One block more urgent than another                                      *)
(***************************************************************************)
\* What the policies look at in a block.
PolicyBlock ==
    [deadline_us : Nat \cup {Absent}, slack_us : Slacks \cup {Absent},
     target_decode_step : Nat \cup {Absent},
     priority : {"COLD", "WARM", "HOT", "DECODE_CRITICAL"},
     phase : {"DONE", "IDLE", "PREFILL", "VERIFY", "DECODE"},
     pin_requested : BOOLEAN, request_priority : 0 .. 100,
     expected_reuse_window_tokens : Nat,
     recompute_cost_us : Nat \cup {Absent}, recency_score : 0 .. 100,
     last_access_step : Nat, recompute_ok : BOOLEAN, compression_ok : BOOLEAN,
     draft : {"draft", "none", "committed"}, prefetch_ok : {TRUE}, current_tier : {"DRAM"}]

\* x is no later than y, which may be absent.
\* No later, and no less, for fields that may be absent: an absent time is the last
\* one, an absent cost the least.
NoLater(x, y) == y = Absent \/ (x # Absent /\ x <= y)
NoLess(x, y) == y = Absent \/ (x # Absent /\ x >= y)

\* x is at the place of y, or after it, in a list from the least to the most urgent.
NotBefore(order, x, y) ==
    \E m, n \in DOMAIN order : order[m] = x /\ order[n] = y /\ m >= n

\* c is at least as urgent, and as costly to lose, as b: field by field, whatever the
\* scores make of the fields.
AtLeastAsUrgent(c, b) ==
    /\ NoLater(c.deadline_us, b.deadline_us)
    /\ NoLater(c.slack_us, b.slack_us)
    /\ NoLater(c.target_decode_step, b.target_decode_step)
    /\ NotBefore(PriorityOrder, c.priority, b.priority)
    /\ NotBefore(PhaseOrder, c.phase, b.phase)
    /\ b.pin_requested => c.pin_requested
    /\ c.request_priority >= b.request_priority
    /\ c.expected_reuse_window_tokens <= b.expected_reuse_window_tokens
    /\ NoLess(c.recompute_cost_us, b.recompute_cost_us)
    /\ c.recency_score >= b.recency_score
    /\ c.last_access_step >= b.last_access_step
    /\ c.recompute_ok => b.recompute_ok
    /\ c.compression_ok => b.compression_ok
    /\ NotBefore(DraftOrder, c.draft, b.draft)
    /\ c.prefetch_ok = b.prefetch_ok /\ c.current_tier = b.current_tier

\* The types of the fields.
LEMMA FieldTypes ==
    ASSUME NEW b \in PolicyBlock
    PROVE  /\ b.deadline_us \in Nat \cup {Absent}
           /\ b.slack_us \in Slacks \cup {Absent}
           /\ b.target_decode_step \in Nat \cup {Absent}
           /\ b.priority \in {"COLD", "WARM", "HOT", "DECODE_CRITICAL"}
           /\ b.phase \in {"DONE", "IDLE", "PREFILL", "VERIFY", "DECODE"}
           /\ b.pin_requested \in BOOLEAN
           /\ b.request_priority \in 0 .. 100
           /\ b.expected_reuse_window_tokens \in Nat
           /\ b.recompute_cost_us \in Nat \cup {Absent}
           /\ b.recency_score \in 0 .. 100
           /\ b.last_access_step \in Nat
           /\ b.recompute_ok \in BOOLEAN /\ b.compression_ok \in BOOLEAN
           /\ b.draft \in {"draft", "none", "committed"}
           /\ b.prefetch_ok = TRUE /\ b.current_tier = "DRAM"
  BY DEF PolicyBlock

\* The pairs of priorities, phases and draft states that are in order.
LEMMA PriorityCases ==
    ASSUME NEW x, NEW y, NotBefore(PriorityOrder, x, y)
    PROVE  \/ x = "COLD" /\ y = "COLD"
           \/ x = "WARM" /\ y \in {"COLD", "WARM"}
           \/ x = "HOT" /\ y \in {"COLD", "WARM", "HOT"}
           \/ x = "DECODE_CRITICAL" /\ y \in {"COLD", "WARM", "HOT", "DECODE_CRITICAL"}
<1>1. DOMAIN PriorityOrder = 1 .. 4
  BY DEF PriorityOrder
<1>2. PICK m \in 1 .. 4, n \in 1 .. 4 : PriorityOrder[m] = x /\ PriorityOrder[n] = y /\ m >= n
  BY <1>1 DEF NotBefore
<1>3. m \in {1, 2, 3, 4} /\ n \in {1, 2, 3, 4}
  OBVIOUS
<1> QED
  BY <1>2, <1>3 DEF PriorityOrder

\* As above, for phases.
LEMMA PhaseCases ==
    ASSUME NEW x, NEW y, NotBefore(PhaseOrder, x, y)
    PROVE  \/ x = "DONE" /\ y = "DONE"
           \/ x = "IDLE" /\ y \in {"DONE", "IDLE"}
           \/ x = "PREFILL" /\ y \in {"DONE", "IDLE", "PREFILL"}
           \/ x = "VERIFY" /\ y \in {"DONE", "IDLE", "PREFILL", "VERIFY"}
           \/ x = "DECODE" /\ y \in {"DONE", "IDLE", "PREFILL", "VERIFY", "DECODE"}
<1>1. DOMAIN PhaseOrder = 1 .. 5
  BY DEF PhaseOrder
<1>2. PICK m \in 1 .. 5, n \in 1 .. 5 : PhaseOrder[m] = x /\ PhaseOrder[n] = y /\ m >= n
  BY <1>1 DEF NotBefore
<1>3. m \in {1, 2, 3, 4, 5} /\ n \in {1, 2, 3, 4, 5}
  OBVIOUS
<1> QED
  BY <1>2, <1>3 DEF PhaseOrder

\* As above, for drafts and committed tokens.
LEMMA DraftCases ==
    ASSUME NEW x, NEW y, NotBefore(DraftOrder, x, y)
    PROVE  \/ x = "draft" /\ y = "draft"
           \/ x = "none" /\ y \in {"draft", "none"}
           \/ x = "committed" /\ y \in {"draft", "none", "committed"}
<1>1. DOMAIN DraftOrder = 1 .. 3
  BY DEF DraftOrder
<1>2. PICK m \in 1 .. 3, n \in 1 .. 3 : DraftOrder[m] = x /\ DraftOrder[n] = y /\ m >= n
  BY <1>1 DEF NotBefore
<1>3. m \in {1, 2, 3} /\ n \in {1, 2, 3}
  OBVIOUS
<1> QED
  BY <1>2, <1>3 DEF DraftOrder

-----------------------------------------------------------------------------
(***************************************************************************)
(* The terms of the scores                                                 *)
(***************************************************************************)
\* What the scores divide by.
Divisors == {1, 4, 6, 8, 10, 20, 25, 40, 100, 640, 1000}

\* Exact division keeps the order.
LEMMA OverGrows ==
    ASSUME NEW d \in Divisors, NEW m \in Int, NEW n \in Int, m <= n
    PROVE  /\ over(m, d) \in Int /\ over(n, d) \in Int /\ over(m, d) <= over(n, d)
           /\ over(0, d) = 0
<1> DEFINE k == Unit \div d
<1>1. k \in Nat
  BY SMT DEF Divisors, Unit
<1> HIDE DEF k
<1>2. m * k <= n * k /\ m * k \in Int /\ n * k \in Int /\ 0 * k = 0
  BY SMT, <1>1
<1> QED
  BY SMT, <1>2 DEF over, k

\* It yields naturals from naturals,
LEMMA OverTypes ==
    ASSUME NEW d \in Divisors, NEW n \in Nat
    PROVE  over(n, d) \in Int /\ 0 <= over(n, d)
<1>1. 0 \in Int /\ n \in Int /\ 0 <= n
  OBVIOUS
<1> QED
  BY <1>1, OverGrows

\* and these constants.
LEMMA OverValues ==
    /\ Unit \in Nat /\ Unit > 0
    /\ \A n \in Int : over(n, 1) = n * Unit
    /\ over(10000, 20) = 500 * Unit
    /\ over(10000, 10) = 1000 * Unit
    /\ over(4000, 100) = 40 * Unit
    /\ over(6000, 100) = 60 * Unit
  BY SMT DEF over, Unit

\* The three shapes of term that an optional field has: a time's distance below a
\* limit, a cost up to a limit, and the nearness of the decode step it is needed at.
Shortfall(z, a, d) == IF z # Absent THEN over(Max({0, a - z}), d) ELSE 0
CappedCost(z, limit, d) == IF z # Absent THEN Min({over(z, d), over(limit, 1)}) ELSE 0
TargetNearness(z) ==
    IF z # Absent THEN over(Max({0, 64 - Max({z - current_step, 0})}), 1) ELSE 0

\* An earlier time is at least as far below the limit.
LEMMA ShortfallFacts ==
    ASSUME NEW x \in Int \cup {Absent}, NEW y \in Int \cup {Absent}, NoLater(y, x),
           NEW a \in Nat, NEW d \in Divisors
    PROVE  /\ Shortfall(x, a, d) \in Int /\ Shortfall(y, a, d) \in Int
           /\ 0 <= Shortfall(x, a, d) /\ Shortfall(x, a, d) <= Shortfall(y, a, d)
<1> DEFINE g(z) == IF z # Absent THEN Max({0, a - z}) ELSE 0
           f(z) == Shortfall(z, a, d)
<1>1. ASSUME NEW z \in Int
      PROVE  Max({0, a - z}) = IF 0 >= a - z THEN 0 ELSE a - z
  BY MaxMinOfTwo
<1>2. g(x) \in Int /\ g(y) \in Int /\ 0 <= g(x) /\ g(x) <= g(y)
  BY <1>1, FieldsAssumption DEF NoLater
<1>3. \A z : f(z) = over(g(z), d) \/ (f(z) = 0 /\ g(z) = 0)
  BY DEF Shortfall
<1>4. over(0, d) = 0
  BY OverGrows
<1>5. f(x) = over(g(x), d) /\ f(y) = over(g(y), d)
  BY <1>3, <1>4
<1> HIDE DEF f, g
<1>6. /\ over(g(x), d) \in Int /\ over(g(y), d) \in Int
      /\ over(0, d) <= over(g(x), d) /\ over(g(x), d) <= over(g(y), d)
  BY <1>2, OverGrows
<1>7. f(x) \in Int /\ f(y) \in Int /\ 0 <= f(x) /\ f(x) <= f(y)
  BY <1>4, <1>5, <1>6
<1> QED
  BY <1>7 DEF f

\* The least slack that the code gives to a block which is not critical: the importer
\* of request traces takes 5000 us off a deadline.  (It takes more off the deadlines of
\* critical blocks only.)  The slack is the one field whose term has no upper limit, so
\* a bound on the score of such a block needs one for its slack.
LeastSlack == -5000
SlacksFit == \A s \in Slacks : s >= LeastSlack

\* The terms of effective_deadline_score for the deadline and the slack.
DeadlineNearness(z) == Shortfall(z, 10000, 20)
SlackNearness(z) == Shortfall(z, 5000, 10)

\* Both grow when the time shrinks,
LEMMA NearnessFacts ==
    ASSUME NEW x \in Int \cup {Absent}, NEW y \in Int \cup {Absent}, NoLater(y, x)
    PROVE  /\ DeadlineNearness(x) \in Int /\ DeadlineNearness(y) \in Int
           /\ 0 <= DeadlineNearness(x) /\ DeadlineNearness(x) <= DeadlineNearness(y)
           /\ SlackNearness(x) \in Int /\ SlackNearness(y) \in Int
           /\ 0 <= SlackNearness(x) /\ SlackNearness(x) <= SlackNearness(y)
<1> DEFINE a == 10000  d == 20  e == 5000  f == 10
<1>1. a \in Nat /\ e \in Nat /\ d \in Divisors /\ f \in Divisors
  BY SMT DEF Divisors
<1>2. DeadlineNearness(x) = Shortfall(x, a, d) /\ DeadlineNearness(y) = Shortfall(y, a, d)
  BY SMT DEF DeadlineNearness
<1>3. SlackNearness(x) = Shortfall(x, e, f) /\ SlackNearness(y) = Shortfall(y, e, f)
  BY SMT DEF SlackNearness
<1> HIDE DEF a, d, e, f
<1>4. /\ Shortfall(x, a, d) \in Int /\ Shortfall(y, a, d) \in Int
      /\ 0 <= Shortfall(x, a, d) /\ Shortfall(x, a, d) <= Shortfall(y, a, d)
  BY <1>1, ShortfallFacts
<1>5. /\ Shortfall(x, e, f) \in Int /\ Shortfall(y, e, f) \in Int
      /\ 0 <= Shortfall(x, e, f) /\ Shortfall(x, e, f) <= Shortfall(y, e, f)
  BY <1>1, ShortfallFacts
<1> QED
  BY <1>2, <1>3, <1>4, <1>5

\* and are bounded when the time is.
LEMMA NearnessBounds ==
    ASSUME NEW x \in Int \cup {Absent}
    PROVE  /\ (x = Absent \/ x >= 0) => DeadlineNearness(x) <= 500 * Unit
           /\ (x = Absent \/ x >= LeastSlack) => SlackNearness(x) <= 1000 * Unit
<1>1. 10 \in Divisors /\ 20 \in Divisors
  BY DEF Divisors
<1>2. CASE x = Absent
  <2>1. DeadlineNearness(x) = 0 /\ SlackNearness(x) = 0
    BY SMT, <1>2 DEF DeadlineNearness, SlackNearness, Shortfall
  <2> QED
    BY SMT, <2>1, OverValues
<1>3. CASE x # Absent
  <2>1. x \in Int
    BY <1>3
  <2>2. ASSUME x >= 0 PROVE over(Max({0, 10000 - x}), 20) <= over(10000, 20)
    <3>1. Max({0, 10000 - x}) \in Int /\ Max({0, 10000 - x}) <= 10000
      BY SMT, <2>1, <2>2, MaxMinOfTwo
    <3> QED
      BY SMT, <1>1, <3>1, OverGrows
  <2>3. ASSUME x >= LeastSlack PROVE over(Max({0, 5000 - x}), 10) <= over(10000, 10)
    <3>1. Max({0, 5000 - x}) \in Int /\ Max({0, 5000 - x}) <= 10000
      BY SMT, <2>1, <2>3, MaxMinOfTwo DEF LeastSlack
    <3> QED
      BY SMT, <1>1, <3>1, OverGrows
  <2> QED
    BY SMT, <1>3, <2>2, <2>3, OverValues DEF DeadlineNearness, SlackNearness, Shortfall
<1> QED
  BY <1>2, <1>3

\* A higher cost weighs at least as much, up to the limit.
LEMMA CostFacts ==
    ASSUME NEW x \in Nat \cup {Absent}, NEW y \in Nat \cup {Absent}, NoLess(y, x),
           NEW limit \in Nat, NEW d \in Divisors
    PROVE  /\ CappedCost(x, limit, d) \in Int /\ CappedCost(y, limit, d) \in Int
           /\ 0 <= CappedCost(x, limit, d) /\ CappedCost(x, limit, d) <= CappedCost(y, limit, d)
           /\ CappedCost(y, limit, d) <= over(limit, 1)
<1>1. over(limit, 1) \in Int /\ 0 <= over(limit, 1)
  <2>1. 1 \in Divisors
    BY DEF Divisors
  <2> QED
    BY <2>1, OverTypes
<1>2. ASSUME NEW z \in Nat
      PROVE  /\ over(z, d) \in Int /\ 0 <= over(z, d)
             /\ Min({over(z, d), over(limit, 1)})
                  = IF over(z, d) <= over(limit, 1) THEN over(z, d) ELSE over(limit, 1)
  BY <1>1, OverTypes, MaxMinOfTwo
<1>3. ASSUME x # Absent, y # Absent
      PROVE  over(x, d) <= over(y, d)
  BY <1>3, OverGrows DEF NoLess
<1> QED
  BY <1>1, <1>2, <1>3 DEF NoLess, CappedCost

\* An earlier target step is at least as near.
LEMMA TargetFacts ==
    ASSUME NEW x \in Nat \cup {Absent}, NEW y \in Nat \cup {Absent}, NoLater(y, x)
    PROVE  /\ TargetNearness(x) \in Int /\ TargetNearness(y) \in Int
           /\ 0 <= TargetNearness(x) /\ TargetNearness(x) <= TargetNearness(y)
           /\ TargetNearness(y) <= over(64, 1)
<1> DEFINE f(z) == TargetNearness(z)
           h(z) == IF z # Absent THEN Max({0, 64 - Max({z - current_step, 0})}) ELSE 0
<1>0. current_step \in Nat /\ 1 \in Divisors
  BY FieldsAssumption DEF Divisors
<1>1. ASSUME NEW z \in Nat
      PROVE  /\ Max({z - current_step, 0}) = IF z >= current_step THEN z - current_step ELSE 0
             /\ Max({0, 64 - Max({z - current_step, 0})})
                  = IF Max({z - current_step, 0}) >= 64 THEN 0 ELSE 64 - Max({z - current_step, 0})
  <2>1. Max({z - current_step, 0}) = IF z >= current_step THEN z - current_step ELSE 0
    BY <1>0, MaxMinOfTwo
  <2>2. 64 - Max({z - current_step, 0}) \in Int
    BY <1>0, <2>1
  <2>3. \A e \in Int : Max({0, e}) = IF 0 >= e THEN 0 ELSE e
    BY MaxMinOfTwo
  <2> QED
    BY <1>0, <2>1, <2>2, <2>3
<1>2. ASSUME NEW z \in Nat
      PROVE  Max({0, 64 - Max({z - current_step, 0})})
               = IF z <= current_step THEN 64 ELSE
                 IF z - current_step >= 64 THEN 0 ELSE 64 - (z - current_step)
  BY <1>0, <1>1
<1>3. h(x) \in 0 .. 64 /\ h(y) \in 0 .. 64 /\ h(x) <= h(y)
  BY <1>0, <1>2, FieldsAssumption DEF NoLater
<1>4. over(0, 1) = 0
  BY <1>0, OverGrows
<1>5. f(x) = over(h(x), 1) /\ f(y) = over(h(y), 1)
  BY <1>4 DEF TargetNearness
<1> HIDE DEF f, h
<1>6. /\ over(h(x), 1) \in Int /\ over(h(y), 1) \in Int /\ over(h(x), 1) <= over(h(y), 1)
      /\ 0 <= over(h(x), 1) /\ over(h(y), 1) <= over(64, 1)
  <2>1. h(x) \in Nat /\ h(y) \in Nat /\ h(x) \in Int /\ h(y) \in Int /\ 64 \in Int /\ h(y) <= 64
    BY <1>3
  <2>2. over(h(x), 1) <= over(h(y), 1)
    BY <1>0, <1>3, <2>1, OverGrows
  <2>3. over(h(y), 1) <= over(64, 1)
    BY <1>0, <2>1, OverGrows
  <2> QED
    BY <1>0, <2>1, <2>2, <2>3, OverTypes
<1>7. f(x) \in Int /\ f(y) \in Int /\ 0 <= f(x) /\ f(x) <= f(y) /\ f(y) <= over(64, 1)
  BY <1>5, <1>6
<1> QED
  BY <1>7 DEF f

\* The fields that are percentages, in the multiples that the scores take.
LEMMA PercentFields ==
    ASSUME NEW b \in PolicyBlock, NEW c \in PolicyBlock, AtLeastAsUrgent(c, b)
    PROVE  /\ 2 * b.request_priority \in Nat /\ 2 * c.request_priority \in Nat
           /\ 2 * b.request_priority <= 2 * c.request_priority
           /\ 2 * c.request_priority <= 200
           /\ 100 - b.request_priority \in Nat /\ 100 - c.request_priority \in Nat
           /\ 100 - c.request_priority <= 100 - b.request_priority
           /\ 100 - c.request_priority <= 100
           /\ 7 * b.recency_score \in Nat /\ 7 * c.recency_score \in Nat
           /\ 7 * b.recency_score <= 7 * c.recency_score
           /\ 40 * b.recency_score \in Nat /\ 40 * c.recency_score \in Nat
           /\ 40 * b.recency_score <= 40 * c.recency_score
           /\ 40 * c.recency_score <= 4000
           /\ 60 * b.recency_score \in Nat /\ 60 * c.recency_score \in Nat
           /\ 60 * b.recency_score <= 60 * c.recency_score
           /\ 60 * c.recency_score <= 6000
<1> DEFINE p == b.request_priority
           q == c.request_priority
           r == b.recency_score
           s == c.recency_score
<1>1. p \in 0 .. 100 /\ q \in 0 .. 100 /\ r \in 0 .. 100 /\ s \in 0 .. 100
  BY FieldTypes
<1>2. p <= q /\ r <= s
  BY DEF AtLeastAsUrgent
<1> HIDE DEF p, q, r, s
<1>3. /\ 2 * p \in Nat /\ 2 * q \in Nat /\ 2 * p <= 2 * q /\ 2 * q <= 200
      /\ 100 - p \in Nat /\ 100 - q \in Nat /\ 100 - q <= 100 - p /\ 100 - q <= 100
  BY SMT, <1>1, <1>2
<1>4. /\ 7 * r \in Nat /\ 7 * s \in Nat /\ 7 * r <= 7 * s
      /\ 40 * r \in Nat /\ 40 * s \in Nat /\ 40 * r <= 40 * s /\ 40 * s <= 4000
      /\ 60 * r \in Nat /\ 60 * s \in Nat /\ 60 * r <= 60 * s /\ 60 * s <= 6000
  BY SMT, <1>1, <1>2
<1> QED
  BY <1>3, <1>4 DEF p, q, r, s

\* A nearer reuse, seen as a cost of keeping the block, is no higher.
LEMMA ReuseOrder ==
    ASSUME NEW b \in PolicyBlock, NEW c \in PolicyBlock, AtLeastAsUrgent(c, b)
    PROVE  /\ b.expected_reuse_window_tokens \in Nat \cup {Absent}
           /\ c.expected_reuse_window_tokens \in Nat \cup {Absent}
           /\ NoLess(b.expected_reuse_window_tokens, c.expected_reuse_window_tokens)
<1>1. b.expected_reuse_window_tokens \in Nat /\ c.expected_reuse_window_tokens \in Nat
  BY FieldTypes
<1>2. c.expected_reuse_window_tokens <= b.expected_reuse_window_tokens
  BY DEF AtLeastAsUrgent
<1> QED
  BY <1>1, <1>2, FieldsAssumption DEF NoLess

\* So this cost weighs less, and the cost of recomputation weighs more.
LEMMA CostsOrdered ==
    ASSUME NEW b \in PolicyBlock, NEW c \in PolicyBlock, AtLeastAsUrgent(c, b),
           NEW limit \in Nat, NEW d \in Divisors
    PROVE  LET w(x) == CappedCost(x.expected_reuse_window_tokens, limit, d)
               r(x) == CappedCost(x.recompute_cost_us, limit, d)
           IN  /\ w(b) \in Int /\ w(c) \in Int
               /\ 0 <= w(c) /\ w(c) <= w(b) /\ w(b) <= over(limit, 1)
               /\ r(b) \in Int /\ r(c) \in Int
               /\ 0 <= r(b) /\ r(b) <= r(c) /\ r(c) <= over(limit, 1)
<1> DEFINE s == b.expected_reuse_window_tokens
           t == c.expected_reuse_window_tokens
           y == b.recompute_cost_us
           z == c.recompute_cost_us
<1>1. s \in Nat \cup {Absent} /\ t \in Nat \cup {Absent} /\ NoLess(s, t)
  BY ReuseOrder
<1>2. y \in Nat \cup {Absent} /\ z \in Nat \cup {Absent}
  BY FieldTypes
<1>3. NoLess(z, y)
  BY DEF AtLeastAsUrgent
<1> HIDE DEF s, t, y, z
<1>4. /\ CappedCost(s, limit, d) \in Int /\ CappedCost(t, limit, d) \in Int
      /\ 0 <= CappedCost(t, limit, d) /\ CappedCost(t, limit, d) <= CappedCost(s, limit, d)
      /\ CappedCost(s, limit, d) <= over(limit, 1)
  BY <1>1, CostFacts
<1>5. /\ CappedCost(y, limit, d) \in Int /\ CappedCost(z, limit, d) \in Int
      /\ 0 <= CappedCost(y, limit, d) /\ CappedCost(y, limit, d) <= CappedCost(z, limit, d)
      /\ CappedCost(z, limit, d) <= over(limit, 1)
  BY <1>2, <1>3, CostFacts
<1> QED
  BY <1>4, <1>5 DEF s, t, y, z

-----------------------------------------------------------------------------
(***************************************************************************)
(* The scores: each grows, or shrinks, with urgency, and has the bounds    *)
(* that tell critical blocks from the others                               *)
(***************************************************************************)
\* effective_deadline_score grows with urgency; it is high for a critical block that
\* is pinned, and limited for any other that is not.
LEMMA EffectiveScore ==
    ASSUME NEW b \in PolicyBlock, NEW c \in PolicyBlock, AtLeastAsUrgent(c, b)
    PROVE  /\ effective_deadline_score(b) \in Int /\ effective_deadline_score(c) \in Int
           /\ 0 <= effective_deadline_score(b)
           /\ effective_deadline_score(b) <= effective_deadline_score(c)
           /\ SlacksFit /\ ~ c.pin_requested /\ c.priority # "DECODE_CRITICAL"
              => effective_deadline_score(c) <= 2214 * Unit
           /\ c.pin_requested /\ c.priority = "DECODE_CRITICAL"
              => effective_deadline_score(c) >= 700 * Unit
<1> DEFINE limit == 250
           rate == 25
           d(x) == DeadlineNearness(x.deadline_us)
           s(x) == SlackNearness(x.slack_us)
           t(x) == TargetNearness(x.target_decode_step)
           q(x) == over(2 * x.request_priority, 1)
           p(x) == over(CASE x.phase = "DECODE" -> 120 [] x.phase = "VERIFY" -> 30 [] OTHER -> 0, 1)
           w(x) == over(CASE x.priority = "DECODE_CRITICAL" -> 300 [] x.priority = "HOT" -> 80
                          [] x.priority = "WARM" -> 30 [] OTHER -> 0, 1)
           r(x) == CappedCost(x.recompute_cost_us, limit, rate)
           n(x) == IF x.pin_requested THEN over(400, 1) ELSE 0
<1>a. Unit \in Nat /\ Unit > 0 /\ \A k \in Int : over(k, 1) = k * Unit
  BY OverValues
<1>b. 1 \in Divisors /\ 10 \in Divisors /\ 20 \in Divisors /\ 25 \in Divisors
  BY DEF Divisors
<1>c. limit \in Nat /\ rate \in Divisors /\ over(limit, 1) = 250 * Unit
  BY SMT, <1>a, <1>b
<1>1. d(b) \in Int /\ d(c) \in Int /\ 0 <= d(b) /\ d(b) <= d(c) /\ d(c) <= 500 * Unit
  <2>1. b.deadline_us \in Nat \cup {Absent} /\ c.deadline_us \in Nat \cup {Absent}
    BY FieldTypes
  <2>2. NoLater(c.deadline_us, b.deadline_us)
    BY DEF AtLeastAsUrgent
  <2>3. b.deadline_us \in Int \cup {Absent} /\ c.deadline_us \in Int \cup {Absent}
    BY <2>1
  <2>4. c.deadline_us = Absent \/ c.deadline_us >= 0
    BY <2>1
  <2> QED
    <3>1. d(b) \in Int /\ d(c) \in Int /\ 0 <= d(b) /\ d(b) <= d(c)
      BY <2>2, <2>3, NearnessFacts
    <3>2. d(c) <= 500 * Unit
      <4> DEFINE z == c.deadline_us
      <4>1. z \in Int \cup {Absent} /\ (z = Absent \/ z >= 0)
        BY <2>3, <2>4
      <4> HIDE DEF z
      <4>2. DeadlineNearness(z) <= 500 * Unit
        BY <4>1, NearnessBounds
      <4> QED
        BY <4>2 DEF z
    <3> QED
      BY <3>1, <3>2
<1>2. /\ s(b) \in Int /\ s(c) \in Int /\ 0 <= s(b) /\ s(b) <= s(c)
      /\ SlacksFit => s(c) <= 1000 * Unit
  <2>1. b.slack_us \in Slacks \cup {Absent} /\ c.slack_us \in Slacks \cup {Absent}
    BY FieldTypes
  <2>2. NoLater(c.slack_us, b.slack_us)
    BY DEF AtLeastAsUrgent
  <2>3. b.slack_us \in Int \cup {Absent} /\ c.slack_us \in Int \cup {Absent}
    BY <2>1, FieldsAssumption
  <2>4. SlacksFit => c.slack_us = Absent \/ c.slack_us >= LeastSlack
    BY <2>1 DEF SlacksFit
  <2> QED
    <3>1. s(b) \in Int /\ s(c) \in Int /\ 0 <= s(b) /\ s(b) <= s(c)
      BY <2>2, <2>3, NearnessFacts
    <3>2. ASSUME SlacksFit
          PROVE  s(c) <= 1000 * Unit
      <4>1. c.slack_us = Absent \/ c.slack_us >= LeastSlack
        BY <2>4, <3>2
      <4> QED
        <5> DEFINE z == c.slack_us
        <5>1. z \in Int \cup {Absent} /\ (z = Absent \/ z >= LeastSlack)
          BY <2>3, <4>1
        <5> HIDE DEF z
        <5>2. SlackNearness(z) <= 1000 * Unit
          BY <5>1, NearnessBounds
        <5> QED
          BY <5>2 DEF z
    <3> QED
      BY <3>1, <3>2
<1>3. t(b) \in Int /\ t(c) \in Int /\ 0 <= t(b) /\ t(b) <= t(c) /\ t(c) <= 64 * Unit
  <2>1. /\ b.target_decode_step \in Nat \cup {Absent} /\ c.target_decode_step \in Nat \cup {Absent}
    BY FieldTypes
  <2>2. NoLater(c.target_decode_step, b.target_decode_step)
    BY DEF AtLeastAsUrgent
  <2>3. /\ t(b) \in Int /\ t(c) \in Int /\ 0 <= t(b) /\ t(b) <= t(c) /\ t(c) <= over(64, 1)
    BY <2>1, <2>2, TargetFacts
  <2> QED
    BY <1>a, <2>3
<1>4. q(b) \in Int /\ q(c) \in Int /\ 0 <= q(b) /\ q(b) <= q(c) /\ q(c) <= 200 * Unit
  <2>1. /\ 2 * b.request_priority \in Nat /\ 2 * c.request_priority \in Nat
        /\ 2 * b.request_priority <= 2 * c.request_priority /\ 2 * c.request_priority <= 200
    BY PercentFields
  <2>2. q(b) <= q(c) /\ q(c) <= over(200, 1)
    BY SMT, <1>b, <2>1, OverGrows
  <2>3. q(b) \in Int /\ q(c) \in Int /\ 0 <= q(b)
    BY <1>b, <2>1, OverTypes
  <2> QED
    BY SMT, <1>a, <2>2, <2>3
<1>5. p(b) \in Int /\ p(c) \in Int /\ 0 <= p(b) /\ p(b) <= p(c) /\ p(c) <= 120 * Unit
  <2>1. NotBefore(PhaseOrder, c.phase, b.phase)
    BY DEF AtLeastAsUrgent
  <2> QED
    BY <1>a, <2>1, PhaseCases
<1>6. /\ w(b) \in Int /\ w(c) \in Int /\ 0 <= w(b) /\ w(b) <= w(c)
      /\ c.priority # "DECODE_CRITICAL" => w(c) <= 80 * Unit
      /\ c.priority = "DECODE_CRITICAL" => w(c) = 300 * Unit
  <2>1. NotBefore(PriorityOrder, c.priority, b.priority)
    BY DEF AtLeastAsUrgent
  <2> QED
    BY <1>a, <2>1, PriorityCases
<1>7. r(b) \in Int /\ r(c) \in Int /\ 0 <= r(b) /\ r(b) <= r(c) /\ r(c) <= 250 * Unit
  <2>1. r(b) \in Int /\ r(c) \in Int /\ 0 <= r(b) /\ r(b) <= r(c) /\ r(c) <= over(limit, 1)
    <3> HIDE DEF limit, rate
    <3> QED
      BY <1>c, CostsOrdered
  <2> QED
    BY <1>c, <2>1
<1>8. /\ n(b) \in Int /\ n(c) \in Int /\ 0 <= n(b) /\ n(b) <= n(c)
      /\ ~ c.pin_requested => n(c) = 0
      /\ c.pin_requested => n(c) = 400 * Unit
  <2>1. b.pin_requested => c.pin_requested
    BY DEF AtLeastAsUrgent
  <2> QED
    BY <1>a, <2>1
<1>9. ASSUME NEW x
      PROVE  effective_deadline_score(x) = d(x) + s(x) + t(x) + q(x) + p(x) + w(x) + r(x) + n(x)
  BY DEF effective_deadline_score, DeadlineNearness, SlackNearness, Shortfall, TargetNearness, CappedCost
<1> HIDE DEF d, s, t, q, p, w, r, n
<1> QED
  BY <1>a, <1>1, <1>2, <1>3, <1>4, <1>5, <1>6, <1>7, <1>8, <1>9

\* eviction_risk_score grows with urgency, with bounds as above.
LEMMA RiskScore ==
    ASSUME NEW b \in PolicyBlock, NEW c \in PolicyBlock, AtLeastAsUrgent(c, b)
    PROVE  /\ eviction_risk_score(b) \in Int /\ eviction_risk_score(c) \in Int
           /\ eviction_risk_score(b) <= eviction_risk_score(c)
           /\ SlacksFit /\ ~ c.pin_requested /\ c.priority # "DECODE_CRITICAL"
              => eviction_risk_score(c) <= 2269 * Unit
           /\ c.pin_requested /\ c.priority = "DECODE_CRITICAL"
              => eviction_risk_score(c) >= 405 * Unit
<1> DEFINE limit == 80
           rate == 8
           e(x) == effective_deadline_score(x)
           m(x) == over(40 * x.recency_score, 100)
           f(x) == over(CASE x.draft = "committed" -> 15 [] x.draft = "draft" -> -35 [] OTHER -> 0, 1)
           g(x) == IF x.recompute_ok THEN over(25, 1) ELSE 0
           h(x) == IF x.compression_ok THEN over(15, 1) ELSE 0
           w(x) == CappedCost(x.expected_reuse_window_tokens, limit, rate)
           p(x) == over(CASE x.phase = "DONE" -> 140 [] x.phase = "IDLE" -> 60 [] OTHER -> 0, 1)
<1>a. Unit \in Nat /\ Unit > 0 /\ \A k \in Int : over(k, 1) = k * Unit
  BY OverValues
<1>b. 1 \in Divisors /\ 8 \in Divisors /\ 100 \in Divisors
  BY DEF Divisors
<1>c. limit \in Nat /\ rate \in Divisors /\ over(limit, 1) = 80 * Unit
  BY SMT, <1>a, <1>b
<1>1. m(b) \in Int /\ m(c) \in Int /\ 0 <= m(b) /\ m(b) <= m(c) /\ m(c) <= 40 * Unit
  <2>1. /\ 40 * b.recency_score \in Nat /\ 40 * c.recency_score \in Nat
        /\ 40 * b.recency_score <= 40 * c.recency_score /\ 40 * c.recency_score <= 4000
    BY PercentFields
  <2>2. m(b) <= m(c) /\ m(c) <= over(4000, 100)
    BY SMT, <1>b, <2>1, OverGrows
  <2>3. m(b) \in Int /\ m(c) \in Int /\ 0 <= m(b)
    BY SMT, <1>b, <2>1, OverTypes
  <2> QED
    BY SMT, <1>a, <2>2, <2>3, OverValues
<1>2. /\ f(b) \in Int /\ f(c) \in Int /\ f(b) <= f(c)
      /\ -35 * Unit <= f(c) /\ f(c) <= 15 * Unit
  <2>1. NotBefore(DraftOrder, c.draft, b.draft)
    BY DEF AtLeastAsUrgent
  <2> QED
    BY <1>a, <2>1, DraftCases
<1>3. g(b) \in Int /\ g(c) \in Int /\ 0 <= g(c) /\ g(c) <= g(b) /\ g(c) <= 25 * Unit
  <2>1. c.recompute_ok => b.recompute_ok
    BY DEF AtLeastAsUrgent
  <2> QED
    BY <1>a, <2>1
<1>4. h(b) \in Int /\ h(c) \in Int /\ 0 <= h(c) /\ h(c) <= h(b) /\ h(c) <= 15 * Unit
  <2>1. c.compression_ok => b.compression_ok
    BY DEF AtLeastAsUrgent
  <2> QED
    BY <1>a, <2>1
<1>5. w(b) \in Int /\ w(c) \in Int /\ 0 <= w(c) /\ w(c) <= w(b) /\ w(c) <= 80 * Unit
  <2>1. w(b) \in Int /\ w(c) \in Int /\ 0 <= w(c) /\ w(c) <= w(b) /\ w(b) <= over(limit, 1)
    <3> HIDE DEF limit, rate
    <3> QED
      BY <1>c, CostsOrdered
  <2> HIDE DEF limit, w
  <2> QED
    BY <1>a, <1>c, <2>1
<1>6. p(b) \in Int /\ p(c) \in Int /\ 0 <= p(c) /\ p(c) <= p(b) /\ p(c) <= 140 * Unit
  <2>1. NotBefore(PhaseOrder, c.phase, b.phase)
    BY DEF AtLeastAsUrgent
  <2> QED
    BY <1>a, <2>1, PhaseCases
<1>7. /\ e(b) \in Int /\ e(c) \in Int /\ e(b) <= e(c)
      /\ SlacksFit /\ ~ c.pin_requested /\ c.priority # "DECODE_CRITICAL" => e(c) <= 2214 * Unit
      /\ c.pin_requested /\ c.priority = "DECODE_CRITICAL" => e(c) >= 700 * Unit
  BY EffectiveScore
<1>8. ASSUME NEW x
      PROVE  eviction_risk_score(x) = e(x) + m(x) + f(x) - g(x) - h(x) - w(x) - p(x)
  BY DEF eviction_risk_score, CappedCost
<1> HIDE DEF e, m, f, g, h, w, p
<1> QED
  BY <1>a, <1>1, <1>2, <1>3, <1>4, <1>5, <1>6, <1>7, <1>8

\* How many steps ago the block was used.
Age(b) == Max({current_step - b.last_access_step, 0})

\* A block that was used later is no older.
LEMMA AgeOrder ==
    ASSUME NEW b \in PolicyBlock, NEW c \in PolicyBlock, AtLeastAsUrgent(c, b)
    PROVE  /\ Age(b) \in Nat \cup {Absent} /\ Age(c) \in Nat \cup {Absent}
           /\ Age(b) # Absent /\ Age(c) # Absent
           /\ NoLess(Age(b), Age(c))
<1>1. b.last_access_step \in Nat /\ c.last_access_step \in Nat /\ current_step \in Nat
  BY FieldTypes, FieldsAssumption
<1>2. b.last_access_step <= c.last_access_step
  BY DEF AtLeastAsUrgent
<1>3. \A e \in Int : Max({e, 0}) = IF e >= 0 THEN e ELSE 0
  BY MaxMinOfTwo
<1>4. current_step - b.last_access_step \in Int /\ current_step - c.last_access_step \in Int
  BY <1>1
<1>5. Age(b) \in Nat /\ Age(c) \in Nat /\ Age(c) <= Age(b)
  BY <1>1, <1>2, <1>3, <1>4 DEF Age
<1> QED
  BY <1>5, FieldsAssumption DEF NoLess

\* The part of a score that the risk takes off.
LEMMA RiskPart ==
    ASSUME NEW x \in Int, NEW y \in Int, x <= y
    PROVE  /\ Max({x, 0}) \div 40 \in Int /\ Max({y, 0}) \div 40 \in Int
           /\ Max({x, 0}) \div 40 <= Max({y, 0}) \div 40 /\ 0 <= Max({x, 0}) \div 40
           /\ x \div 18 \in Int /\ y \div 18 \in Int /\ x \div 18 <= y \div 18
           /\ y <= 2269 * Unit => Max({y, 0}) \div 40 <= 57 * Unit
           /\ y <= 2269 * Unit => y \div 18 <= 127 * Unit
           /\ x >= 0 => x \div 18 >= 0
<1>1. /\ Max({x, 0}) = IF x >= 0 THEN x ELSE 0
      /\ Max({y, 0}) = IF y >= 0 THEN y ELSE 0
  BY MaxMinOfTwo
<1> DEFINE m == Max({x, 0})
           n == Max({y, 0})
<1>2. m \in Nat /\ n \in Nat /\ m <= n /\ (y <= 2269 * Unit => n <= 2269 * Unit)
  BY <1>1, OverValues
<1> HIDE DEF m, n
<1>3. /\ m \div 40 \in Int /\ n \div 40 \in Int /\ m \div 40 <= n \div 40 /\ 0 <= m \div 40
      /\ 40 * (n \div 40) <= n
  BY SMT, <1>2
<1>4. /\ x \div 18 \in Int /\ y \div 18 \in Int /\ x \div 18 <= y \div 18
      /\ 18 * (y \div 18) <= y /\ (x >= 0 => x \div 18 >= 0)
  BY SMT
<1>5. y <= 2269 * Unit => n \div 40 <= 57 * Unit /\ y \div 18 <= 127 * Unit
  BY SMT, <1>2, <1>3, <1>4, OverValues
<1> QED
  BY <1>3, <1>4, <1>5 DEF m, n

\* IntentAwarePolicy's score shrinks with urgency, with bounds on both sides of -1300.
LEMMA IntentScore ==
    ASSUME NEW b \in PolicyBlock, NEW c \in PolicyBlock, AtLeastAsUrgent(c, b)
    PROVE  /\ intent_score(b) \in Int /\ intent_score(c) \in Int
           /\ intent_score(c) <= intent_score(b)
           /\ SlacksFit /\ ~ c.pin_requested /\ c.priority # "DECODE_CRITICAL"
              => intent_score(c) >= -282 * Unit
           /\ c.pin_requested /\ c.priority = "DECODE_CRITICAL"
              => intent_score(c) <= -1330 * Unit
<1> DEFINE limitW == 120
           rateW == 6
           limitR == 180
           rateR == 40
           limitA == 35
           rateA == 4
           v(x) == priority_weight(x)
           n(x) == IF x.pin_requested THEN over(900, 1) ELSE 0
           p(x) == over(CASE x.phase = "DONE" -> 120 [] x.phase = "IDLE" -> 50 [] OTHER -> 0, 1)
           q(x) == over(100 - x.request_priority, 1)
           w(x) == CappedCost(x.expected_reuse_window_tokens, limitW, rateW)
           g(x) == IF x.recompute_ok THEN over(30, 1) ELSE 0
           h(x) == IF x.compression_ok THEN over(20, 1) ELSE 0
           f(x) == IF x.draft = "draft" THEN over(45, 1) ELSE 0
           r(x) == CappedCost(x.recompute_cost_us, limitR, rateR)
           m(x) == over(60 * x.recency_score, 100)
           a(x) == CappedCost(Age(x), limitA, rateA)
           e(x) == Max({eviction_risk_score(x), 0}) \div 40
<1>a. Unit \in Nat /\ Unit > 0 /\ \A k \in Int : over(k, 1) = k * Unit
  BY OverValues
<1>b. /\ 1 \in Divisors /\ 4 \in Divisors /\ 6 \in Divisors /\ 40 \in Divisors
      /\ 100 \in Divisors
  BY DEF Divisors
<1>c. /\ limitW \in Nat /\ rateW \in Divisors /\ over(limitW, 1) = 120 * Unit
      /\ limitR \in Nat /\ rateR \in Divisors /\ over(limitR, 1) = 180 * Unit
      /\ limitA \in Nat /\ rateA \in Divisors /\ over(limitA, 1) = 35 * Unit
  BY SMT, <1>a, <1>b
<1>1. /\ v(b) \in Int /\ v(c) \in Int /\ v(c) <= v(b)
      /\ c.priority # "DECODE_CRITICAL" => v(c) >= 15 * Unit
      /\ c.priority = "DECODE_CRITICAL" => v(c) = -900 * Unit
  <2>1. NotBefore(PriorityOrder, c.priority, b.priority)
    BY DEF AtLeastAsUrgent
  <2> QED
    BY SMT, <1>a, <2>1, PriorityCases DEF priority_weight
<1>2. /\ n(b) \in Int /\ n(c) \in Int /\ n(b) <= n(c)
      /\ ~ c.pin_requested => n(c) = 0
      /\ c.pin_requested => n(c) = 900 * Unit
  <2>1. b.pin_requested => c.pin_requested
    BY DEF AtLeastAsUrgent
  <2> QED
    BY SMT, <1>a, <2>1
<1>3. p(b) \in Int /\ p(c) \in Int /\ 0 <= p(c) /\ p(c) <= p(b) /\ p(c) <= 120 * Unit
  <2>1. NotBefore(PhaseOrder, c.phase, b.phase)
    BY DEF AtLeastAsUrgent
  <2> QED
    BY SMT, <1>a, <2>1, PhaseCases
<1>4. q(b) \in Int /\ q(c) \in Int /\ 0 <= q(c) /\ q(c) <= q(b) /\ q(c) <= 100 * Unit
  <2>1. /\ 100 - b.request_priority \in Nat /\ 100 - c.request_priority \in Nat
        /\ 100 - c.request_priority <= 100 - b.request_priority
        /\ 100 - c.request_priority <= 100
    BY PercentFields
  <2>2. q(c) <= q(b) /\ q(c) <= over(100, 1)
    BY SMT, <1>b, <2>1, OverGrows
  <2>3. q(b) \in Int /\ q(c) \in Int /\ 0 <= q(c)
    BY <1>b, <2>1, OverTypes
  <2> QED
    BY SMT, <1>a, <2>2, <2>3
<1>5. w(b) \in Int /\ w(c) \in Int /\ 0 <= w(c) /\ w(c) <= w(b) /\ w(c) <= 120 * Unit
  <2> HIDE DEF limitW, rateW
  <2>1. w(b) \in Int /\ w(c) \in Int /\ 0 <= w(c) /\ w(c) <= w(b) /\ w(b) <= over(limitW, 1)
    BY <1>c, CostsOrdered
  <2> HIDE DEF w
  <2> QED
    BY <1>a, <1>c, <2>1
<1>6. g(b) \in Int /\ g(c) \in Int /\ 0 <= g(c) /\ g(c) <= g(b) /\ g(c) <= 30 * Unit
  <2>1. c.recompute_ok => b.recompute_ok
    BY DEF AtLeastAsUrgent
  <2> QED
    BY SMT, <1>a, <2>1
<1>7. h(b) \in Int /\ h(c) \in Int /\ 0 <= h(c) /\ h(c) <= h(b) /\ h(c) <= 20 * Unit
  <2>1. c.compression_ok => b.compression_ok
    BY DEF AtLeastAsUrgent
  <2> QED
    BY SMT, <1>a, <2>1
<1>8. f(b) \in Int /\ f(c) \in Int /\ 0 <= f(c) /\ f(c) <= f(b) /\ f(c) <= 45 * Unit
  <2>1. NotBefore(DraftOrder, c.draft, b.draft)
    BY DEF AtLeastAsUrgent
  <2> QED
    BY SMT, <1>a, <2>1, DraftCases
<1>9. r(b) \in Int /\ r(c) \in Int /\ 0 <= r(b) /\ r(b) <= r(c) /\ r(c) <= 180 * Unit
  <2> HIDE DEF limitR, rateR
  <2>1. r(b) \in Int /\ r(c) \in Int /\ 0 <= r(b) /\ r(b) <= r(c) /\ r(c) <= over(limitR, 1)
    BY <1>c, CostsOrdered
  <2> HIDE DEF r
  <2> QED
    BY <1>a, <1>c, <2>1
<1>10. m(b) \in Int /\ m(c) \in Int /\ 0 <= m(b) /\ m(b) <= m(c) /\ m(c) <= 60 * Unit
  <2>1. /\ 60 * b.recency_score \in Nat /\ 60 * c.recency_score \in Nat
        /\ 60 * b.recency_score <= 60 * c.recency_score /\ 60 * c.recency_score <= 6000
    BY PercentFields
  <2>2. m(b) <= m(c) /\ m(c) <= over(6000, 100)
    BY SMT, <1>b, <2>1, OverGrows
  <2>3. m(b) \in Int /\ m(c) \in Int /\ 0 <= m(b)
    BY SMT, <1>b, <2>1, OverTypes
  <2> QED
    BY SMT, <1>a, <2>2, <2>3, OverValues
<1>11. a(b) \in Int /\ a(c) \in Int /\ 0 <= a(c) /\ a(c) <= a(b) /\ a(c) <= 35 * Unit
  <2> HIDE DEF limitA, rateA
  <2>1. a(b) \in Int /\ a(c) \in Int /\ 0 <= a(c) /\ a(c) <= a(b) /\ a(b) <= over(limitA, 1)
    BY <1>c, AgeOrder, CostFacts
  <2> HIDE DEF a
  <2> QED
    BY <1>a, <1>c, <2>1
<1>12. /\ e(b) \in Int /\ e(c) \in Int /\ 0 <= e(b) /\ e(b) <= e(c)
       /\ SlacksFit /\ ~ c.pin_requested /\ c.priority # "DECODE_CRITICAL" => e(c) <= 57 * Unit
  <2> DEFINE y == eviction_risk_score(c)
             x == eviction_risk_score(b)
  <2>1. /\ x \in Int /\ y \in Int /\ x <= y
        /\ SlacksFit /\ ~ c.pin_requested /\ c.priority # "DECODE_CRITICAL" => y <= 2269 * Unit
    BY RiskScore
  <2> HIDE DEF x, y
  <2>2. /\ Max({x, 0}) \div 40 \in Int /\ Max({y, 0}) \div 40 \in Int
        /\ Max({x, 0}) \div 40 <= Max({y, 0}) \div 40 /\ 0 <= Max({x, 0}) \div 40
        /\ y <= 2269 * Unit => Max({y, 0}) \div 40 <= 57 * Unit
    BY <2>1, RiskPart
  <2> QED
    BY <2>1, <2>2 DEF x, y
<1>13. ASSUME NEW x
       PROVE  Age(x) # Absent =>
              intent_score(x) = v(x) - n(x) + p(x) + q(x) + w(x) + g(x) + h(x) + f(x)
                                - r(x) - m(x) + a(x) - e(x)
  BY DEF intent_score, CappedCost, Age
<1>14. Age(b) # Absent /\ Age(c) # Absent
  BY AgeOrder
<1> HIDE DEF v, n, p, q, w, g, h, f, r, m, a, e
<1> QED
  BY SMT, <1>a, <1>1, <1>2, <1>3, <1>4, <1>5, <1>6, <1>7, <1>8, <1>9, <1>10, <1>11, <1>12, <1>13,
     <1>14

\* The terms that DeadlineAwarePolicy adds for the deadline and the slack grow with urgency.
LEMMA DeadlineTerms ==
    ASSUME NEW b \in PolicyBlock, NEW c \in PolicyBlock, AtLeastAsUrgent(c, b)
    PROVE  /\ DeadlineTerm(b) \in Int /\ DeadlineTerm(c) \in Int
           /\ 0 <= DeadlineTerm(b) /\ DeadlineTerm(b) <= DeadlineTerm(c)
           /\ DeadlineTerm(c) <= 320 * Unit
           /\ SlackTerm(b) \in Int /\ SlackTerm(c) \in Int
           /\ 0 <= SlackTerm(b) /\ SlackTerm(b) <= SlackTerm(c)
           /\ SlackTerm(c) <= 260 * Unit
<1>a. Unit \in Nat /\ Unit > 0 /\ \A k \in Int : over(k, 1) = k * Unit
  BY OverValues
<1>1. /\ b.deadline_us \in Nat \cup {Absent} /\ c.deadline_us \in Nat \cup {Absent}
      /\ b.slack_us \in Slacks \cup {Absent} /\ c.slack_us \in Slacks \cup {Absent}
  BY FieldTypes
<1>2. NoLater(c.deadline_us, b.deadline_us) /\ NoLater(c.slack_us, b.slack_us)
  BY DEF AtLeastAsUrgent
<1>3. /\ DeadlineTerm(b) \in Int /\ DeadlineTerm(c) \in Int
      /\ 0 <= DeadlineTerm(b) /\ DeadlineTerm(b) <= DeadlineTerm(c)
      /\ DeadlineTerm(c) <= 320 * Unit
  BY SMT, <1>a, <1>1, <1>2, FieldsAssumption DEF NoLater, DeadlineTerm
<1>4. /\ SlackTerm(b) \in Int /\ SlackTerm(c) \in Int
      /\ 0 <= SlackTerm(b) /\ SlackTerm(b) <= SlackTerm(c)
      /\ SlackTerm(c) <= 260 * Unit
  <2>1. b.slack_us \in Int \cup {Absent} /\ c.slack_us \in Int \cup {Absent}
    BY <1>1, FieldsAssumption
  <2> QED
    BY SMT, <1>a, <1>2, <2>1, FieldsAssumption DEF NoLater, SlackTerm
<1> QED
  BY <1>3, <1>4

\* DeadlineAwarePolicy's score shrinks with urgency, with bounds on both sides of -1300.
LEMMA DeadlineScore ==
    ASSUME NEW b \in PolicyBlock, NEW c \in PolicyBlock, AtLeastAsUrgent(c, b)
    PROVE  /\ deadline_score(b) \in Int /\ deadline_score(c) \in Int
           /\ deadline_score(c) <= deadline_score(b)
           /\ SlacksFit /\ ~ c.pin_requested /\ c.priority # "DECODE_CRITICAL"
              => deadline_score(c) > -1300 * Unit
           /\ c.pin_requested /\ c.priority = "DECODE_CRITICAL"
              => deadline_score(c) < -1300 * Unit
<1> DEFINE i(x) == intent_score(x)
           d(x) == DeadlineTerm(x)
           s(x) == SlackTerm(x)
           q(x) == IF x.request_priority >= 80 THEN over(90, 1) ELSE 0
           r(x) == IF x.recompute_cost_us # Absent /\ x.recompute_cost_us >= 4000
                   THEN over(80, 1) ELSE 0
           p(x) == IF x.phase = "DECODE" THEN over(110, 1) ELSE 0
           w(x) == IF x.priority = "DECODE_CRITICAL" THEN over(400, 1) ELSE 0
           e(x) == eviction_risk_score(x) \div 18
           n(x) == IF x.phase = "DONE" THEN over(40, 1) ELSE 0
           k(x) == IF x.priority = "COLD" /\ x.deadline_us = Absent THEN over(35, 1) ELSE 0
<1>a. Unit \in Nat /\ Unit > 0 /\ \A j \in Int : over(j, 1) = j * Unit
  BY OverValues
<1>1. /\ i(b) \in Int /\ i(c) \in Int /\ i(c) <= i(b)
      /\ SlacksFit /\ ~ c.pin_requested /\ c.priority # "DECODE_CRITICAL" => i(c) >= -282 * Unit
      /\ c.pin_requested /\ c.priority = "DECODE_CRITICAL" => i(c) <= -1330 * Unit
  BY IntentScore
<1>2. /\ d(b) \in Int /\ d(c) \in Int /\ 0 <= d(b) /\ d(b) <= d(c) /\ d(c) <= 320 * Unit
      /\ s(b) \in Int /\ s(c) \in Int /\ 0 <= s(b) /\ s(b) <= s(c) /\ s(c) <= 260 * Unit
  BY DeadlineTerms
<1>3. q(b) \in Int /\ q(c) \in Int /\ 0 <= q(b) /\ q(b) <= q(c) /\ q(c) <= 90 * Unit
  <2>1. /\ b.request_priority \in 0 .. 100 /\ c.request_priority \in 0 .. 100
        /\ b.request_priority <= c.request_priority
    BY FieldTypes DEF AtLeastAsUrgent
  <2> QED
    BY SMT, <1>a, <2>1
<1>4. r(b) \in Int /\ r(c) \in Int /\ 0 <= r(b) /\ r(b) <= r(c) /\ r(c) <= 80 * Unit
  <2>1. /\ b.recompute_cost_us \in Nat \cup {Absent} /\ c.recompute_cost_us \in Nat \cup {Absent}
    BY FieldTypes
  <2>2. NoLess(c.recompute_cost_us, b.recompute_cost_us)
    BY DEF AtLeastAsUrgent
  <2> QED
    BY SMT, <1>a, <2>1, <2>2, FieldsAssumption DEF NoLess
<1>5. /\ p(b) \in Int /\ p(c) \in Int /\ 0 <= p(b) /\ p(b) <= p(c) /\ p(c) <= 110 * Unit
      /\ n(b) \in Int /\ n(c) \in Int /\ 0 <= n(c) /\ n(c) <= n(b) /\ n(c) <= 40 * Unit
  <2>1. NotBefore(PhaseOrder, c.phase, b.phase)
    BY DEF AtLeastAsUrgent
  <2> QED
    BY SMT, <1>a, <2>1, PhaseCases
<1>6. /\ w(b) \in Int /\ w(c) \in Int /\ 0 <= w(b) /\ w(b) <= w(c)
      /\ c.priority # "DECODE_CRITICAL" => w(c) = 0
      /\ c.priority = "DECODE_CRITICAL" => w(c) = 400 * Unit /\ k(c) = 0
      /\ k(b) \in Int /\ k(c) \in Int /\ 0 <= k(c) /\ k(c) <= k(b)
  <2>1. NotBefore(PriorityOrder, c.priority, b.priority)
    BY DEF AtLeastAsUrgent
  <2>2. NoLater(c.deadline_us, b.deadline_us)
    BY DEF AtLeastAsUrgent
  <2>3. c.deadline_us = Absent => b.deadline_us = Absent
    BY <2>2 DEF NoLater
  <2> QED
    BY SMT, <1>a, <2>1, <2>3, PriorityCases
<1>7. /\ e(b) \in Int /\ e(c) \in Int /\ e(b) <= e(c)
      /\ SlacksFit /\ ~ c.pin_requested /\ c.priority # "DECODE_CRITICAL" => e(c) <= 127 * Unit
      /\ c.pin_requested /\ c.priority = "DECODE_CRITICAL" => e(c) >= 0
  <2> DEFINE y == eviction_risk_score(c)
             x == eviction_risk_score(b)
  <2>1. /\ x \in Int /\ y \in Int /\ x <= y /\ y <= y
        /\ SlacksFit /\ ~ c.pin_requested /\ c.priority # "DECODE_CRITICAL" => y <= 2269 * Unit
        /\ c.pin_requested /\ c.priority = "DECODE_CRITICAL" => y >= 405 * Unit
    BY RiskScore
  <2> HIDE DEF x, y
  <2>0. x \in Int /\ y \in Int /\ x <= y /\ y <= y
    BY <2>1
  <2>2. x \div 18 \in Int /\ y \div 18 \in Int /\ x \div 18 <= y \div 18
    BY <2>0, RiskPart
  <2>4. y <= 2269 * Unit => y \div 18 <= 127 * Unit
    BY <1>a, <2>0, RiskPart
  <2>3. y >= 0 => y \div 18 >= 0
    BY <2>0, RiskPart
  <2> QED
    BY SMT, <1>a, <2>1, <2>2, <2>3, <2>4 DEF x, y
<1>8. ASSUME NEW x
      PROVE  deadline_score(x) = i(x) - d(x) - s(x) - q(x) - r(x) - p(x) - w(x) - e(x) + n(x) + k(x)
  BY DEF deadline_score
<1> HIDE DEF i, d, s, q, r, p, w, e, n, k
<1> QED
  BY SMT, <1>a, <1>1, <1>2, <1>3, <1>4, <1>5, <1>6, <1>7, <1>8

\* PredictiveHotnessPolicy's hotness grows with urgency.
LEMMA HotnessGrows ==
    ASSUME NEW b \in PolicyBlock, NEW c \in PolicyBlock, AtLeastAsUrgent(c, b)
    PROVE  predicted_hotness(c) >= predicted_hotness(b)
<1> DEFINE m(x) == over(7 * x.recency_score, 1000)
           w(x) == over(3 * Max({0, 64 - x.expected_reuse_window_tokens}), 640)
<1>b. 640 \in Divisors /\ 1000 \in Divisors
  BY DEF Divisors
<1>1. /\ b.recency_score \in 0 .. 100 /\ c.recency_score \in 0 .. 100
      /\ b.recency_score <= c.recency_score
      /\ b.expected_reuse_window_tokens \in Nat /\ c.expected_reuse_window_tokens \in Nat
      /\ c.expected_reuse_window_tokens <= b.expected_reuse_window_tokens
  BY FieldTypes DEF AtLeastAsUrgent
<1>2. m(b) \in Int /\ m(c) \in Int /\ m(b) <= m(c)
  <2>1. /\ 7 * b.recency_score \in Nat /\ 7 * c.recency_score \in Nat
        /\ 7 * b.recency_score <= 7 * c.recency_score
    BY PercentFields
  <2> QED
    BY SMT, <1>b, <2>1, OverGrows
<1>3. w(b) \in Int /\ w(c) \in Int /\ w(b) <= w(c)
  <2> DEFINE u(x) == Max({0, 64 - x.expected_reuse_window_tokens})
  <2>1. u(b) \in Int /\ u(c) \in Int /\ u(b) <= u(c)
    BY <1>1, MaxMinOfTwo
  <2>2. 3 * u(b) \in Int /\ 3 * u(c) \in Int /\ 3 * u(b) <= 3 * u(c)
    BY SMT, <2>1
  <2> QED
    BY SMT, <1>b, <2>2, OverGrows
<1>4. predicted_hotness(b) = m(b) + w(b) /\ predicted_hotness(c) = m(c) + w(c)
  BY <1>1, FieldsAssumption DEF predicted_hotness
<1> HIDE DEF m, w
<1> QED
  BY <1>2, <1>3, <1>4

\* A set of naturals has a least element.
LEMMA LeastElement ==
    ASSUME NEW S \in SUBSET Nat, S # {}
    PROVE  Min(S) \in S
<1>1. PICK n \in S : TRUE
  OBVIOUS
<1> DEFINE Above == {i \in 1 .. n + 1 : i - 1 \in S}
<1>2. n + 1 \in Above /\ n + 1 \in Nat /\ Above \in SUBSET (1 .. n + 1)
  OBVIOUS
<1>3. PICK i \in Above : \A j \in Above : i <= j
  <2> HIDE DEF Above
  <2> QED
    BY <1>2, FirstIndex
<1>4. ASSUME NEW y \in S
      PROVE  i - 1 <= y
  <2>1. CASE y <= n
    <3>1. y + 1 \in Above
      BY <2>1
    <3>2. i <= y + 1
      BY <1>3, <3>1
    <3> QED
      BY <3>2
  <2>2. CASE ~ (y <= n)
    BY <2>2
  <2> QED
    BY <2>1, <2>2
<1>5. i - 1 \in S
  OBVIOUS
<1> HIDE DEF Above
<1> QED
  BY <1>4, <1>5 DEF Min

-----------------------------------------------------------------------------
(***************************************************************************)
(* The steps                                                               *)
(***************************************************************************)
\* The priority after a priority is in order with it, and only HOT is followed by
\* DECODE_CRITICAL.
LEMMA PrioritySuccessor ==
    ASSUME NEW x \in {"COLD", "WARM", "HOT", "DECODE_CRITICAL"}
    PROVE  /\ NotBefore(PriorityOrder, x, x)
           /\ x # "DECODE_CRITICAL" =>
                /\ Successor(PriorityOrder, x) \in {"COLD", "WARM", "HOT", "DECODE_CRITICAL"}
                /\ NotBefore(PriorityOrder, Successor(PriorityOrder, x), x)
                /\ Successor(PriorityOrder, x) = "DECODE_CRITICAL" => x = "HOT"
<1>1. DOMAIN PriorityOrder = 1 .. 4 /\ 1 \in 1 .. 4 /\ 2 \in 1 .. 4 /\ 3 \in 1 .. 4 /\ 4 \in 1 .. 4
  BY DEF PriorityOrder
<1>2. /\ PriorityOrder[1] = "COLD" /\ PriorityOrder[2] = "WARM"
      /\ PriorityOrder[3] = "HOT" /\ PriorityOrder[4] = "DECODE_CRITICAL"
  BY DEF PriorityOrder
<1>3. PICK k \in 1 .. 4 : PriorityOrder[k] = x
  BY <1>1, <1>2
<1>4. Rank(PriorityOrder, x) \in 1 .. 4 /\ PriorityOrder[Rank(PriorityOrder, x)] = x
  BY <1>1, <1>3 DEF Rank
<1> DEFINE r == Rank(PriorityOrder, x)
<1>5. r \in {1, 2, 3, 4} /\ PriorityOrder[r] = x
  BY <1>4
<1>6. NotBefore(PriorityOrder, x, x)
  BY <1>1, <1>3 DEF NotBefore
<1> HIDE DEF r
<1>7. ASSUME x # "DECODE_CRITICAL"
      PROVE  /\ r + 1 \in 1 .. 4
             /\ PriorityOrder[r + 1] \in {"COLD", "WARM", "HOT", "DECODE_CRITICAL"}
             /\ NotBefore(PriorityOrder, PriorityOrder[r + 1], x)
             /\ PriorityOrder[r + 1] = "DECODE_CRITICAL" => x = "HOT"
  <2>1. r \in {1, 2, 3}
    BY <1>2, <1>5, <1>7
  <2>2. r + 1 \in 1 .. 4 /\ r \in 1 .. 4 /\ r + 1 >= r
    BY <2>1
  <2>3. NotBefore(PriorityOrder, PriorityOrder[r + 1], x)
    BY <1>1, <1>5, <2>2 DEF NotBefore
  <2> QED
    BY <1>2, <1>5, <2>1, <2>2, <2>3
<1> QED
  BY <1>6, <1>7 DEF Successor, r

\* The phase after a phase is in order with it.
LEMMA PhaseSuccessor ==
    ASSUME NEW x \in {"DONE", "IDLE", "PREFILL", "VERIFY", "DECODE"}
    PROVE  /\ NotBefore(PhaseOrder, x, x)
           /\ x # "DECODE" =>
                /\ Successor(PhaseOrder, x) \in {"DONE", "IDLE", "PREFILL", "VERIFY", "DECODE"}
                /\ NotBefore(PhaseOrder, Successor(PhaseOrder, x), x)
<1>1. /\ DOMAIN PhaseOrder = 1 .. 5 /\ 1 \in 1 .. 5 /\ 2 \in 1 .. 5 /\ 3 \in 1 .. 5 /\ 4 \in 1 .. 5
      /\ 5 \in 1 .. 5
  BY DEF PhaseOrder
<1>2. /\ PhaseOrder[1] = "DONE" /\ PhaseOrder[2] = "IDLE" /\ PhaseOrder[3] = "PREFILL"
      /\ PhaseOrder[4] = "VERIFY" /\ PhaseOrder[5] = "DECODE"
  BY DEF PhaseOrder
<1>3. PICK k \in 1 .. 5 : PhaseOrder[k] = x
  BY <1>1, <1>2
<1> DEFINE r == Rank(PhaseOrder, x)
<1>4. r \in 1 .. 5 /\ PhaseOrder[r] = x
  BY <1>1, <1>3 DEF Rank
<1>5. r \in {1, 2, 3, 4, 5}
  BY <1>4
<1>6. NotBefore(PhaseOrder, x, x)
  BY <1>1, <1>3 DEF NotBefore
<1> HIDE DEF r
<1>7. ASSUME x # "DECODE"
      PROVE  /\ PhaseOrder[r + 1] \in {"DONE", "IDLE", "PREFILL", "VERIFY", "DECODE"}
             /\ NotBefore(PhaseOrder, PhaseOrder[r + 1], x)
  <2>1. r \in {1, 2, 3, 4}
    BY <1>2, <1>4, <1>5, <1>7
  <2>2. r + 1 \in 1 .. 5 /\ r \in 1 .. 5 /\ r + 1 >= r
    BY <2>1
  <2>3. NotBefore(PhaseOrder, PhaseOrder[r + 1], x)
    BY <1>1, <1>4, <2>2 DEF NotBefore
  <2> QED
    BY <1>2, <2>1, <2>3
<1> QED
  BY <1>6, <1>7 DEF Successor, r

\* So are the states of a speculative block.
LEMMA DraftSuccessor ==
    ASSUME NEW x \in {"draft", "none", "committed"}
    PROVE  /\ NotBefore(DraftOrder, x, x)
           /\ x # "committed" =>
                /\ Successor(DraftOrder, x) \in {"draft", "none", "committed"}
                /\ NotBefore(DraftOrder, Successor(DraftOrder, x), x)
<1>1. DOMAIN DraftOrder = 1 .. 3 /\ 1 \in 1 .. 3 /\ 2 \in 1 .. 3 /\ 3 \in 1 .. 3
  BY DEF DraftOrder
<1>2. DraftOrder[1] = "draft" /\ DraftOrder[2] = "none" /\ DraftOrder[3] = "committed"
  BY DEF DraftOrder
<1>3. PICK k \in 1 .. 3 : DraftOrder[k] = x
  BY <1>1, <1>2
<1> DEFINE r == Rank(DraftOrder, x)
<1>4. r \in 1 .. 3 /\ DraftOrder[r] = x
  BY <1>1, <1>3 DEF Rank
<1>5. r \in {1, 2, 3}
  BY <1>4
<1>6. NotBefore(DraftOrder, x, x)
  BY <1>1, <1>3 DEF NotBefore
<1> HIDE DEF r
<1>7. ASSUME x # "committed"
      PROVE  /\ DraftOrder[r + 1] \in {"draft", "none", "committed"}
             /\ NotBefore(DraftOrder, DraftOrder[r + 1], x)
  <2>1. r \in {1, 2}
    BY <1>2, <1>4, <1>5, <1>7
  <2>2. r + 1 \in 1 .. 3 /\ r \in 1 .. 3 /\ r + 1 >= r
    BY <2>1
  <2>3. NotBefore(DraftOrder, DraftOrder[r + 1], x)
    BY <1>1, <1>4, <2>2 DEF NotBefore
  <2> QED
    BY <1>2, <2>1, <2>3
<1> QED
  BY <1>6, <1>7 DEF Successor, r

\* A block is at least as urgent as itself.
LEMMA UrgencyReflexive ==
    ASSUME NEW b \in PolicyBlock
    PROVE  AtLeastAsUrgent(b, b)
<1>1. /\ NotBefore(PriorityOrder, b.priority, b.priority)
      /\ NotBefore(PhaseOrder, b.phase, b.phase)
      /\ NotBefore(DraftOrder, b.draft, b.draft)
  <2>1. /\ b.priority \in {"COLD", "WARM", "HOT", "DECODE_CRITICAL"}
        /\ b.phase \in {"DONE", "IDLE", "PREFILL", "VERIFY", "DECODE"}
        /\ b.draft \in {"draft", "none", "committed"}
    BY FieldTypes
  <2>2. NotBefore(PriorityOrder, b.priority, b.priority)
    BY <2>1, PrioritySuccessor
  <2>3. NotBefore(PhaseOrder, b.phase, b.phase)
    BY <2>1, PhaseSuccessor
  <2>4. NotBefore(DraftOrder, b.draft, b.draft)
    BY <2>1, DraftSuccessor
  <2> QED
    BY <2>2, <2>3, <2>4
<1>2. /\ NoLater(b.deadline_us, b.deadline_us)
      /\ NoLater(b.slack_us, b.slack_us)
      /\ NoLater(b.target_decode_step, b.target_decode_step)
      /\ NoLess(b.recompute_cost_us, b.recompute_cost_us)
  <2>1. /\ b.deadline_us \in Nat \cup {Absent} /\ b.slack_us \in Slacks \cup {Absent}
        /\ b.target_decode_step \in Nat \cup {Absent}
        /\ b.recompute_cost_us \in Nat \cup {Absent}
    BY FieldTypes
  <2>2. \A x \in Int \cup {Absent} : NoLater(x, x) /\ NoLess(x, x)
    BY DEF NoLater, NoLess
  <2>3. /\ b.deadline_us \in Int \cup {Absent} /\ b.slack_us \in Int \cup {Absent}
        /\ b.target_decode_step \in Int \cup {Absent}
        /\ b.recompute_cost_us \in Int \cup {Absent}
    <3>1. \A x : (x \in Nat \cup {Absent} => x \in Int \cup {Absent})
      OBVIOUS
    <3>2. \A x : (x \in Slacks \cup {Absent} => x \in Int \cup {Absent})
      BY FieldsAssumption
    <3> QED
      BY <2>1, <3>1, <3>2
  <2> QED
    BY <2>2, <2>3
<1>3. /\ b.request_priority >= b.request_priority
      /\ b.expected_reuse_window_tokens <= b.expected_reuse_window_tokens
      /\ b.recency_score >= b.recency_score
      /\ b.last_access_step >= b.last_access_step
  <2>1. /\ b.request_priority \in 0 .. 100 /\ b.expected_reuse_window_tokens \in Nat
        /\ b.recency_score \in 0 .. 100 /\ b.last_access_step \in Nat
    BY FieldTypes
  <2> QED
    BY SMT, <2>1
<1> QED
  BY <1>1, <1>2, <1>3 DEF AtLeastAsUrgent

\* The inductive invariant.  A block becomes critical only with a pin request, which
\* MemoryIntent.__post_init__ sets, and keeps it.
BlockInv ==
    /\ block \in PolicyBlock
    /\ block.priority = "DECODE_CRITICAL" => block.pin_requested

\* It holds of the least urgent block,
LEMMA BlockInvInit == PolicyInit => BlockInv
<1> SUFFICES ASSUME PolicyInit PROVE BlockInv
  OBVIOUS
<1>1. Min(RequestPriorities) \in RequestPriorities /\ Min(Recencies) \in Recencies
  <2>1. RequestPriorities \in SUBSET Nat /\ Recencies \in SUBSET Nat
    BY FieldsAssumption
  <2> QED
    BY <2>1, LeastElement, FieldsAssumption
<1>2. Min(AccessSteps) \in AccessSteps
  BY LeastElement, FieldsAssumption
<1>3. Max(ReuseWindows) \in ReuseWindows
  <2>1. \E widest \in ReuseWindows : \A w \in ReuseWindows : widest >= w
    BY FieldsAssumption
  <2> QED
    BY <2>1 DEF Max
<1>4. /\ Min(RequestPriorities) \in 0 .. 100 /\ Min(Recencies) \in 0 .. 100
      /\ Min(AccessSteps) \in Nat /\ Max(ReuseWindows) \in Nat
  BY <1>1, <1>2, <1>3, FieldsAssumption
<1>5. block \in PolicyBlock /\ block.priority = "COLD"
  BY <1>4 DEF PolicyInit, PolicyBlock
<1> QED
  BY <1>5 DEF BlockInv

\* and every step keeps it and makes the block at least as urgent as it was.
LEMMA UrgencyStep ==
    ASSUME BlockInv, PolicyNext
    PROVE  BlockInv' /\ AtLeastAsUrgent(block', block)
<1> DEFINE Grown == BlockInv' /\ AtLeastAsUrgent(block', block)
<1>0. /\ block \in PolicyBlock /\ AtLeastAsUrgent(block, block)
      /\ block.priority = "DECODE_CRITICAL" => block.pin_requested
  BY UrgencyReflexive DEF BlockInv
<1>1. ASSUME NEW d \in BlockDeadlines, Tighten(block.deadline_us, d),
             block' = [block EXCEPT !.deadline_us = d]
      PROVE  Grown
  <2>1. d \in Nat /\ block.deadline_us \in Nat \cup {Absent}
    BY <1>0, <1>1, FieldTypes, FieldsAssumption
  <2>2. NoLater(d, block.deadline_us)
    BY <1>1, <2>1, FieldsAssumption DEF Tighten, NoLater
  <2> QED
    <3>1. BlockInv'
      BY ZenonT(40), <1>0, <1>1, <2>1, <2>2 DEF BlockInv, PolicyBlock
    <3>2. AtLeastAsUrgent(block', block)
      BY <1>0, <1>1, <2>1, <2>2 DEF AtLeastAsUrgent, PolicyBlock
    <3> QED
      BY <3>1, <3>2
<1>2. ASSUME NEW s \in Slacks, Tighten(block.slack_us, s),
             block' = [block EXCEPT !.slack_us = s]
      PROVE  Grown
  <2>1. s \in Int /\ block.slack_us \in Int \cup {Absent}
    BY <1>0, <1>2, FieldTypes, FieldsAssumption
  <2>2. NoLater(s, block.slack_us)
    BY <1>2, <2>1, FieldsAssumption DEF Tighten, NoLater
  <2> QED
    <3>1. BlockInv'
      BY ZenonT(40), <1>0, <1>2, <2>1, <2>2 DEF BlockInv, PolicyBlock
    <3>2. AtLeastAsUrgent(block', block)
      BY <1>0, <1>2, <2>1, <2>2 DEF AtLeastAsUrgent, PolicyBlock
    <3> QED
      BY <3>1, <3>2
<1>3. ASSUME NEW t \in Targets, Tighten(block.target_decode_step, t),
             block' = [block EXCEPT !.target_decode_step = t]
      PROVE  Grown
  <2>1. t \in Nat /\ block.target_decode_step \in Nat \cup {Absent}
    BY <1>0, <1>3, FieldTypes, FieldsAssumption
  <2>2. NoLater(t, block.target_decode_step)
    BY <1>3, <2>1, FieldsAssumption DEF Tighten, NoLater
  <2> QED
    <3>1. BlockInv'
      BY ZenonT(40), <1>0, <1>3, <2>1, <2>2 DEF BlockInv, PolicyBlock
    <3>2. AtLeastAsUrgent(block', block)
      BY <1>0, <1>3, <2>1, <2>2 DEF AtLeastAsUrgent, PolicyBlock
    <3> QED
      BY <3>1, <3>2
<1>4. ASSUME block.priority # "DECODE_CRITICAL",
             block' = [block EXCEPT !.priority = Successor(PriorityOrder, @),
                                    !.pin_requested = @ \/ block.priority = "HOT"]
      PROVE  Grown
  <2> DEFINE y == Successor(PriorityOrder, block.priority)
             n == block.pin_requested \/ block.priority = "HOT"
  <2>1. block.priority \in {"COLD", "WARM", "HOT", "DECODE_CRITICAL"}
    BY <1>0, FieldTypes
  <2>2. /\ y \in {"COLD", "WARM", "HOT", "DECODE_CRITICAL"}
        /\ NotBefore(PriorityOrder, y, block.priority)
        /\ y = "DECODE_CRITICAL" => block.priority = "HOT"
    BY <1>4, <2>1, PrioritySuccessor
  <2>3. /\ block' = [block EXCEPT !.priority = y, !.pin_requested = n]
        /\ n \in BOOLEAN
        /\ ~ n => ~ block.pin_requested /\ y # "DECODE_CRITICAL"
    BY <1>4, <2>2
  <2> HIDE DEF y, n
  <2>4. CASE n
    <3>1. block' = [block EXCEPT !.priority = y, !.pin_requested = TRUE]
      BY <2>3, <2>4
    <3> QED
      <4>1. BlockInv'
        BY ZenonT(40), <1>0, <2>2, <3>1 DEF BlockInv, PolicyBlock
      <4>2. AtLeastAsUrgent(block', block)
        BY <1>0, <2>2, <3>1 DEF AtLeastAsUrgent, PolicyBlock
      <4> QED
        BY <4>1, <4>2
  <2>5. CASE ~ n
    <3>0. n = FALSE
      BY <2>3, <2>5
    <3>1. block' = [block EXCEPT !.priority = y, !.pin_requested = FALSE]
      BY <2>3, <3>0
    <3>2. ~ block.pin_requested /\ y # "DECODE_CRITICAL"
      BY <2>3, <2>5
    <3> QED
      <4>1. BlockInv'
        BY ZenonT(40), <1>0, <2>2, <3>1, <3>2 DEF BlockInv, PolicyBlock
      <4>2. AtLeastAsUrgent(block', block)
        BY <1>0, <2>2, <3>1, <3>2 DEF AtLeastAsUrgent, PolicyBlock
      <4> QED
        BY <4>1, <4>2
  <2> QED
    BY <2>4, <2>5
<1>5. ASSUME block.phase # "DECODE", block' = [block EXCEPT !.phase = Successor(PhaseOrder, @)]
      PROVE  Grown
  <2> DEFINE y == Successor(PhaseOrder, block.phase)
  <2>1. block.phase \in {"DONE", "IDLE", "PREFILL", "VERIFY", "DECODE"}
    BY <1>0, FieldTypes
  <2>2. /\ y \in {"DONE", "IDLE", "PREFILL", "VERIFY", "DECODE"}
        /\ NotBefore(PhaseOrder, y, block.phase)
    BY <1>5, <2>1, PhaseSuccessor
  <2>3. block' = [block EXCEPT !.phase = y]
    BY <1>5
  <2> HIDE DEF y
  <2> QED
    <3>1. BlockInv'
      BY ZenonT(40), <1>0, <2>2, <2>3 DEF BlockInv, PolicyBlock
    <3>2. AtLeastAsUrgent(block', block)
      BY <1>0, <2>2, <2>3 DEF AtLeastAsUrgent, PolicyBlock
    <3> QED
      BY <3>1, <3>2
<1>6. ASSUME block' = [block EXCEPT !.pin_requested = TRUE]
      PROVE  Grown
  <2>1. BlockInv'
    BY ZenonT(40), <1>0, <1>6 DEF BlockInv, PolicyBlock
  <2>2. AtLeastAsUrgent(block', block)
    BY <1>0, <1>6 DEF AtLeastAsUrgent, PolicyBlock
  <2> QED
    BY <2>1, <2>2
<1>7. ASSUME NEW p \in RequestPriorities, p > block.request_priority,
             block' = [block EXCEPT !.request_priority = p]
      PROVE  Grown
  <2>1. p \in 0 .. 100 /\ block.request_priority \in 0 .. 100
    BY <1>0, <1>7, FieldTypes, FieldsAssumption
  <2>2. p >= block.request_priority
    BY <1>7, <2>1
  <2> QED
    <3>1. BlockInv'
      BY ZenonT(40), <1>0, <1>7, <2>1, <2>2 DEF BlockInv, PolicyBlock
    <3>2. AtLeastAsUrgent(block', block)
      BY <1>0, <1>7, <2>1, <2>2 DEF AtLeastAsUrgent, PolicyBlock
    <3> QED
      BY <3>1, <3>2
<1>8. ASSUME NEW w \in ReuseWindows, w < block.expected_reuse_window_tokens,
             block' = [block EXCEPT !.expected_reuse_window_tokens = w]
      PROVE  Grown
  <2>1. w \in Nat /\ block.expected_reuse_window_tokens \in Nat
    BY <1>0, <1>8, FieldTypes, FieldsAssumption
  <2>2. w <= block.expected_reuse_window_tokens
    BY <1>8, <2>1
  <2> QED
    <3>1. BlockInv'
      BY ZenonT(40), <1>0, <1>8, <2>1, <2>2 DEF BlockInv, PolicyBlock
    <3>2. AtLeastAsUrgent(block', block)
      BY <1>0, <1>8, <2>1, <2>2 DEF AtLeastAsUrgent, PolicyBlock
    <3> QED
      BY <3>1, <3>2
<1>9. ASSUME NEW c \in RecomputeCosts, Costlier(block.recompute_cost_us, c),
             block' = [block EXCEPT !.recompute_cost_us = c]
      PROVE  Grown
  <2>1. c \in Nat /\ block.recompute_cost_us \in Nat \cup {Absent}
    BY <1>0, <1>9, FieldTypes, FieldsAssumption
  <2>2. NoLess(c, block.recompute_cost_us)
    BY <1>9, <2>1, FieldsAssumption DEF Costlier, NoLess
  <2> QED
    <3>1. BlockInv'
      BY ZenonT(40), <1>0, <1>9, <2>1, <2>2 DEF BlockInv, PolicyBlock
    <3>2. AtLeastAsUrgent(block', block)
      BY <1>0, <1>9, <2>1, <2>2 DEF AtLeastAsUrgent, PolicyBlock
    <3> QED
      BY <3>1, <3>2
<1>10. ASSUME NEW r \in Recencies, NEW s \in AccessSteps,
             r >= block.recency_score, s > block.last_access_step,
             block' = [block EXCEPT !.recency_score = r, !.last_access_step = s]
      PROVE  Grown
  <2>1. /\ r \in 0 .. 100 /\ s \in Nat
        /\ block.recency_score \in 0 .. 100 /\ block.last_access_step \in Nat
    BY <1>0, <1>10, FieldTypes, FieldsAssumption
  <2>2. r >= block.recency_score /\ s >= block.last_access_step
    BY <1>10, <2>1
  <2> QED
    <3>1. BlockInv'
      BY ZenonT(40), <1>0, <1>10, <2>1, <2>2 DEF BlockInv, PolicyBlock
    <3>2. AtLeastAsUrgent(block', block)
      BY <1>0, <1>10, <2>1, <2>2 DEF AtLeastAsUrgent, PolicyBlock
    <3> QED
      BY <3>1, <3>2
<1>11. ASSUME block' = [block EXCEPT !.recompute_ok = FALSE]
      PROVE  Grown
  <2>1. BlockInv'
    BY ZenonT(40), <1>0, <1>11 DEF BlockInv, PolicyBlock
  <2>2. AtLeastAsUrgent(block', block)
    BY <1>0, <1>11 DEF AtLeastAsUrgent, PolicyBlock
  <2> QED
    BY <2>1, <2>2
<1>12. ASSUME block' = [block EXCEPT !.compression_ok = FALSE]
      PROVE  Grown
  <2>1. BlockInv'
    BY ZenonT(40), <1>0, <1>12 DEF BlockInv, PolicyBlock
  <2>2. AtLeastAsUrgent(block', block)
    BY <1>0, <1>12 DEF AtLeastAsUrgent, PolicyBlock
  <2> QED
    BY <2>1, <2>2
<1>13. ASSUME block.draft # "committed", block' = [block EXCEPT !.draft = Successor(DraftOrder, @)]
      PROVE  Grown
  <2> DEFINE y == Successor(DraftOrder, block.draft)
  <2>1. block.draft \in {"draft", "none", "committed"}
    BY <1>0, FieldTypes
  <2>2. y \in {"draft", "none", "committed"} /\ NotBefore(DraftOrder, y, block.draft)
    BY <1>13, <2>1, DraftSuccessor
  <2>3. block' = [block EXCEPT !.draft = y]
    BY <1>13
  <2> HIDE DEF y
  <2> QED
    <3>1. BlockInv'
      BY ZenonT(40), <1>0, <2>2, <2>3 DEF BlockInv, PolicyBlock
    <3>2. AtLeastAsUrgent(block', block)
      BY <1>0, <2>2, <2>3 DEF AtLeastAsUrgent, PolicyBlock
    <3> QED
      BY <3>1, <3>2
<1> HIDE DEF Grown
<1>14. MoreUrgent => Grown
  BY <1>1, <1>2, <1>3, <1>4, <1>5, <1>6 DEF MoreUrgent
<1>15. MoreValuable => Grown
  BY <1>7, <1>8, <1>9, <1>10, <1>11, <1>12, <1>13 DEF MoreValuable
<1> QED
  BY <1>14, <1>15 DEF PolicyNext, Grown

\* should_prefetch stays true as urgency grows.
LEMMA PrefetchKept ==
    ASSUME NEW b \in PolicyBlock, NEW c \in PolicyBlock, AtLeastAsUrgent(c, b),
           should_prefetch(b)
    PROVE  should_prefetch(c)
<1>1. c.prefetch_ok /\ c.current_tier # "HBM"
  BY DEF AtLeastAsUrgent, should_prefetch
<1>2. c.priority \in {"HOT", "DECODE_CRITICAL"} \/ c.phase = "DECODE"
  <2>1. NotBefore(PriorityOrder, c.priority, b.priority) /\ NotBefore(PhaseOrder, c.phase, b.phase)
    BY DEF AtLeastAsUrgent
  <2> QED
    BY <2>1, PriorityCases, PhaseCases DEF should_prefetch
<1>3. /\ b.deadline_us \in Nat \cup {Absent} /\ c.deadline_us \in Nat \cup {Absent}
      /\ b.slack_us \in Slacks \cup {Absent} /\ c.slack_us \in Slacks \cup {Absent}
      /\ b.expected_reuse_window_tokens \in Nat /\ c.expected_reuse_window_tokens \in Nat
  BY FieldTypes
<1>4. /\ NoLater(c.deadline_us, b.deadline_us) /\ NoLater(c.slack_us, b.slack_us)
      /\ c.expected_reuse_window_tokens <= b.expected_reuse_window_tokens
  BY DEF AtLeastAsUrgent
<1>5. b.slack_us \in Int \cup {Absent} /\ c.slack_us \in Int \cup {Absent}
  BY <1>3, FieldsAssumption
<1>6. b.deadline_us # Absent /\ b.deadline_us <= 5000
      => c.deadline_us # Absent /\ c.deadline_us <= 5000
  BY SMT, <1>3, <1>4, FieldsAssumption DEF NoLater
<1>7. b.slack_us # Absent /\ b.slack_us <= 2000 => c.slack_us # Absent /\ c.slack_us <= 2000
  BY SMT, <1>4, <1>5, FieldsAssumption DEF NoLater
<1>8. b.expected_reuse_window_tokens <= 8
      => c.expected_reuse_window_tokens # Absent /\ c.expected_reuse_window_tokens <= 8
  BY <1>3, <1>4, FieldsAssumption
<1> QED
  BY SMT, <1>1, <1>2, <1>6, <1>7, <1>8 DEF should_prefetch

\* The invariant holds throughout.
LEMMA BlockInvariant == ScoresSpec => []BlockInv
<1>1. ScoresInit => BlockInv
  BY BlockInvInit DEF ScoresInit
<1>2. ASSUME BlockInv, [ScoresNext]_<<vars, block, subject>>
      PROVE  BlockInv'
  <2>1. PolicyNext \/ UNCHANGED block
    BY <1>2 DEF ScoresNext
  <2>2. CASE PolicyNext
    BY <1>2, <2>2, UrgencyStep
  <2>3. CASE UNCHANGED block
    BY <1>2, <2>3 DEF BlockInv
  <2> QED
    BY <2>1, <2>2, <2>3
<1> QED
  BY <1>1, <1>2, PTL DEF ScoresSpec

\* Critical blocks are the last victims: their scores are below -1300, where no block
\* comes that is neither critical nor pinned, under both policies that look at intents.
THEOREM CriticalBlocksScoreLast ==
    ASSUME SlacksFit
    PROVE  ScoresSpec => []CriticalScoresLast
<1>1. ASSUME BlockInv
      PROVE  CriticalScoresLast
  <2>1. block \in PolicyBlock /\ AtLeastAsUrgent(block, block)
    BY <1>1, UrgencyReflexive DEF BlockInv
  <2>2. Unit \in Nat /\ Unit > 0 /\ over(-1300, 1) = -1300 * Unit
    BY SMT, OverValues
  <2>3. CASE block.priority = "DECODE_CRITICAL"
    <3>1. block.pin_requested
      BY <1>1, <2>3 DEF BlockInv
    <3>2. intent_score(block) \in Int /\ intent_score(block) <= -1330 * Unit
      BY <2>1, <2>3, <3>1, IntentScore
    <3>3. deadline_score(block) \in Int /\ deadline_score(block) < -1300 * Unit
      BY <2>1, <2>3, <3>1, DeadlineScore
    <3>4. intent_score(block) < -1300 * Unit
      BY SMT, <2>2, <3>2
    <3> QED
      BY <2>2, <2>3, <3>3, <3>4 DEF CriticalScoresLast
  <2>4. CASE block.priority # "DECODE_CRITICAL"
    <3>1. ASSUME ~ block.pin_requested
          PROVE  intent_score(block) > -1300 * Unit /\ deadline_score(block) > -1300 * Unit
      <4>1. intent_score(block) \in Int /\ intent_score(block) >= -282 * Unit
        BY <2>1, <2>4, <3>1, IntentScore
      <4>2. deadline_score(block) > -1300 * Unit
        BY <2>1, <2>4, <3>1, DeadlineScore
      <4> QED
        BY SMT, <2>2, <4>1, <4>2
    <3> QED
      BY <2>2, <2>4, <3>1 DEF CriticalScoresLast
  <2> QED
    BY <2>3, <2>4
<1> QED
  BY <1>1, BlockInvariant, PTL

\* Whatever makes a block more urgent, or dearer to lose, never makes a policy evict it
\* sooner, and never stops its prefetch.
THEOREM UrgencyAlwaysProtects == ScoresSpec => UrgencyProtects
<1> DEFINE Protected ==
        /\ intent_score(block') <= intent_score(block)
        /\ deadline_score(block') <= deadline_score(block)
        /\ LRU_key(block') >= LRU_key(block)
        /\ HotCold_key(block') >= HotCold_key(block)
        /\ predicted_hotness(block') >= predicted_hotness(block)
        /\ MoreUrgent /\ should_prefetch(block) => should_prefetch(block')
<1>1. ASSUME BlockInv, [ScoresNext]_<<vars, block, subject>>, block' # block
      PROVE  Protected
  <2>1. PolicyNext
    BY <1>1 DEF ScoresNext
  <2>2. block \in PolicyBlock /\ block' \in PolicyBlock /\ AtLeastAsUrgent(block', block)
    BY <1>1, <2>1, UrgencyStep DEF BlockInv
  <2> DEFINE b == block
             c == block'
  <2>3. b \in PolicyBlock /\ c \in PolicyBlock /\ AtLeastAsUrgent(c, b)
    BY <2>2
  <2> SUFFICES /\ intent_score(c) <= intent_score(b)
               /\ deadline_score(c) <= deadline_score(b)
               /\ LRU_key(c) >= LRU_key(b)
               /\ HotCold_key(c) >= HotCold_key(b)
               /\ predicted_hotness(c) >= predicted_hotness(b)
               /\ should_prefetch(b) => should_prefetch(c)
    OBVIOUS
  <2> HIDE DEF b, c
  <2>4. intent_score(c) <= intent_score(b)
    BY <2>3, IntentScore
  <2>5. deadline_score(c) <= deadline_score(b)
    BY <2>3, DeadlineScore
  <2>6. LRU_key(c) >= LRU_key(b) /\ HotCold_key(c) >= HotCold_key(b)
    BY <2>3 DEF AtLeastAsUrgent, LRU_key, HotCold_key
  <2>7. predicted_hotness(c) >= predicted_hotness(b)
    BY <2>3, HotnessGrows
  <2>8. ASSUME should_prefetch(b)
        PROVE  should_prefetch(c)
    BY <2>3, <2>8, PrefetchKept
  <2> QED
    BY <2>4, <2>5, <2>6, <2>7, <2>8
<1>2. ASSUME BlockInv, [ScoresNext]_<<vars, block, subject>>
      PROVE  [Protected]_block
  BY <1>1, <1>2
<1> QED
  BY <1>2, BlockInvariant, PTL DEF ScoresSpec, UrgencyProtects

=============================================================================
