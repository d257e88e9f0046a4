--------------------------- MODULE KvEvictionScore ---------------------------
(***************************************************************************)
(* The order in which kv_intent_shrinker.c reclaims intents: its score and *)
(* the loop of kv_shrinker_scan that looks for the best one, while time    *)
(* goes by and intents are registered.  KvIntentShrinker has the locking   *)
(* and the life of the structs; here a registered intent is its three      *)
(* scored fields.                                                          *)
(*                                                                         *)
(* Times are in microseconds.  64-bit differences do not overflow for the  *)
(* deadlines modelled; the int of the score has the range of IntMax, and   *)
(* wraps, as in a kernel built with -fno-strict-overflow.                  *)
(***************************************************************************)
EXTENDS Integers, Sequences, SequencesExt

CONSTANTS
    IntMax,      \* INT_MAX
    Deadlines,   \* the deadline_us that are registered
    Times,       \* the moments at which something happens
    MaxIntents,  \* bound: intents registered at once
    None

ASSUME ScoreAssumption ==
    /\ IntMax \in Nat /\ IntMax >= 1000
    /\ Deadlines \subseteq Nat
    /\ Times \subseteq Nat /\ 0 \in Times
    /\ MaxIntents \in Nat
    /\ None \notin Times

kv_priority_weight == [COLD |-> 1000, WARM |-> 500, HOT |-> 125, DECODE_CRITICAL |-> 0]
Priority == DOMAIN kv_priority_weight

\* C's division rounds towards zero.
DivTen(x) == IF x >= 0 THEN x \div 10 ELSE - ((- x) \div 10)

\* int arithmetic
Wrap(x) == ((x + IntMax + 1) % (2 * (IntMax + 1))) - (IntMax + 1)

VARIABLES
    registry,  \* the registered intents, oldest first
    now,       \* kv_now_us()
    scan_now,  \* the time that the scan in progress has read, or None
    reclaimed  \* the intent that the last scan step took, or None

vars == <<registry, now, scan_now, reclaimed>>

Intent == [priority : Priority, deadline_us : Deadlines, registered_ktime_us : Times]

Init ==
    /\ registry = <<>>
    /\ now = 0
    /\ scan_now = None
    /\ reclaimed = None

-----------------------------------------------------------------------------
Remaining(i, now_us) == i.deadline_us - (now_us - i.registered_ktime_us)

\* Mutant: the elapsed time is left out.
UrgencyOfFreshIntent(i, now_us) ==
    LET raw_score == 1000 - DivTen(i.deadline_us)
    IN  IF raw_score < 0 THEN 0 ELSE IF raw_score > IntMax THEN IntMax ELSE raw_score

kv_deadline_urgency_score(i, now_us) ==
    LET raw_score == 1000 - DivTen(Remaining(i, now_us))
    IN  IF raw_score < 0 THEN 0 ELSE IF raw_score > IntMax THEN IntMax ELSE raw_score

\* Mutant: the weight counts the other way round.
ScoreOfInvertedWeight(i, now_us) ==
    Wrap(1000 - kv_priority_weight[i.priority] + kv_deadline_urgency_score(i, now_us))

kv_eviction_score(i, now_us) ==
    Wrap(kv_priority_weight[i.priority] + kv_deadline_urgency_score(i, now_us))

kv_is_evictable(i) == i.priority \in {"COLD", "WARM"}

\* The positions of evictable intents, and the one that the loop ends with:
\* the first of those with the highest score.
Evictable == {n \in 1 .. Len(registry) : kv_is_evictable(registry[n])}

IsBest(n, now_us) ==
    /\ n \in Evictable
    /\ \A m \in Evictable :
          LET score == kv_eviction_score(registry[n], now_us)
              other == kv_eviction_score(registry[m], now_us)
          IN  other <= score /\ (m < n => other < score)

-----------------------------------------------------------------------------
kv_register_write(priority, deadline_us) ==
    /\ Len(registry) < MaxIntents
    /\ registry' = Append(registry,
            [priority |-> priority, deadline_us |-> deadline_us,
             registered_ktime_us |-> now])
    /\ UNCHANGED <<now, scan_now, reclaimed>>

\* Time passes.
Advance ==
    /\ now' \in {t \in Times : t > now}
    /\ UNCHANGED <<registry, scan_now, reclaimed>>

\* An iteration reads the time before it takes the lock ...
ScanClock ==
    /\ scan_now = None
    /\ scan_now' = now
    /\ reclaimed' = None
    /\ UNCHANGED <<registry, now>>

\* ... and looks for the best intent afterwards, by that time.
ScanPick ==
    /\ scan_now # None
    /\ scan_now' = None
    /\ \/ \E n \in Evictable :
             /\ IsBest(n, scan_now)
             /\ reclaimed' = registry[n]
             /\ registry' = RemoveAt(registry, n)
       \/ /\ Evictable = {}
          /\ UNCHANGED <<registry, reclaimed>>
    /\ UNCHANGED now

Next ==
    \/ \E p \in Priority, d \in Deadlines : kv_register_write(p, d)
    \/ Advance
    \/ ScanClock
    \/ ScanPick

Spec == Init /\ [][Next]_vars

-----------------------------------------------------------------------------
(***************************************************************************)
(* Properties                                                              *)
(***************************************************************************)
Due(i) == i.registered_ktime_us + i.deadline_us

\* The intents that a scan step leaves although it could have taken them.
LeftBehind == {registry'[n] : n \in {m \in 1 .. Len(registry') : kv_is_evictable(registry'[m])}}

Reclaims == reclaimed' # None /\ reclaimed = None

\* Within a priority the intent that is due first is reclaimed first, whenever
\* the two were registered.  Two due times are told apart from 20 us on (the
\* division rounds the last 10 us before and after a deadline to the same
\* score), and not at all while both are 10 ms away or more.
DueFirst ==
    [][Reclaims =>
         \A i \in LeftBehind :
            /\ i.priority = reclaimed'.priority
            /\ Due(i) + 20 <= Due(reclaimed')
            => Remaining(i, scan_now) >= 10000]_vars

\* A WARM intent is reclaimed before a COLD one only if it is due some 5 ms
\* earlier: that is what the weights are worth against the deadlines.
ColdIsWorthFiveMilliseconds ==
    [][Reclaims /\ reclaimed'.priority = "WARM" =>
         \A i \in LeftBehind :
            i.priority = "COLD" => Due(reclaimed') + 4980 < Due(i)]_vars

\* The score without the limits of int.
IdealScore(i, now_us) ==
    kv_priority_weight[i.priority] + kv_deadline_urgency_score(i, now_us)

\* The README of the module: it "scans and removes the most reclaimable metadata
\* entries first".
MostReclaimableFirst ==
    [][Reclaims =>
         \A i \in LeftBehind :
            IdealScore(i, scan_now) <= IdealScore(reclaimed', scan_now)]_vars

=============================================================================
