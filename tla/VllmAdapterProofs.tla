-------------------------- MODULE VllmAdapterProofs --------------------------
(***************************************************************************)
(* Proofs about the vLLM adapter together with the simulator that replays  *)
(* its events, for any requests and blocks, any lists that the engine      *)
(* passes, any sizes and capacities, and every policy; and about the mock  *)
(* engine that drives it.                                                  *)
(*                                                                         *)
(* The adapter changes its table when a callback records events, and the   *)
(* simulator follows when it takes them.  In between the two disagree, so  *)
(* every part of the invariant says of a block: the simulator agrees with  *)
(* the table, or an event that will make it agree is still in the trace.   *)
(*                                                                         *)
(* The second half is about traces as a whole.  Each event gives a block   *)
(* to the set of live blocks, takes it away, or does neither.  Left says   *)
(* what a list of events leaves live, and Sound that it allocates no live  *)
(* block and uses no dead one; both are computed for a list from its       *)
(* parts.  The invariant of a producer of traces (Leads) is that the       *)
(* events still in the queue are sound from what is live now, and leave    *)
(* live what they should: taking an event keeps it, and when the queue is  *)
(* empty it is the property.                                               *)
(***************************************************************************)
EXTENDS MockVllmTrace, TierSimulatorProofs

-----------------------------------------------------------------------------
(***************************************************************************)
(* The inductive invariant                                                 *)
(***************************************************************************)
\* The events that run() has not taken yet, and those about one block.
Events == {trace[k] : k \in DOMAIN trace}
Pending(b) == {e \in Events : e.object_id = b}

\* What the adapter records for each kind of event.
Fits(e) ==
    /\ e.event_type # "PREFETCHED"
    /\ e.event_type \in {"ALLOCATED", "MARKED_COLD", "FREED"} => ~ e.intent.pin_requested
    /\ e.event_type = "ALLOCATED" => e.intent.current_tier = "HBM"
    /\ e.event_type = "SPILLED" => e.intent.current_tier = "DRAM"
    /\ e.intent.phase = "DONE" => e.event_type \in {"MARKED_COLD", "FREED", "SPILLED"}

\* An event carries the intent in the table, unless a finished request has taken
\* its blocks out of the table already.
MatchesTable(e) ==
    \/ blocks[e.object_id] = e.intent
    \/ blocks[e.object_id] = NoIntent /\ e.event_type \in {"MARKED_COLD", "FREED"}

TraceOK ==
    /\ blocks \in [Blocks -> Intents \cup {NoIntent}]
    /\ trace \in Seq(MemoryIntentEvent)
    /\ \A e \in Events : Fits(e) /\ MatchesTable(e)

\* A live block is in the table with its size, or will be allocated again or freed.
SizeAgrees(b) ==
    b \in live_blocks =>
       \/ Known(b) /\ intent[b].size_bytes = blocks[b].size_bytes
       \/ \E e \in Pending(b) : e.event_type \in {"ALLOCATED", "FREED"}

\* A pinned block is live and pinned, and in HBM unless it was preempted; or an
\* access will make it so.
PinAgrees(b) ==
    Known(b) /\ blocks[b].pin_requested =>
       \/ /\ b \in live_blocks /\ intent[b].pin_requested
          /\ Policy \in IntentPolicies /\ blocks[b].current_tier = "HBM" => b \in hbm_blocks
       \/ \E e \in Pending(b) : e.event_type = "ACCESSED"

\* A block that is done is not live, or its FREED event is on the way.
FreedAgrees(b) ==
    Known(b) /\ blocks[b].phase = "DONE" =>
       \/ b \notin live_blocks
       \/ \E e \in Pending(b) : e.event_type = "FREED"

Agreement ==
    pc # "raised" => \A b \in Blocks : SizeAgrees(b) /\ PinAgrees(b) /\ FreedAgrees(b)

AdapterInvariant == TraceOK /\ Agreement

-----------------------------------------------------------------------------
(***************************************************************************)
(* The intents that the adapter makes                                      *)
(***************************************************************************)
\* An intent of the adapter is an accepted record with the adapter's tiers.
LEMMA AdapterIntent ==
    ASSUME NEW i
    PROVE  i \in Intents <=>
             /\ i \in [phase : Phase, priority : Priority, pin_requested : BOOLEAN,
                       allowed_tiers : {default_allowed_tiers},
                       current_tier : {"HBM", "DRAM"}, size_bytes : Sizes]
             /\ i.priority = "DECODE_CRITICAL" => i.pin_requested
<1> DEFINE Shapes == [phase : Phase, priority : Priority, pin_requested : BOOLEAN,
                      allowed_tiers : {default_allowed_tiers},
                      current_tier : {"HBM", "DRAM"}, size_bytes : Sizes]
<1>1. i \in Shapes => TierIsAllowed(i)
  BY TiersAssumption DEF TierIsAllowed
<1>2. i \in Intents <=> i \in Shapes /\ Accepted(i)
  BY AdapterIntentsAssumption
<1> HIDE DEF Shapes
<1>3. i \in Intents <=> i \in Shapes /\ (i.priority = "DECODE_CRITICAL" => i.pin_requested)
  BY <1>1, <1>2 DEF Accepted
<1> QED
  BY <1>3 DEF Shapes

\* No intent of the adapter is the marker of an absent one.
LEMMA IntentIsNotAbsent == NoIntent \notin Intents
BY NoIntentAssumption, IntentsAssumption

\* _make_intent makes an intent, in HBM.
LEMMA MadeIntent ==
    ASSUME NEW phase \in Phase, NEW priority \in Priority, NEW pin \in BOOLEAN,
           NEW size \in Sizes, priority = "DECODE_CRITICAL" => pin
    PROVE  /\ make_intent(phase, priority, pin, size) \in Intents
           /\ make_intent(phase, priority, pin, size).phase = phase
           /\ make_intent(phase, priority, pin, size).pin_requested = pin
           /\ make_intent(phase, priority, pin, size).current_tier = "HBM"
           /\ make_intent(phase, priority, pin, size).size_bytes = size
BY AdapterIntent DEF make_intent

\* _get_or_create_block keeps the size, the tier and the pin of a known block, and
\* takes the phase of the callback.
LEMMA GetOrCreate ==
    ASSUME TraceOK, NEW b \in Blocks, NEW phase \in Phase,
           NEW priority \in {"HOT", "WARM", "COLD"}, NEW critical \in BOOLEAN, NEW g,
           g = get_or_create(b, phase, priority, critical)
    PROVE  /\ g \in Intents /\ g.phase = phase
           /\ critical => g.pin_requested
           /\ g.pin_requested => critical \/ (Known(b) /\ blocks[b].pin_requested)
           /\ Known(b) => /\ g.size_bytes = blocks[b].size_bytes
                          /\ g.current_tier = blocks[b].current_tier
<1> DEFINE p == IF critical THEN "DECODE_CRITICAL" ELSE priority
<1>1. p \in Priority /\ (p = "DECODE_CRITICAL" => critical)
  BY DEF Priority
<1>2. CASE Known(b)
  <2>1. g = [blocks[b] EXCEPT !.phase = phase, !.priority = p,
                              !.pin_requested = critical \/ @]
    BY <1>2 DEF get_or_create
  <2>2. blocks[b] \in Intents
    BY <1>2 DEF TraceOK, Known
  <2>3. blocks[b] \in [phase : Phase, priority : Priority, pin_requested : BOOLEAN,
                       allowed_tiers : {default_allowed_tiers},
                       current_tier : {"HBM", "DRAM"}, size_bytes : Sizes]
    BY <2>2, AdapterIntent
  <2> DEFINE pin == critical \/ blocks[b].pin_requested
  <2>p. pin \in BOOLEAN /\ p \in Priority
    BY <1>1
  <2>g. g = [blocks[b] EXCEPT !.phase = phase, !.priority = p, !.pin_requested = pin]
    BY <2>1
  <2> HIDE DEF p, pin
  <2>4. /\ g \in [phase : Phase, priority : Priority, pin_requested : BOOLEAN,
                  allowed_tiers : {default_allowed_tiers},
                  current_tier : {"HBM", "DRAM"}, size_bytes : Sizes]
        /\ g.phase = phase /\ g.priority = p
        /\ g.pin_requested = pin
        /\ g.size_bytes = blocks[b].size_bytes /\ g.current_tier = blocks[b].current_tier
    <3>1. CASE pin = TRUE
      <4>1. g = [blocks[b] EXCEPT !.phase = phase, !.priority = p, !.pin_requested = TRUE]
        BY <2>g, <3>1
      <4> QED
        BY <2>p, <4>1, <2>3, <3>1
    <3>2. CASE pin = FALSE
      <4>1. g = [blocks[b] EXCEPT !.phase = phase, !.priority = p, !.pin_requested = FALSE]
        BY <2>g, <3>2
      <4> QED
        BY <2>p, <4>1, <2>3, <3>2
    <3> QED
      BY <2>p, <3>1, <3>2
  <2>5. (critical => pin) /\ (pin => critical \/ blocks[b].pin_requested)
    BY DEF pin
  <2>6. g \in Intents
    BY <1>1, <2>4, <2>5, AdapterIntent
  <2>7. critical => g.pin_requested
    BY <2>p, <2>4, <2>5
  <2>8. g.pin_requested => critical \/ blocks[b].pin_requested
    BY <2>p, <2>4, <2>5
  <2> QED
    BY <1>2, <2>4, <2>6, <2>7, <2>8
<1>3. CASE ~ Known(b)
  <2>1. g = make_intent(phase, p, critical, DefaultSize)
    BY <1>3 DEF get_or_create
  <2> HIDE DEF p
  <2>2. g \in Intents /\ g.phase = phase /\ g.pin_requested = critical
    BY <1>1, <2>1, MadeIntent, SizesAssumption
  <2>3. critical => g.pin_requested
    BY <2>2
  <2>4. g.pin_requested => critical
    BY <2>2
  <2> QED
    BY <1>3, <2>2, <2>3, <2>4
<1> QED
  BY <1>2, <1>3

\* Taking the pin away, or saying that the block is in DRAM, leaves an intent.
LEMMA Unpinned ==
    ASSUME NEW i \in Intents, i.priority # "DECODE_CRITICAL", NEW g,
           g = [i EXCEPT !.pin_requested = FALSE]
    PROVE  /\ g \in Intents /\ ~ g.pin_requested /\ g.phase = i.phase
           /\ g.size_bytes = i.size_bytes /\ g.current_tier = i.current_tier
           /\ g.priority = i.priority
<1> DEFINE Shapes == [phase : Phase, priority : Priority, pin_requested : BOOLEAN,
                      allowed_tiers : {default_allowed_tiers},
                      current_tier : {"HBM", "DRAM"}, size_bytes : Sizes]
<1>1. i \in Shapes
  BY AdapterIntent
<1>2. /\ g \in Shapes /\ g.pin_requested = FALSE /\ g.phase = i.phase
      /\ g.size_bytes = i.size_bytes /\ g.current_tier = i.current_tier
      /\ g.priority = i.priority
  BY <1>1
<1> HIDE DEF Shapes
<1>3. g \in Intents
  <2>1. g \in Shapes /\ g.priority # "DECODE_CRITICAL"
    BY <1>2
  <2> QED
    BY <2>1, AdapterIntent DEF Shapes
<1> QED
  BY <1>2, <1>3

\* The same for a block that is said to be in DRAM.
LEMMA InDram ==
    ASSUME NEW i \in Intents, NEW g, g = [i EXCEPT !.current_tier = "DRAM"]
    PROVE  /\ g \in Intents /\ g.pin_requested = i.pin_requested /\ g.phase = i.phase
           /\ g.size_bytes = i.size_bytes /\ g.current_tier = "DRAM"
BY AdapterIntent

-----------------------------------------------------------------------------
(***************************************************************************)
(* The simulator takes an event                                            *)
(***************************************************************************)
\* Taking the head leaves the other events.
LEMMA TakeHead ==
    ASSUME TraceOK, trace # <<>>, trace' = Tail(trace)
    PROVE  /\ Head(trace) \in Events
           /\ trace' \in Seq(MemoryIntentEvent)
           /\ Events' \subseteq Events
           /\ \A e \in Events : e # Head(trace) => e \in Events'
<1>1. trace \in Seq(MemoryIntentEvent) /\ Len(trace) > 0 /\ Head(trace) = trace[1]
  BY DEF TraceOK
<1>2. /\ trace' \in Seq(MemoryIntentEvent) /\ Len(trace') = Len(trace) - 1
      /\ \A k \in 1 .. Len(trace) - 1 : trace'[k] = trace[k + 1]
  BY <1>1
<1>3. DOMAIN trace = 1 .. Len(trace) /\ DOMAIN trace' = 1 .. Len(trace) - 1
  BY <1>1, <1>2
<1>4. Events' \subseteq Events
  <2> SUFFICES ASSUME NEW k \in DOMAIN trace' PROVE trace'[k] \in Events
    BY DEF Events
  <2>1. trace'[k] = trace[k + 1] /\ k + 1 \in DOMAIN trace
    BY <1>1, <1>2, <1>3
  <2> QED
    BY <2>1 DEF Events
<1>5. ASSUME NEW k \in DOMAIN trace, trace[k] # Head(trace)
      PROVE  trace[k] \in Events'
  <2>1. k - 1 \in DOMAIN trace' /\ trace'[k - 1] = trace[k]
    BY <1>1, <1>2, <1>3, <1>5
  <2> QED
    BY <2>1 DEF Events
<1> QED
  BY <1>1, <1>2, <1>3, <1>4, <1>5 DEF Events

\* The head of the trace is a well-formed event.
LEMMA HeadIsEvent ==
    ASSUME TraceOK, trace # <<>>
    PROVE  /\ Head(trace) \in MemoryIntentEvent /\ Head(trace) \in Events
           /\ Fits(Head(trace)) /\ MatchesTable(Head(trace))
<1>1. trace \in Seq(MemoryIntentEvent) /\ Head(trace) = trace[1] /\ 1 \in DOMAIN trace
  BY DEF TraceOK
<1> QED
  BY <1>1 DEF TraceOK, Events

\* An event is about one block: the others keep their placement.
LEMMA OthersUnchanged ==
    ASSUME TypeOK, NEW e \in MemoryIntentEvent, Handle(e),
           NEW c \in Blocks, c # e.object_id
    PROVE  /\ intent'[c] = intent[c]
           /\ c \in live_blocks' <=> c \in live_blocks
           /\ c \in hbm_blocks' <=> c \in hbm_blocks
           /\ c \in dram_blocks' <=> c \in dram_blocks
<1> DEFINE b == e.object_id
           i == e.intent
<1>1. /\ intent \in [Blocks -> MemoryIntent \cup {NoIntent}]
      /\ b \in Blocks /\ i \in Intents /\ b # c
  BY DEF TypeOK, MemoryIntentEvent
<1>2. \/ Allocated(b, i) \/ Accessed(b, i) \/ MarkedDecodeCritical(b, i)
      \/ MarkedCold(b, i) \/ Committed(b) \/ Spilled(b) \/ Freed(b)
      \/ \E urgent \in BOOLEAN : Prefetched(b, i, urgent)
  BY DEF Handle
<1> HIDE DEF b, i
<1>3. CASE Allocated(b, i)
  BY <1>1, <1>3 DEF Allocated
<1>4. CASE Accessed(b, i)
  BY <1>1, <1>4 DEF Accessed, Raise, placement, move_to_hbm
<1>5. CASE MarkedDecodeCritical(b, i) \/ MarkedCold(b, i)
  BY <1>1, <1>5 DEF MarkedDecodeCritical, MarkedCold, Raise, Ignore, placement
<1>6. CASE Committed(b) \/ Freed(b)
  BY <1>1, <1>6 DEF Committed, Freed, Raise, Ignore, placement
<1>7. CASE Spilled(b)
  BY <1>1, <1>7 DEF Spilled, Ignore, placement
<1>8. CASE \E urgent \in BOOLEAN : Prefetched(b, i, urgent)
  BY <1>1, <1>8 DEF Prefetched, Ignore, placement, move_to_hbm
<1> QED
  BY <1>2, <1>3, <1>4, <1>5, <1>6, <1>7, <1>8

\* What taking the event e does to its own block.
Taken(e) ==
    LET b == e.object_id
        i == e.intent
    IN  CASE e.event_type = "ALLOCATED" -> b \in live_blocks' /\ intent'[b] = i
          [] e.event_type = "ACCESSED" ->
                /\ b \in live_blocks' /\ b \in hbm_blocks'
                /\ intent'[b].pin_requested = i.pin_requested
                /\ intent'[b].size_bytes
                      = IF b \in live_blocks THEN intent[b].size_bytes ELSE i.size_bytes
          [] e.event_type = "MARKED_DECODE_CRITICAL" ->
                /\ b \in live_blocks' /\ (b \in hbm_blocks => b \in hbm_blocks')
                /\ intent'[b].pin_requested
                /\ intent'[b].size_bytes
                      = IF b \in live_blocks THEN intent[b].size_bytes ELSE i.size_bytes
          [] e.event_type = "MARKED_COLD" ->
                /\ b \in live_blocks' <=> b \in live_blocks
                /\ b \in live_blocks' => intent'[b].size_bytes = intent[b].size_bytes
          [] e.event_type = "COMMITTED" -> UNCHANGED placement
          [] e.event_type = "SPILLED" ->
                /\ b \in live_blocks' <=> b \in live_blocks
                /\ b \in live_blocks' =>
                      /\ intent'[b].size_bytes = intent[b].size_bytes
                      /\ intent'[b].pin_requested = intent[b].pin_requested
          [] OTHER -> b \notin live_blocks'

\* The handlers do that, unless they raise.
LEMMA HandlerTakes ==
    ASSUME TypeOK, NEW e \in MemoryIntentEvent, Handle(e), Fits(e), pc' # "raised"
    PROVE  Taken(e)
<1> DEFINE b == e.object_id
           i == e.intent
<1>1. /\ intent \in [Blocks -> MemoryIntent \cup {NoIntent}]
      /\ b \in Blocks /\ i \in Intents /\ i \in MemoryIntent
      /\ b \in live_blocks => intent[b] \in MemoryIntent
      /\ e.event_type \in EventType \ {"PREFETCHED"}
  BY IntentsAssumption DEF TypeOK, MemoryIntentEvent, Fits
<1>2. CASE e.event_type = "ALLOCATED"
  <2>1. Allocated(b, i)
    BY <1>2 DEF Handle
  <2>2. b \in live_blocks' /\ intent'[b] = i
    BY <1>1, <2>1 DEF Allocated
  <2> QED
    BY <1>2, <2>2 DEF Taken
<1>3. CASE e.event_type = "ACCESSED"
  <2>1. Accessed(b, i)
    BY <1>3 DEF Handle
  <2> DEFINE a == AccessedIntent(b, i)
  <2>2. /\ a \in MemoryIntent /\ a.pin_requested = i.pin_requested
        /\ a.size_bytes = IF b \in live_blocks THEN intent[b].size_bytes ELSE i.size_bytes
    <3>1. a \in MemoryIntent
      BY <1>1, AccessedType
    <3>2. CASE b \in live_blocks
      BY <1>1, <3>1, <3>2 DEF AccessedIntent, MemoryIntent
    <3>3. CASE b \notin live_blocks
      BY <1>1, <3>1, <3>3 DEF AccessedIntent
    <3> QED
      BY <3>1, <3>2, <3>3
  <2> HIDE DEF a
  <2>3. /\ b \in live_blocks' /\ b \in hbm_blocks'
        /\ \/ intent' = [intent EXCEPT ![b] = a]
           \/ intent' = [intent EXCEPT ![b] = [a EXCEPT !.current_tier = "HBM"]]
    BY <2>1 DEF Accessed, Raise, move_to_hbm, a
  <2>4. /\ intent'[b].pin_requested = a.pin_requested
        /\ intent'[b].size_bytes = a.size_bytes
    BY <1>1, <2>2, <2>3 DEF MemoryIntent
  <2> QED
    BY <1>3, <2>2, <2>3, <2>4 DEF Taken
<1>4. CASE e.event_type = "MARKED_DECODE_CRITICAL"
  <2>1. MarkedDecodeCritical(b, i)
    BY <1>4 DEF Handle
  <2> DEFINE base == IF b \in live_blocks THEN intent[b] ELSE i
  <2>2. /\ b \in live_blocks' /\ hbm_blocks' = hbm_blocks
        /\ intent' = [intent EXCEPT ![b] =
                        [base EXCEPT !.priority = "DECODE_CRITICAL", !.phase = i.phase,
                                     !.pin_requested = TRUE]]
    BY <2>1 DEF MarkedDecodeCritical, Raise
  <2>3. base \in MemoryIntent
    BY <1>1
  <2>4. base.size_bytes = IF b \in live_blocks THEN intent[b].size_bytes ELSE i.size_bytes
    OBVIOUS
  <2> HIDE DEF base
  <2>5. intent'[b].pin_requested /\ intent'[b].size_bytes = base.size_bytes
    BY <1>1, <2>2, <2>3 DEF MemoryIntent
  <2> QED
    BY <1>4, <2>2, <2>4, <2>5 DEF Taken
<1>5. CASE e.event_type = "MARKED_COLD"
  <2>1. MarkedCold(b, i)
    BY <1>5 DEF Handle
  <2>2. live_blocks' = live_blocks
        /\ (b \in live_blocks => intent'[b].size_bytes = intent[b].size_bytes)
    BY <1>1, <2>1 DEF MarkedCold, Ignore, Raise, placement, MemoryIntent
  <2> QED
    BY <1>5, <2>2 DEF Taken
<1>6. CASE e.event_type = "COMMITTED"
  <2>1. UNCHANGED placement
    BY <1>6 DEF Handle, Committed, Ignore, Raise
  <2> QED
    BY <1>6, <2>1 DEF Taken
<1>7. CASE e.event_type = "SPILLED"
  <2>1. Spilled(b)
    BY <1>7 DEF Handle
  <2>2. /\ live_blocks' = live_blocks
        /\ b \in live_blocks => /\ intent'[b].size_bytes = intent[b].size_bytes
                                /\ intent'[b].pin_requested = intent[b].pin_requested
    BY <1>1, <2>1 DEF Spilled, Ignore, placement, MemoryIntent
  <2> QED
    BY <1>7, <2>2 DEF Taken
<1>8. CASE e.event_type = "FREED"
  <2>1. b \notin live_blocks'
    BY <1>8 DEF Handle, Freed
  <2> QED
    BY <1>8, <2>1 DEF Taken
<1> QED
  BY <1>1, <1>2, <1>3, <1>4, <1>5, <1>6, <1>7, <1>8 DEF EventType

\* The events that are left still match the table.
LEMMA TraceAfterHead ==
    ASSUME TraceOK, trace # <<>>, trace' = Tail(trace), blocks' = blocks
    PROVE  TraceOK'
BY TakeHead DEF TraceOK, Fits, MatchesTable

\* Taking an event about another block settles nothing and unsettles nothing.
LEMMA OtherBlockAgrees ==
    ASSUME TypeOK, TraceOK, Replay, blocks' = blocks, NEW b \in Blocks,
           b # Head(trace).object_id,
           SizeAgrees(b) /\ PinAgrees(b) /\ FreedAgrees(b)
    PROVE  SizeAgrees(b)' /\ PinAgrees(b)' /\ FreedAgrees(b)'
<1>1. /\ Head(trace) \in MemoryIntentEvent /\ Handle(Head(trace))
      /\ trace # <<>> /\ trace' = Tail(trace)
  BY HeadIsEvent DEF Replay
<1>2. /\ intent'[b] = intent[b] /\ blocks'[b] = blocks[b]
      /\ b \in live_blocks' <=> b \in live_blocks
      /\ b \in hbm_blocks' <=> b \in hbm_blocks
  BY <1>1, OthersUnchanged
<1>3. \A e \in Pending(b) : e \in Pending(b)'
  BY <1>1, TakeHead DEF Pending
<1>4. SizeAgrees(b)'
  BY <1>2, <1>3 DEF SizeAgrees, Known
<1>5. PinAgrees(b)'
  BY <1>2, <1>3 DEF PinAgrees, Known
<1>6. FreedAgrees(b)'
  BY <1>2, <1>3 DEF FreedAgrees, Known
<1> QED
  BY <1>4, <1>5, <1>6

\* Taking an event about the block brings it into agreement, if nothing else will.
LEMMA OwnBlockAgrees ==
    ASSUME TypeOK, TraceOK, Replay, blocks' = blocks, pc' # "raised",
           NEW b, b = Head(trace).object_id,
           SizeAgrees(b) /\ PinAgrees(b) /\ FreedAgrees(b)
    PROVE  SizeAgrees(b)' /\ PinAgrees(b)' /\ FreedAgrees(b)'
<1> DEFINE e == Head(trace)
<1>1. /\ e \in MemoryIntentEvent /\ Handle(e) /\ Fits(e) /\ MatchesTable(e)
      /\ trace # <<>> /\ trace' = Tail(trace)
  BY HeadIsEvent DEF Replay
<1>2. Taken(e)
  BY <1>1, HandlerTakes
<1>3. \A x \in Pending(b) : x # e => x \in Pending(b)'
  BY <1>1, TakeHead DEF Pending
<1>4. /\ e.object_id = b /\ e.event_type \in EventType \ {"PREFETCHED"}
      /\ b \in Blocks /\ e.intent \in Intents
      /\ \/ blocks[b] = e.intent
         \/ blocks[b] = NoIntent /\ e.event_type \in {"MARKED_COLD", "FREED"}
  BY <1>1 DEF MemoryIntentEvent, Fits, MatchesTable
<1>5. Known(b) => blocks[b] = e.intent
  BY <1>4 DEF Known
<1>6. Known(b)' = Known(b) /\ blocks'[b] = blocks[b] /\ e.intent # NoIntent
  BY <1>4, IntentIsNotAbsent DEF Known
<1> HIDE DEF e
<1>7. SizeAgrees(b)'
  <2> SUFFICES ASSUME b \in live_blocks',
                      ~ \E x \in Pending(b)' : x.event_type \in {"ALLOCATED", "FREED"}
               PROVE  Known(b) /\ intent'[b].size_bytes = blocks[b].size_bytes
    BY <1>6 DEF SizeAgrees, Known
  <2>1. CASE e.event_type = "ALLOCATED"
    <3>1. intent'[b] = e.intent
      BY <1>2, <1>4, <2>1 DEF Taken
    <3> QED
      BY <1>4, <1>6, <2>1, <3>1 DEF Known
  <2>2. CASE e.event_type \in {"ACCESSED", "MARKED_DECODE_CRITICAL"}
    <3>1. /\ intent'[b].size_bytes
               = IF b \in live_blocks THEN intent[b].size_bytes ELSE e.intent.size_bytes
      BY <1>2, <1>4, <2>2 DEF Taken
    <3>2. blocks[b] = e.intent /\ Known(b)
      BY <1>4, <1>6, <2>2 DEF Known
    <3>3. b \in live_blocks => intent[b].size_bytes = blocks[b].size_bytes
      BY <1>3, <2>2 DEF SizeAgrees
    <3> QED
      BY <3>1, <3>2, <3>3
  <2>3. CASE e.event_type \in {"MARKED_COLD", "COMMITTED", "SPILLED"}
    <3>1. b \in live_blocks /\ intent'[b].size_bytes = intent[b].size_bytes
      BY <1>2, <1>4, <2>3 DEF Taken, placement
    <3>2. Known(b) /\ intent[b].size_bytes = blocks[b].size_bytes
      BY <1>3, <2>3, <3>1 DEF SizeAgrees
    <3> QED
      BY <3>1, <3>2
  <2>4. CASE e.event_type = "FREED"
    BY <1>2, <1>4, <2>4 DEF Taken
  <2> QED
    BY <1>4, <2>1, <2>2, <2>3, <2>4 DEF EventType
<1>8. PinAgrees(b)'
  <2> SUFFICES ASSUME Known(b), blocks[b].pin_requested,
                      ~ \E x \in Pending(b)' : x.event_type = "ACCESSED"
               PROVE  /\ b \in live_blocks' /\ intent'[b].pin_requested
                      /\ Policy \in IntentPolicies /\ blocks[b].current_tier = "HBM"
                            => b \in hbm_blocks'
    BY <1>6 DEF PinAgrees
  <2>1. e.intent.pin_requested /\ blocks[b] = e.intent
    BY <1>5
  <2>2. e.event_type \notin {"ALLOCATED", "MARKED_COLD", "FREED"}
    BY <1>1, <2>1 DEF Fits
  <2>3. CASE e.event_type = "ACCESSED"
    BY <1>2, <1>4, <2>1, <2>3 DEF Taken
  <2>4. CASE e.event_type # "ACCESSED"
    <3>1. /\ b \in live_blocks /\ intent[b].pin_requested
          /\ Policy \in IntentPolicies /\ blocks[b].current_tier = "HBM" => b \in hbm_blocks
      BY <1>3, <2>4 DEF PinAgrees
    <3>2. CASE e.event_type = "MARKED_DECODE_CRITICAL"
      BY <1>2, <1>4, <3>1, <3>2 DEF Taken
    <3>3. CASE e.event_type = "COMMITTED"
      BY <1>2, <1>4, <3>1, <3>3 DEF Taken, placement
    <3>4. CASE e.event_type = "SPILLED"
      <4>1. blocks[b].current_tier # "HBM"
        BY <1>1, <2>1, <3>4 DEF Fits
      <4>2. b \in live_blocks' /\ intent'[b].pin_requested = intent[b].pin_requested
        BY <1>2, <1>4, <3>1, <3>4 DEF Taken
      <4> QED
        BY <3>1, <4>1, <4>2
    <3> QED
      BY <1>4, <2>2, <2>4, <3>2, <3>3, <3>4 DEF EventType
  <2> QED
    BY <2>3, <2>4
<1>9. FreedAgrees(b)'
  <2> SUFFICES ASSUME Known(b), blocks[b].phase = "DONE",
                      ~ \E x \in Pending(b)' : x.event_type = "FREED"
               PROVE  b \notin live_blocks'
    BY <1>6 DEF FreedAgrees
  <2>1. e.event_type \in {"MARKED_COLD", "FREED", "SPILLED"}
    BY <1>1, <1>5 DEF Fits
  <2>2. CASE e.event_type = "FREED"
    BY <1>2, <1>4, <2>2 DEF Taken
  <2>3. CASE e.event_type \in {"MARKED_COLD", "SPILLED"}
    <3>1. b \notin live_blocks
      BY <1>3, <2>3 DEF FreedAgrees
    <3> QED
      BY <1>2, <1>4, <2>3, <3>1 DEF Taken
  <2> QED
    BY <2>1, <2>2, <2>3
<1> QED
  BY <1>7, <1>8, <1>9

\* The capacity loop moves blocks that no one pins, and nothing else.
LEMMA LoopKeepsAgreement ==
    ASSUME TypeOK, NoDeadResident, Agreement, Loop \/ Finish, trace' = trace, blocks' = blocks
    PROVE  Agreement'
<1>1. live_blocks' = live_blocks /\ pc # "raised"
  BY DEF Loop, Finish, EvictOne, CapacityExhausted, EnsureDone, placement
<1>2. ASSUME NEW b \in live_blocks
      PROVE  /\ intent'[b].size_bytes = intent[b].size_bytes
             /\ intent'[b].pin_requested = intent[b].pin_requested
             /\ Policy \in IntentPolicies /\ intent[b].pin_requested /\ b \in hbm_blocks
                   => b \in hbm_blocks'
  <2>1. CASE EvictOne
    <3>1. PICK v \in choose_victim(Candidates) : Displace(v)
      BY <2>1 DEF EvictOne
    <3>2. PICK target : /\ intent' = [intent EXCEPT ![v].current_tier = target]
                        /\ hbm_blocks' = hbm_blocks \ {v}
      BY <3>1 DEF Displace
    <3>3. Policy \in IntentPolicies => ~ intent[v].pin_requested
      BY <2>1, <3>1 DEF EvictOne, AllPinned, choose_victim
    <3>4. b \in Blocks /\ intent \in [Blocks -> MemoryIntent \cup {NoIntent}]
          /\ intent[b] \in MemoryIntent
      BY DEF TypeOK
    <3>5. /\ intent'[b].size_bytes = intent[b].size_bytes
          /\ intent'[b].pin_requested = intent[b].pin_requested
      BY <3>2, <3>4 DEF MemoryIntent
    <3> QED
      BY <3>2, <3>3, <3>5
  <2>2. CASE CapacityExhausted \/ EnsureDone \/ Finish
    BY <2>2 DEF CapacityExhausted, EnsureDone, Finish, placement
  <2> QED
    BY <2>1, <2>2 DEF Loop
<1> SUFFICES ASSUME NEW b \in Blocks
             PROVE  SizeAgrees(b)' /\ PinAgrees(b)' /\ FreedAgrees(b)'
  BY DEF Agreement
<1>3. /\ SizeAgrees(b) /\ PinAgrees(b) /\ FreedAgrees(b)
      /\ Pending(b)' = Pending(b) /\ blocks'[b] = blocks[b] /\ Known(b)' = Known(b)
  BY <1>1 DEF Agreement, Pending, Events, Known
<1>4. SizeAgrees(b)'
  BY <1>1, <1>2, <1>3 DEF SizeAgrees
<1>5. PinAgrees(b)'
  BY <1>1, <1>2, <1>3 DEF PinAgrees
<1>6. FreedAgrees(b)'
  BY <1>1, <1>3 DEF FreedAgrees
<1> QED
  BY <1>4, <1>5, <1>6

\* Every step of the simulator keeps the invariant.
LEMMA SimulateStep ==
    ASSUME TypeOK, NoDeadResident, AdapterInvariant, SimulateTrace
    PROVE  AdapterInvariant'
<1>1. blocks' = blocks /\ Simulate
  BY DEF SimulateTrace, adapter
<1>2. CASE Replay
  <2>1. trace # <<>> /\ trace' = Tail(trace) /\ Handle(Head(trace))
    BY <1>2 DEF Replay
  <2>2. TraceOK'
    BY <1>1, <2>1, TraceAfterHead DEF AdapterInvariant
  <2>3. pc = "idle"
    BY <2>1 DEF Handle, Allocated, Accessed, MarkedDecodeCritical, MarkedCold, Committed,
                Spilled, Prefetched, Freed
  <2>4. ASSUME pc' # "raised", NEW b \in Blocks
        PROVE  SizeAgrees(b)' /\ PinAgrees(b)' /\ FreedAgrees(b)'
    <3>1. SizeAgrees(b) /\ PinAgrees(b) /\ FreedAgrees(b)
      BY <2>3 DEF AdapterInvariant, Agreement
    <3> QED
      BY <1>1, <1>2, <2>4, <3>1, OtherBlockAgrees, OwnBlockAgrees DEF AdapterInvariant
  <2> QED
    BY <2>2, <2>4 DEF AdapterInvariant, Agreement
<1>3. CASE (Loop \/ Finish) /\ UNCHANGED trace
  <2>1. Agreement'
    BY <1>1, <1>3, LoopKeepsAgreement DEF AdapterInvariant
  <2>2. TraceOK'
    BY <1>1, <1>3 DEF AdapterInvariant, TraceOK, Events, Fits, MatchesTable
  <2> QED
    BY <2>1, <2>2 DEF AdapterInvariant
<1> QED
  BY <1>1, <1>2, <1>3 DEF Simulate

-----------------------------------------------------------------------------
(***************************************************************************)
(* The engine calls the adapter                                            *)
(***************************************************************************)
\* What a callback makes of the table's entry for one block, when the simulator has
\* nothing left to do: a size that the block already has or an event that sets it, a
\* pin and a tier that it already has or an access that makes it so, and the phase
\* DONE only with a FREED event.
Settled(b) ==
    /\ Known(b) => \/ Known(b)' /\ blocks'[b].size_bytes = blocks[b].size_bytes
                   \/ \E e \in Pending(b)' : e.event_type \in {"ALLOCATED", "FREED"}
    /\ Known(b)' /\ blocks'[b].pin_requested =>
          \/ /\ Known(b) /\ blocks[b].pin_requested
             /\ blocks'[b].current_tier = "HBM" => blocks[b].current_tier = "HBM"
          \/ \E e \in Pending(b)' : e.event_type = "ACCESSED"
    /\ Known(b)' /\ blocks'[b].phase = "DONE" =>
          \/ Known(b) /\ blocks[b].phase = "DONE"
          \/ \E e \in Pending(b)' : e.event_type = "FREED"

\* A callback that settles every block keeps the agreement.
LEMMA SettledKeepsAgreement ==
    ASSUME Agreement, Quiescent, UNCHANGED vars, \A b \in Blocks : Settled(b)
    PROVE  Agreement'
<1>1. /\ live_blocks' = live_blocks /\ intent' = intent /\ hbm_blocks' = hbm_blocks
      /\ pc' = pc /\ pc = "idle" /\ trace = <<>>
  BY DEF vars, Quiescent
<1>2. \A b : Pending(b) = {}
  BY <1>1 DEF Pending, Events
<1> SUFFICES ASSUME NEW b \in Blocks
             PROVE  SizeAgrees(b)' /\ PinAgrees(b)' /\ FreedAgrees(b)'
  BY DEF Agreement
<1>3. /\ b \in live_blocks => Known(b) /\ intent[b].size_bytes = blocks[b].size_bytes
      /\ Known(b) /\ blocks[b].pin_requested =>
            /\ b \in live_blocks /\ intent[b].pin_requested
            /\ Policy \in IntentPolicies /\ blocks[b].current_tier = "HBM" => b \in hbm_blocks
      /\ Known(b) /\ blocks[b].phase = "DONE" => b \notin live_blocks
  BY <1>1, <1>2 DEF Agreement, SizeAgrees, PinAgrees, FreedAgrees
<1>4. SizeAgrees(b)'
  BY <1>1, <1>3 DEF SizeAgrees, Settled
<1>5. PinAgrees(b)'
  BY <1>1, <1>3 DEF PinAgrees, Settled
<1>6. FreedAgrees(b)'
  BY <1>1, <1>3 DEF FreedAgrees, Settled
<1> QED
  BY <1>4, <1>5, <1>6

\* A block whose entry does not change is settled.
LEMMA UntouchedIsSettled ==
    ASSUME NEW b, blocks'[b] = blocks[b]
    PROVE  Settled(b)
BY DEF Settled, Known

\* _record with events that carry the new entries of the table.
LEMMA RecordFacts ==
    ASSUME TraceOK, NEW intents, NEW es \in Seq(MemoryIntentEvent), Record(intents, es),
           \A b \in DOMAIN intents : intents[b] \in Intents \cup {NoIntent},
           \A k \in DOMAIN es :
              /\ Fits(es[k]) /\ es[k].object_id \in DOMAIN intents
              /\ \/ intents[es[k].object_id] = es[k].intent
                 \/ /\ intents[es[k].object_id] = NoIntent
                    /\ es[k].event_type \in {"MARKED_COLD", "FREED"}
    PROVE  /\ TraceOK' /\ UNCHANGED vars
           /\ \A b \in Blocks : blocks'[b] = IF b \in DOMAIN intents THEN intents[b]
                                                                      ELSE blocks[b]
           /\ \A k \in DOMAIN es : es[k] \in Pending(es[k].object_id)'
<1>1. /\ UNCHANGED vars /\ trace' = es
      /\ blocks' = [b \in Blocks |-> IF b \in DOMAIN intents THEN intents[b] ELSE blocks[b]]
  BY DEF Record
<1>2. blocks' \in [Blocks -> Intents \cup {NoIntent}]
  BY <1>1 DEF TraceOK
<1>3. Events' = {es[k] : k \in DOMAIN es}
  BY <1>1 DEF Events
<1>4. ASSUME NEW k \in DOMAIN es PROVE Fits(es[k])' /\ MatchesTable(es[k])'
  <2>0. es[k] \in MemoryIntentEvent
    OBVIOUS
  <2>1. es[k].object_id \in Blocks
    BY <2>0 DEF MemoryIntentEvent
  <2>2. blocks'[es[k].object_id] = intents[es[k].object_id]
    BY <1>1, <2>1
  <2>3. MatchesTable(es[k])'
    BY <2>2 DEF MatchesTable
  <2>4. Fits(es[k])' <=> Fits(es[k])
    BY DEF Fits
  <2> QED
    BY <2>3, <2>4
<1>5. TraceOK'
  BY <1>1, <1>2, <1>3, <1>4 DEF TraceOK
<1>6. \A k \in DOMAIN es : es[k] \in Pending(es[k].object_id)'
  BY <1>3 DEF Pending
<1> QED
  BY <1>1, <1>5, <1>6

\* The callbacks that record one event.
LEMMA RecordOneFacts ==
    ASSUME TraceOK, NEW b \in Blocks, NEW i \in Intents, NEW type \in EventType,
           Record([c \in {b} |-> i], <<Ev(type, b, i)>>), Fits(Ev(type, b, i))
    PROVE  /\ TraceOK' /\ UNCHANGED vars
           /\ blocks'[b] = i /\ Known(b)'
           /\ \A c \in Blocks \ {b} : Settled(c)
           /\ Ev(type, b, i) \in Pending(b)' /\ Ev(type, b, i).event_type = type
<1> DEFINE es == <<Ev(type, b, i)>>
           intents == [c \in {b} |-> i]
<1>1. Ev(type, b, i) \in MemoryIntentEvent /\ Ev(type, b, i).object_id = b
      /\ Ev(type, b, i).event_type = type /\ Ev(type, b, i).intent = i
  BY DEF Ev, MemoryIntentEvent
<1>2. es \in Seq(MemoryIntentEvent) /\ DOMAIN es = {1} /\ es[1] = Ev(type, b, i)
  BY <1>1
<1>3. DOMAIN intents = {b} /\ intents[b] = i
  OBVIOUS
<1>4. Record(intents, es)
  OBVIOUS
<1> HIDE DEF es, intents
<1>5. /\ TraceOK' /\ UNCHANGED vars
      /\ \A c \in Blocks : blocks'[c] = IF c \in {b} THEN intents[c] ELSE blocks[c]
      /\ \A k \in DOMAIN es : es[k] \in Pending(es[k].object_id)'
  BY <1>1, <1>2, <1>3, <1>4, RecordFacts
<1>6. \A c \in Blocks \ {b} : Settled(c)
  BY <1>5, UntouchedIsSettled
<1>7. blocks'[b] = i /\ Known(b)'
  BY <1>3, <1>5, IntentIsNotAbsent DEF Known
<1>8. Ev(type, b, i) \in Pending(b)'
  BY <1>1, <1>2, <1>5
<1> QED
  BY <1>1, <1>5, <1>6, <1>7, <1>8

\* The intents of the callbacks about a block that was or was not known.
LEMMA CallbackIntents ==
    ASSUME TraceOK, NEW b \in Blocks
    PROVE  /\ \A phase \in {"PREFILL", "DECODE"}, critical \in BOOLEAN :
                 LET g == AccessedIntentOf(b, phase, critical)
                 IN  /\ g \in Intents /\ g.phase = phase
                     /\ critical => g.pin_requested
                     /\ Known(b) => g.size_bytes = blocks[b].size_bytes
           /\ LET g == PrefillIntent(b)
              IN  /\ g \in Intents /\ g.phase = "PREFILL" /\ ~ g.pin_requested
                  /\ Known(b) => g.size_bytes = blocks[b].size_bytes
           /\ LET g == CommittedIntent(b)
              IN  /\ g \in Intents /\ g.phase = "VERIFY"
                  /\ g.pin_requested => Known(b) /\ blocks[b].pin_requested
                  /\ Known(b) => /\ g.size_bytes = blocks[b].size_bytes
                                 /\ g.current_tier = blocks[b].current_tier
           /\ \A phase \in {"IDLE", "DONE"} :
                 LET g == ColdIntent(b, phase)
                 IN  /\ g \in Intents /\ g.phase = phase /\ ~ g.pin_requested
                     /\ Known(b) => g.size_bytes = blocks[b].size_bytes
           /\ LET g == FreedIntent(b)
              IN  /\ g \in Intents /\ g.phase = "DONE" /\ ~ g.pin_requested
                  /\ Known(b) => g.size_bytes = blocks[b].size_bytes
<1>p. {"PREFILL", "DECODE", "VERIFY", "IDLE", "DONE"} \subseteq Phase
  BY DEF Phase
<1>1. ASSUME NEW phase \in {"PREFILL", "DECODE"}, NEW critical \in BOOLEAN
      PROVE  LET g == AccessedIntentOf(b, phase, critical)
             IN  /\ g \in Intents /\ g.phase = phase
                 /\ critical => g.pin_requested
                 /\ Known(b) => g.size_bytes = blocks[b].size_bytes
  <2> DEFINE priority == IF phase = "DECODE" THEN "HOT" ELSE "WARM"
             g == AccessedIntentOf(b, phase, critical)
  <2>1. g = get_or_create(b, phase, priority, critical) /\ phase \in Phase
        /\ priority \in {"HOT", "WARM", "COLD"}
    BY <1>p DEF AccessedIntentOf
  <2> HIDE DEF priority, g
  <2>2. /\ g \in Intents /\ g.phase = phase /\ (critical => g.pin_requested)
        /\ Known(b) => g.size_bytes = blocks[b].size_bytes
    BY <2>1, GetOrCreate
  <2> QED
    BY <2>2 DEF g
<1>2. /\ CommittedIntent(b) \in Intents /\ CommittedIntent(b).phase = "VERIFY"
      /\ CommittedIntent(b).pin_requested => Known(b) /\ blocks[b].pin_requested
      /\ Known(b) => /\ CommittedIntent(b).size_bytes = blocks[b].size_bytes
                     /\ CommittedIntent(b).current_tier = blocks[b].current_tier
  <2> DEFINE g == CommittedIntent(b)
             critical == FALSE
  <2>1. /\ g = get_or_create(b, "VERIFY", "WARM", critical) /\ "VERIFY" \in Phase
        /\ critical \in BOOLEAN /\ ~ critical
    BY <1>p DEF CommittedIntent
  <2> HIDE DEF g, critical
  <2>2. /\ g \in Intents /\ g.phase = "VERIFY"
        /\ g.pin_requested => Known(b) /\ blocks[b].pin_requested
        /\ Known(b) => /\ g.size_bytes = blocks[b].size_bytes
                       /\ g.current_tier = blocks[b].current_tier
    BY <2>1, GetOrCreate
  <2> QED
    BY <2>2 DEF g
<1>3. ASSUME NEW phase \in Phase, NEW priority \in {"WARM", "COLD"}, NEW g,
             g = [get_or_create(b, phase, priority, FALSE) EXCEPT !.pin_requested = FALSE]
      PROVE  /\ g \in Intents /\ g.phase = phase /\ ~ g.pin_requested
             /\ Known(b) => g.size_bytes = blocks[b].size_bytes
  <2> DEFINE h == get_or_create(b, phase, priority, FALSE)
  <2>1. /\ h \in Intents /\ h.phase = phase
        /\ Known(b) => h.size_bytes = blocks[b].size_bytes
    <3> DEFINE critical == FALSE
    <3>1. h = get_or_create(b, phase, priority, critical) /\ critical \in BOOLEAN
      OBVIOUS
    <3> HIDE DEF h, critical
    <3> QED
      BY <3>1, GetOrCreate
  <2>2. h.priority # "DECODE_CRITICAL"
    <3>1. CASE Known(b)
      <4>1. h = [blocks[b] EXCEPT !.phase = phase, !.priority = priority,
                                  !.pin_requested = FALSE \/ @]
        BY <3>1 DEF get_or_create
      <4>2. blocks[b] \in [phase : Phase, priority : Priority, pin_requested : BOOLEAN,
                           allowed_tiers : {default_allowed_tiers},
                           current_tier : {"HBM", "DRAM"}, size_bytes : Sizes]
        BY <3>1, AdapterIntent DEF TraceOK, Known
      <4> HIDE DEF h
      <4>3. h.priority = priority
        BY <4>1, <4>2
      <4> QED
        BY <4>3
    <3>2. CASE ~ Known(b)
      BY <3>2 DEF get_or_create, make_intent
    <3> QED
      BY <3>1, <3>2
  <2>3. g = [h EXCEPT !.pin_requested = FALSE]
    BY <1>3
  <2> HIDE DEF h
  <2>4. g \in Intents /\ ~ g.pin_requested /\ g.phase = h.phase /\ g.size_bytes = h.size_bytes
    BY <2>1, <2>2, <2>3, Unpinned
  <2> QED
    BY <2>1, <2>4
<1>4. /\ PrefillIntent(b) \in Intents /\ PrefillIntent(b).phase = "PREFILL"
      /\ ~ PrefillIntent(b).pin_requested
      /\ Known(b) => PrefillIntent(b).size_bytes = blocks[b].size_bytes
  BY <1>p, <1>3 DEF PrefillIntent
<1>5. ASSUME NEW phase \in {"IDLE", "DONE"}
      PROVE  /\ ColdIntent(b, phase) \in Intents /\ ColdIntent(b, phase).phase = phase
             /\ ~ ColdIntent(b, phase).pin_requested
             /\ Known(b) => ColdIntent(b, phase).size_bytes = blocks[b].size_bytes
  BY ZenonT(30), <1>p, <1>3 DEF ColdIntent
<1>6. /\ FreedIntent(b) \in Intents /\ FreedIntent(b).phase = "DONE"
      /\ ~ FreedIntent(b).pin_requested
      /\ Known(b) => FreedIntent(b).size_bytes = blocks[b].size_bytes
  <2>1. FreedIntent(b) = [ColdIntent(b, "DONE") EXCEPT !.current_tier = "DRAM"]
    BY DEF FreedIntent
  <2> QED
    BY <1>5, <2>1, InDram
<1> QED
  BY <1>1, <1>2, <1>4, <1>5, <1>6

\* A callback about one block, or one that records nothing, keeps the invariant.
LEMMA OneEventStep ==
    ASSUME AdapterInvariant, Quiescent, NEW b \in Blocks, NEW i \in Intents,
           NEW type \in EventType,
           Record([c \in {b} |-> i], <<Ev(type, b, i)>>), Fits(Ev(type, b, i)),
           Known(b) /\ type # "ALLOCATED" => i.size_bytes = blocks[b].size_bytes,
           i.pin_requested =>
               \/ type = "ACCESSED"
               \/ /\ Known(b) /\ blocks[b].pin_requested
                  /\ i.current_tier = blocks[b].current_tier,
           i.phase = "DONE" => type = "FREED"
    PROVE  AdapterInvariant'
<1>1. /\ TraceOK' /\ UNCHANGED vars /\ blocks'[b] = i /\ Known(b)'
      /\ \A c \in Blocks \ {b} : Settled(c)
      /\ Ev(type, b, i) \in Pending(b)' /\ Ev(type, b, i).event_type = type
  BY RecordOneFacts DEF AdapterInvariant
<1>2. Settled(b)
  BY <1>1 DEF Settled
<1>3. Agreement'
  BY <1>1, <1>2, SettledKeepsAgreement DEF AdapterInvariant
<1> QED
  BY <1>1, <1>3 DEF AdapterInvariant

\* The callbacks about one block.
LEMMA BlockCallbackStep ==
    ASSUME AdapterInvariant, BlockCallback
    PROVE  AdapterInvariant'
<1>1. PICK b \in Requests \X BlockIds :
         \/ \E phase \in {"PREFILL", "DECODE"} :
               \/ \E is_draft \in BOOLEAN, size \in Sizes :
                     on_block_allocated(b, phase, is_draft, size)
               \/ \E critical \in BOOLEAN : on_block_accessed(b, phase, critical)
         \/ on_block_committed(b)
         \/ on_block_marked_cold(b)
         \/ on_block_freed(b)
  BY DEF BlockCallback
<1>2. b \in Blocks /\ TraceOK
  BY BlocksAssumption DEF AdapterInvariant
<1>f. ASSUME NEW type, NEW i
      PROVE  Ev(type, b, i).event_type = type /\ Ev(type, b, i).intent = i
  BY DEF Ev
<1>3. ASSUME NEW phase \in {"PREFILL", "DECODE"}, NEW is_draft \in BOOLEAN, NEW size \in Sizes,
             on_block_allocated(b, phase, is_draft, size)
      PROVE  AdapterInvariant'
  <2> DEFINE priority == IF phase = "PREFILL" THEN "WARM"
                         ELSE IF is_draft THEN "COLD" ELSE "HOT"
             pin == FALSE
             i == make_intent(phase, priority, pin, size)
  <2>1. Quiescent /\ Record([c \in {b} |-> i], <<Ev("ALLOCATED", b, i)>>)
    BY <1>3 DEF on_block_allocated
  <2>2. /\ phase \in Phase /\ priority \in Priority /\ priority # "DECODE_CRITICAL"
        /\ pin \in BOOLEAN /\ ~ pin
    BY DEF Phase, Priority
  <2> HIDE DEF priority, pin
  <2>3. i \in Intents /\ i.phase = phase /\ ~ i.pin_requested /\ i.current_tier = "HBM"
    BY <2>2, MadeIntent
  <2> HIDE DEF i
  <2>4. Fits(Ev("ALLOCATED", b, i)) /\ "ALLOCATED" \in EventType
    BY <1>f, <2>3 DEF Fits, EventType
  <2> QED
    BY <1>2, <2>1, <2>3, <2>4, OneEventStep
<1>4. ASSUME NEW phase \in {"PREFILL", "DECODE"}, NEW critical \in BOOLEAN,
             on_block_accessed(b, phase, critical)
      PROVE  AdapterInvariant'
  <2> DEFINE i == AccessedIntentOf(b, phase, critical)
  <2>1. Quiescent /\ Record([c \in {b} |-> i], <<Ev("ACCESSED", b, i)>>)
    BY <1>4 DEF on_block_accessed, RecordOne
  <2>2. i \in Intents /\ i.phase = phase /\ (Known(b) => i.size_bytes = blocks[b].size_bytes)
    BY <1>2, CallbackIntents
  <2> HIDE DEF i
  <2>3. Fits(Ev("ACCESSED", b, i)) /\ "ACCESSED" \in EventType
    BY <1>f, <2>2 DEF Fits, EventType
  <2> QED
    BY <1>2, <2>1, <2>2, <2>3, OneEventStep
<1>5. ASSUME on_block_committed(b) PROVE AdapterInvariant'
  <2> DEFINE i == CommittedIntent(b)
  <2>1. Quiescent /\ Record([c \in {b} |-> i], <<Ev("COMMITTED", b, i)>>)
    BY <1>5 DEF on_block_committed, RecordOne
  <2>2. /\ i \in Intents /\ i.phase = "VERIFY"
        /\ i.pin_requested => Known(b) /\ blocks[b].pin_requested
        /\ Known(b) => /\ i.size_bytes = blocks[b].size_bytes
                       /\ i.current_tier = blocks[b].current_tier
    BY <1>2, CallbackIntents
  <2> HIDE DEF i
  <2>3. Fits(Ev("COMMITTED", b, i)) /\ "COMMITTED" \in EventType
    BY <1>f, <2>2 DEF Fits, EventType
  <2> QED
    BY <1>2, <2>1, <2>2, <2>3, OneEventStep
<1>6. ASSUME on_block_marked_cold(b) PROVE AdapterInvariant'
  <2> DEFINE i == ColdIntent(b, "IDLE")
  <2>1. Quiescent /\ Record([c \in {b} |-> i], <<Ev("MARKED_COLD", b, i)>>)
    BY <1>6 DEF on_block_marked_cold, RecordOne
  <2>2. /\ i \in Intents /\ i.phase = "IDLE" /\ ~ i.pin_requested
        /\ Known(b) => i.size_bytes = blocks[b].size_bytes
    BY <1>2, CallbackIntents
  <2> HIDE DEF i
  <2>3. Fits(Ev("MARKED_COLD", b, i)) /\ "MARKED_COLD" \in EventType
    BY <1>f, <2>2 DEF Fits, EventType
  <2> QED
    BY <1>2, <2>1, <2>2, <2>3, OneEventStep
<1>7. ASSUME on_block_freed(b) PROVE AdapterInvariant'
  <2> DEFINE i == FreedIntent(b)
  <2>1. Quiescent /\ Record([c \in {b} |-> i], <<Ev("FREED", b, i)>>)
    BY <1>7 DEF on_block_freed, RecordOne
  <2>2. /\ i \in Intents /\ i.phase = "DONE" /\ ~ i.pin_requested
        /\ Known(b) => i.size_bytes = blocks[b].size_bytes
    BY <1>2, CallbackIntents
  <2> HIDE DEF i
  <2>3. Fits(Ev("FREED", b, i)) /\ "FREED" \in EventType
    BY <1>f, <2>2 DEF Fits, EventType
  <2> QED
    BY <1>2, <2>1, <2>2, <2>3, OneEventStep
<1> QED
  BY <1>1, <1>3, <1>4, <1>5, <1>6, <1>7

\* A callback about a list of blocks keeps the invariant, whatever the list.
LEMMA ListStep ==
    ASSUME AdapterInvariant, Quiescent, NEW intents, NEW es \in Seq(MemoryIntentEvent),
           Record(intents, es), DOMAIN intents \subseteq Blocks,
           \A b \in DOMAIN intents : intents[b] \in Intents \cup {NoIntent},
           \A k \in DOMAIN es :
              /\ Fits(es[k]) /\ es[k].object_id \in DOMAIN intents
              /\ \/ intents[es[k].object_id] = es[k].intent
                 \/ /\ intents[es[k].object_id] = NoIntent
                    /\ es[k].event_type \in {"MARKED_COLD", "FREED"},
           \A b \in DOMAIN intents : intents[b] = NoIntent =>
              \E k \in DOMAIN es : es[k].object_id = b /\ es[k].event_type = "FREED",
           \A b \in DOMAIN intents : intents[b] # NoIntent =>
              /\ Known(b) => intents[b].size_bytes = blocks[b].size_bytes
              /\ intents[b].pin_requested =>
                    \/ /\ Known(b) /\ blocks[b].pin_requested
                       /\ intents[b].current_tier # "HBM"
                    \/ \E k \in DOMAIN es :
                          es[k].object_id = b /\ es[k].event_type = "ACCESSED"
              /\ intents[b].phase = "DONE" => Known(b) /\ blocks[b].phase = "DONE"
    PROVE  AdapterInvariant'
<1>1. /\ TraceOK' /\ UNCHANGED vars
      /\ \A b \in Blocks : blocks'[b] = IF b \in DOMAIN intents THEN intents[b] ELSE blocks[b]
      /\ \A k \in DOMAIN es : es[k] \in Pending(es[k].object_id)'
  BY RecordFacts DEF AdapterInvariant
<1>2. ASSUME NEW b \in Blocks PROVE Settled(b)
  <2>1. CASE b \notin DOMAIN intents
    BY <1>1, <2>1, UntouchedIsSettled
  <2>2. CASE b \in DOMAIN intents /\ intents[b] = NoIntent
    <3>1. ~ Known(b)'
      BY <1>1, <2>2 DEF Known
    <3>2. \E e \in Pending(b)' : e.event_type \in {"ALLOCATED", "FREED"}
      BY <1>1, <2>2
    <3> QED
      BY <3>1, <3>2 DEF Settled
  <2>3. CASE b \in DOMAIN intents /\ intents[b] # NoIntent
    <3>1. blocks'[b] = intents[b] /\ Known(b)'
      BY <1>1, <2>3 DEF Known
    <3>2. (\E k \in DOMAIN es : es[k].object_id = b /\ es[k].event_type = "ACCESSED")
              => \E e \in Pending(b)' : e.event_type = "ACCESSED"
      BY <1>1
    <3> QED
      BY <2>3, <3>1, <3>2 DEF Settled
  <2> QED
    BY <2>1, <2>2, <2>3
<1> QED
  BY <1>1, <1>2, SettledKeepsAgreement DEF AdapterInvariant

\* The listed blocks are blocks of the trace.
LEMMA ListedAreBlocks ==
    ASSUME NEW r \in Requests, NEW ids \in Seq(BlockIds)
    PROVE  /\ ids \in Seq(BlockIds) /\ ListedBlocks(r, ids) \subseteq Blocks
           /\ \A k \in DOMAIN ids : <<r, ids[k]>> \in ListedBlocks(r, ids)
           /\ \A b \in ListedBlocks(r, ids) : \E k \in DOMAIN ids : b = <<r, ids[k]>>
<1>1. ids \in Seq(BlockIds)
  OBVIOUS
<1>2. \A k \in DOMAIN ids : ids[k] \in BlockIds
  BY <1>1
<1>3. \A k \in DOMAIN ids : <<r, ids[k]>> \in Blocks
  BY <1>2, BlocksAssumption
<1> QED
  BY <1>1, <1>3 DEF ListedBlocks

\* Two events for each listed block: the indices of the first and of the second.
LEMMA PairIndex ==
    ASSUME NEW m \in Nat
    PROVE  /\ \A k \in 1 .. 2 * m : (k + 1) \div 2 \in 1 .. m
           /\ \A j \in 1 .. m : /\ 2 * j \in 1 .. 2 * m /\ 2 * j % 2 = 0
                                /\ (2 * j + 1) \div 2 = j
OBVIOUS

\* The events of a decode step are a mark and an access of each listed block, both
\* with the intent that the table gets.
LEMMA DecodeFacts ==
    ASSUME TraceOK, NEW r \in Requests, NEW ids \in Seq(BlockIds), NEW es,
           es = DecodeEvents(r, ids)
    PROVE  /\ es \in Seq(MemoryIntentEvent)
           /\ \A k \in DOMAIN es :
                 /\ es[k].event_type \in {"MARKED_DECODE_CRITICAL", "ACCESSED"}
                 /\ es[k].object_id \in ListedBlocks(r, ids)
                 /\ es[k].intent = AccessedIntentOf(es[k].object_id, "DECODE", TRUE)
           /\ \A b \in ListedBlocks(r, ids) :
                 \E k \in DOMAIN es : es[k].object_id = b /\ es[k].event_type = "ACCESSED"
<1> DEFINE m == Len(ids)
           block(k) == <<r, ids[(k + 1) \div 2]>>
           type(k) == IF k % 2 = 1 THEN "MARKED_DECODE_CRITICAL" ELSE "ACCESSED"
           new(k) == AccessedIntentOf(block(k), "DECODE", TRUE)
<1>1. m \in Nat /\ DOMAIN ids = 1 .. m
  BY ListedAreBlocks
<1>2. ASSUME NEW k \in 1 .. 2 * m
      PROVE  block(k) \in ListedBlocks(r, ids) /\ block(k) \in Blocks
  <2>1. (k + 1) \div 2 \in DOMAIN ids
    BY <1>1, PairIndex
  <2> QED
    BY <2>1, ListedAreBlocks
<1>3. es = [k \in 1 .. 2 * m |-> Ev(type(k), block(k), new(k))]
  BY DEF DecodeEvents
<1>4. ASSUME NEW k \in 1 .. 2 * m PROVE new(k) \in Intents
  <2> DEFINE b == block(k)
  <2>1. b \in Blocks
    BY <1>2
  <2> HIDE DEF b
  <2>2. AccessedIntentOf(b, "DECODE", TRUE) \in Intents
    BY <2>1, CallbackIntents
  <2> QED
    BY <2>2 DEF b
<1>5. ASSUME NEW k \in 1 .. 2 * m PROVE type(k) \in EventType
  BY DEF EventType
<1>6. ASSUME NEW j \in 1 .. m PROVE block(2 * j) = <<r, ids[j]>> /\ type(2 * j) = "ACCESSED"
  <2>1. 2 * j % 2 = 0 /\ (2 * j + 1) \div 2 = j
    BY <1>1, PairIndex
  <2> QED
    BY <2>1
<1>t. \A k \in 1 .. 2 * m : type(k) \in {"MARKED_DECODE_CRITICAL", "ACCESSED"}
  OBVIOUS
<1>n. \A k \in 1 .. 2 * m : new(k) = AccessedIntentOf(block(k), "DECODE", TRUE)
  OBVIOUS
<1> HIDE DEF block, type, new
<1>7. \A k \in 1 .. 2 * m : /\ es[k] = Ev(type(k), block(k), new(k))
                            /\ es[k] \in MemoryIntentEvent
                            /\ es[k].event_type = type(k) /\ es[k].object_id = block(k)
                            /\ es[k].intent = new(k)
  BY <1>2, <1>3, <1>4, <1>5 DEF Ev, MemoryIntentEvent
<1>8. 2 * m \in Nat /\ DOMAIN es = 1 .. 2 * m
  BY <1>1, <1>3
<1>9. es \in Seq(MemoryIntentEvent)
  BY <1>3, <1>7, <1>8
<1>10. ASSUME NEW b \in ListedBlocks(r, ids)
       PROVE  \E k \in DOMAIN es : es[k].object_id = b /\ es[k].event_type = "ACCESSED"
  <2>1. PICK j \in 1 .. m : b = <<r, ids[j]>>
    BY <1>1, ListedAreBlocks
  <2>2. 2 * j \in DOMAIN es
    BY <1>1, <1>8, PairIndex
  <2> QED
    BY <1>6, <1>7, <1>8, <2>1, <2>2
<1>11. ASSUME NEW k \in DOMAIN es
       PROVE  /\ es[k].event_type \in {"MARKED_DECODE_CRITICAL", "ACCESSED"}
              /\ es[k].object_id \in ListedBlocks(r, ids)
              /\ es[k].intent = AccessedIntentOf(es[k].object_id, "DECODE", TRUE)
  <2>1. k \in 1 .. 2 * m
    BY <1>8
  <2>2. es[k].event_type = type(k) /\ es[k].object_id = block(k) /\ es[k].intent = new(k)
    BY <1>7, <2>1
  <2>3. new(k) = AccessedIntentOf(es[k].object_id, "DECODE", TRUE)
    BY <1>n, <2>1, <2>2
  <2> QED
    BY <1>2, <1>t, <2>1, <2>2, <2>3
<1> QED
  BY <1>9, <1>10, <1>11

\* A decode step, alone or with the plugin's repeated marks: es starts with its
\* events, and what follows are marks with intents of the table.
LEMMA DecodingStep ==
    ASSUME AdapterInvariant, Quiescent, NEW r \in Requests, NEW ids \in Seq(BlockIds),
           NEW es \in Seq(MemoryIntentEvent),
           Record([b \in ListedBlocks(r, ids) |-> AccessedIntentOf(b, "DECODE", TRUE)], es),
           \A k \in DOMAIN es :
              /\ es[k].event_type \in {"MARKED_DECODE_CRITICAL", "ACCESSED"}
              /\ es[k].object_id \in ListedBlocks(r, ids)
              /\ es[k].intent = AccessedIntentOf(es[k].object_id, "DECODE", TRUE),
           \A b \in ListedBlocks(r, ids) :
              \E k \in DOMAIN es : es[k].object_id = b /\ es[k].event_type = "ACCESSED"
    PROVE  AdapterInvariant'
<1> DEFINE intents == [b \in ListedBlocks(r, ids) |-> AccessedIntentOf(b, "DECODE", TRUE)]
<1>1. TraceOK /\ ListedBlocks(r, ids) \subseteq Blocks
  BY ListedAreBlocks DEF AdapterInvariant
<1>2. ASSUME NEW b \in ListedBlocks(r, ids)
      PROVE  LET g == AccessedIntentOf(b, "DECODE", TRUE)
             IN  /\ g \in Intents /\ g.phase = "DECODE" /\ g.pin_requested /\ g # NoIntent
                 /\ Known(b) => g.size_bytes = blocks[b].size_bytes
  <2> DEFINE critical == TRUE
  <2>1. critical \in BOOLEAN /\ critical /\ b \in Blocks
    BY <1>1
  <2> HIDE DEF critical
  <2>2. LET g == AccessedIntentOf(b, "DECODE", critical)
        IN  /\ g \in Intents /\ g.phase = "DECODE" /\ g.pin_requested
            /\ Known(b) => g.size_bytes = blocks[b].size_bytes
    BY <1>1, <2>1, CallbackIntents
  <2>3. AccessedIntentOf(b, "DECODE", critical) # NoIntent
    BY <2>2, IntentIsNotAbsent
  <2> QED
    BY <2>2, <2>3 DEF critical
<1>3. Record(intents, es) /\ DOMAIN intents = ListedBlocks(r, ids)
      /\ \A b \in ListedBlocks(r, ids) : intents[b] = AccessedIntentOf(b, "DECODE", TRUE)
  OBVIOUS
<1> HIDE DEF intents
<1>4. ASSUME NEW b \in DOMAIN intents
      PROVE  /\ intents[b] \in Intents /\ intents[b] # NoIntent
             /\ intents[b].phase = "DECODE" /\ intents[b].pin_requested
             /\ Known(b) => intents[b].size_bytes = blocks[b].size_bytes
  <2> DEFINE g == AccessedIntentOf(b, "DECODE", TRUE)
  <2>1. b \in ListedBlocks(r, ids) /\ intents[b] = g
    BY <1>3
  <2>2. /\ g \in Intents /\ g.phase = "DECODE" /\ g.pin_requested /\ g # NoIntent
        /\ Known(b) => g.size_bytes = blocks[b].size_bytes
    BY <1>2, <2>1
  <2> HIDE DEF g
  <2> QED
    BY <2>1, <2>2
<1>5. \A k \in DOMAIN es : /\ es[k].object_id \in DOMAIN intents
                           /\ intents[es[k].object_id] = es[k].intent
  BY <1>3
<1>6. ASSUME NEW k \in DOMAIN es PROVE Fits(es[k])
  <2>1. es[k].intent.phase = "DECODE"
    BY <1>4, <1>5
  <2> QED
    BY <2>1 DEF Fits
<1> QED
  BY <1>1, <1>3, <1>4, <1>5, <1>6, ListStep

\* on_decode_step records exactly that.
LEMMA DecodeStep ==
    ASSUME AdapterInvariant, NEW r \in Requests, NEW ids \in Seq(BlockIds), on_decode_step(r, ids)
    PROVE  AdapterInvariant'
<1> DEFINE es == DecodeEvents(r, ids)
<1>1. /\ Quiescent
      /\ Record([b \in ListedBlocks(r, ids) |-> AccessedIntentOf(b, "DECODE", TRUE)], es)
  BY DEF on_decode_step
<1> HIDE DEF es
<1>2. /\ es \in Seq(MemoryIntentEvent)
      /\ \A k \in DOMAIN es :
            /\ es[k].event_type \in {"MARKED_DECODE_CRITICAL", "ACCESSED"}
            /\ es[k].object_id \in ListedBlocks(r, ids)
            /\ es[k].intent = AccessedIntentOf(es[k].object_id, "DECODE", TRUE)
      /\ \A b \in ListedBlocks(r, ids) :
            \E k \in DOMAIN es : es[k].object_id = b /\ es[k].event_type = "ACCESSED"
  BY DecodeFacts DEF es, AdapterInvariant
<1> QED
  BY <1>1, <1>2, DecodingStep

\* The scheduler hook repeats the last events as marks.
LEMMA SchedulerStep ==
    ASSUME AdapterInvariant, NEW r \in Requests, NEW ids \in Seq(BlockIds),
           on_scheduler_step(r, ids)
    PROVE  AdapterInvariant'
<1> DEFINE es == DecodeEvents(r, ids)
           first == IF Len(es) > 4 THEN Len(es) - 3 ELSE 1
           tail == SubSeq(es, first, Len(es))
           marks == [k \in 1 .. Len(tail) |->
                       Ev("MARKED_DECODE_CRITICAL", tail[k].object_id, tail[k].intent)]
           all == es \o marks
           Decoding(e) ==
               /\ e.event_type \in {"MARKED_DECODE_CRITICAL", "ACCESSED"}
               /\ e.object_id \in ListedBlocks(r, ids)
               /\ e.intent = AccessedIntentOf(e.object_id, "DECODE", TRUE)
<1>1. /\ Quiescent
      /\ Record([b \in ListedBlocks(r, ids) |-> AccessedIntentOf(b, "DECODE", TRUE)], all)
  BY DEF on_scheduler_step
<1> HIDE DEF es, Decoding
<1>2. /\ es \in Seq(MemoryIntentEvent) /\ \A k \in DOMAIN es : Decoding(es[k])
      /\ \A b \in ListedBlocks(r, ids) :
            \E k \in DOMAIN es : es[k].object_id = b /\ es[k].event_type = "ACCESSED"
  <2>1. TraceOK
    BY DEF AdapterInvariant
  <2>2. /\ es \in Seq(MemoryIntentEvent)
        /\ \A k \in DOMAIN es :
              /\ es[k].event_type \in {"MARKED_DECODE_CRITICAL", "ACCESSED"}
              /\ es[k].object_id \in ListedBlocks(r, ids)
              /\ es[k].intent = AccessedIntentOf(es[k].object_id, "DECODE", TRUE)
        /\ \A b \in ListedBlocks(r, ids) :
              \E k \in DOMAIN es : es[k].object_id = b /\ es[k].event_type = "ACCESSED"
    BY <2>1, DecodeFacts DEF es
  <2> QED
    BY <2>2 DEF Decoding
<1>3. Len(es) \in Nat /\ first \in Nat /\ first >= 1
  BY <1>2
<1> HIDE DEF first
<1>4. /\ tail \in Seq(MemoryIntentEvent)
      /\ \A k \in 1 .. Len(tail) : \E j \in DOMAIN es : tail[k] = es[j]
  <2>1. /\ Len(tail) = IF first <= Len(es) THEN Len(es) - first + 1 ELSE 0
        /\ \A k \in 1 .. Len(tail) : tail[k] = es[first + k - 1]
    BY <1>2, <1>3
  <2>2. ASSUME NEW k \in 1 .. Len(tail) PROVE first + k - 1 \in DOMAIN es
    <3>1. DOMAIN es = 1 .. Len(es)
      BY <1>2
    <3>2. first <= Len(es) /\ k <= Len(es) - first + 1 /\ k \in Nat /\ k >= 1
      BY <1>3, <2>1
    <3> QED
      BY <1>3, <3>1, <3>2
  <2>4. tail \in Seq(MemoryIntentEvent)
    BY <1>2, <1>3
  <2> QED
    BY <2>1, <2>2, <2>4
<1> HIDE DEF tail
<1>5. ASSUME NEW k \in 1 .. Len(tail)
      PROVE  marks[k] \in MemoryIntentEvent /\ Decoding(marks[k])
  <2>1. PICK j \in DOMAIN es : tail[k] = es[j]
    BY <1>4
  <2>2. Decoding(tail[k]) /\ tail[k] \in MemoryIntentEvent
    BY <1>2, <2>1
  <2>3. /\ marks[k].event_type = "MARKED_DECODE_CRITICAL"
        /\ marks[k].object_id = tail[k].object_id /\ marks[k].intent = tail[k].intent
        /\ marks[k] = Ev("MARKED_DECODE_CRITICAL", tail[k].object_id, tail[k].intent)
    BY DEF Ev
  <2>4. marks[k] \in MemoryIntentEvent
    BY <2>2, <2>3 DEF Ev, MemoryIntentEvent, EventType
  <2> QED
    BY <2>2, <2>3, <2>4 DEF Decoding
<1>6. Len(tail) \in Nat /\ marks \in Seq(MemoryIntentEvent) /\ DOMAIN marks = 1 .. Len(tail)
  <2>1. Len(tail) \in Nat
    BY <1>4
  <2>2. marks \in [1 .. Len(tail) -> MemoryIntentEvent]
    BY <1>5
  <2> QED
    BY <2>1, <2>2
<1> HIDE DEF marks
<1>7. /\ all \in Seq(MemoryIntentEvent) /\ DOMAIN all = 1 .. Len(es) + Len(marks)
      /\ \A k \in DOMAIN es : k \in DOMAIN all /\ all[k] = es[k]
      /\ \A k \in DOMAIN all \ DOMAIN es :
            k - Len(es) \in DOMAIN marks /\ all[k] = marks[k - Len(es)]
  BY <1>2, <1>6
<1> HIDE DEF all
<1>8. \A k \in DOMAIN all : Decoding(all[k])
  BY <1>2, <1>5, <1>6, <1>7
<1>9. \A b \in ListedBlocks(r, ids) :
         \E k \in DOMAIN all : all[k].object_id = b /\ all[k].event_type = "ACCESSED"
  BY <1>2, <1>7
<1>10. \A k \in DOMAIN all :
          /\ all[k].event_type \in {"MARKED_DECODE_CRITICAL", "ACCESSED"}
          /\ all[k].object_id \in ListedBlocks(r, ids)
          /\ all[k].intent = AccessedIntentOf(all[k].object_id, "DECODE", TRUE)
  BY <1>8 DEF Decoding
<1> QED
  BY <1>1, <1>7, <1>9, <1>10, DecodingStep

\* The events of a prefill step are an access of each listed block.
LEMMA PrefillFacts ==
    ASSUME TraceOK, NEW r \in Requests, NEW ids \in Seq(BlockIds), NEW es,
           es = PrefillEvents(r, ids)
    PROVE  /\ es \in Seq(MemoryIntentEvent)
           /\ \A k \in DOMAIN es :
                 /\ es[k].event_type = "ACCESSED" /\ es[k].object_id \in ListedBlocks(r, ids)
                 /\ es[k].intent = PrefillIntent(es[k].object_id)
<1>1. ListedBlocks(r, ids) \subseteq Blocks
      /\ \A k \in DOMAIN ids : <<r, ids[k]>> \in ListedBlocks(r, ids)
  BY ListedAreBlocks
<1>2. DOMAIN ids = 1 .. Len(ids) /\ Len(ids) \in Nat
  OBVIOUS
<1>3. ASSUME NEW k \in 1 .. Len(ids)
      PROVE  /\ es[k] \in MemoryIntentEvent /\ es[k].event_type = "ACCESSED"
             /\ es[k].object_id = <<r, ids[k]>> /\ es[k].intent = PrefillIntent(<<r, ids[k]>>)
  <2> DEFINE b == <<r, ids[k]>>
  <2>1. b \in Blocks
    BY <1>1, <1>2
  <2>2. es[k] = Ev("ACCESSED", b, PrefillIntent(b))
    BY DEF PrefillEvents
  <2> HIDE DEF b
  <2>3. PrefillIntent(b) \in Intents
    BY <2>1, CallbackIntents
  <2>4. /\ es[k] \in MemoryIntentEvent /\ es[k].event_type = "ACCESSED"
        /\ es[k].object_id = b /\ es[k].intent = PrefillIntent(b)
    BY <2>1, <2>2, <2>3 DEF Ev, MemoryIntentEvent, EventType
  <2> QED
    BY <2>4 DEF b
<1>4. es = [k \in 1 .. Len(ids) |-> es[k]]
  BY DEF PrefillEvents
<1>5. es \in Seq(MemoryIntentEvent) /\ DOMAIN es = 1 .. Len(ids)
  <2>1. es \in [1 .. Len(ids) -> MemoryIntentEvent]
    BY <1>3, <1>4
  <2> QED
    BY <1>2, <2>1
<1> QED
  BY <1>1, <1>2, <1>3, <1>5

\* A prefill step, recorded by on_prefill_step or by emit_sequence_accesses.
LEMMA PrefillStep ==
    ASSUME AdapterInvariant, NEW r \in Requests, NEW ids \in Seq(BlockIds),
           on_prefill_step(r, ids) \/ emit_sequence_accesses(r, ids)
    PROVE  AdapterInvariant'
<1> DEFINE es == PrefillEvents(r, ids)
           intents == [b \in ListedBlocks(r, ids) |-> PrefillIntent(b)]
<1>1. Quiescent /\ Record(intents, es)
  BY DEF on_prefill_step, emit_sequence_accesses
<1>2. TraceOK /\ ListedBlocks(r, ids) \subseteq Blocks
  BY ListedAreBlocks DEF AdapterInvariant
<1>3. ASSUME NEW b \in ListedBlocks(r, ids)
      PROVE  /\ PrefillIntent(b) \in Intents /\ PrefillIntent(b).phase = "PREFILL"
             /\ ~ PrefillIntent(b).pin_requested /\ PrefillIntent(b) # NoIntent
             /\ Known(b) => PrefillIntent(b).size_bytes = blocks[b].size_bytes
  BY <1>2, CallbackIntents, IntentIsNotAbsent
<1>4. DOMAIN intents = ListedBlocks(r, ids)
      /\ \A b \in ListedBlocks(r, ids) : intents[b] = PrefillIntent(b)
  OBVIOUS
<1> HIDE DEF intents
<1>5. /\ es \in Seq(MemoryIntentEvent)
      /\ \A k \in DOMAIN es :
            /\ es[k].event_type = "ACCESSED" /\ es[k].object_id \in ListedBlocks(r, ids)
            /\ es[k].intent = PrefillIntent(es[k].object_id)
  BY <1>2, PrefillFacts
<1> HIDE DEF es
<1>8. \A b \in DOMAIN intents : /\ intents[b] \in Intents /\ intents[b] # NoIntent
                                /\ intents[b].phase = "PREFILL" /\ ~ intents[b].pin_requested
                                /\ Known(b) => intents[b].size_bytes = blocks[b].size_bytes
  BY <1>3, <1>4
<1>9. \A k \in DOMAIN es : /\ es[k].object_id \in DOMAIN intents
                           /\ es[k].intent = intents[es[k].object_id]
  BY <1>4, <1>5
<1>10. ASSUME NEW k \in DOMAIN es PROVE Fits(es[k])
  <2>1. es[k].event_type = "ACCESSED" /\ es[k].intent.phase = "PREFILL"
    BY <1>5, <1>8, <1>9
  <2> QED
    BY <2>1 DEF Fits
<1>11. DOMAIN intents \subseteq Blocks
  BY <1>2, <1>4
<1> QED
  BY <1>1, <1>5, <1>8, <1>9, <1>10, <1>11, ListStep

\* The events of a finished request: each listed block is marked cold, then freed.
LEMMA FinishFacts ==
    ASSUME TraceOK, NEW r \in Requests, NEW ids \in Seq(BlockIds), NEW es,
           es = FinishEvents(r, ids)
    PROVE  /\ es \in Seq(MemoryIntentEvent) /\ DOMAIN es = 1 .. 2 * Len(ids)
           /\ \A k \in DOMAIN es :
                 /\ es[k].event_type = IF k % 2 = 1 THEN "MARKED_COLD" ELSE "FREED"
                 /\ es[k].object_id = <<r, ids[(k + 1) \div 2]>>
                 /\ es[k].object_id \in ListedBlocks(r, ids)
                 /\ es[k].intent.phase = "DONE" /\ ~ es[k].intent.pin_requested
           /\ \A b \in ListedBlocks(r, ids) :
                 \E k \in DOMAIN es : es[k].object_id = b /\ es[k].event_type = "FREED"
<1> DEFINE m == Len(ids)
           block(k) == <<r, ids[(k + 1) \div 2]>>
           type(k) == IF k % 2 = 1 THEN "MARKED_COLD" ELSE "FREED"
           new(k) == IF k % 2 = 1 THEN ColdIntent(block(k), "DONE") ELSE FreedIntent(block(k))
<1>2. /\ ListedBlocks(r, ids) \subseteq Blocks
      /\ m \in Nat /\ DOMAIN ids = 1 .. m
      /\ \A k \in DOMAIN ids : <<r, ids[k]>> \in ListedBlocks(r, ids)
      /\ \A b \in ListedBlocks(r, ids) : \E k \in DOMAIN ids : b = <<r, ids[k]>>
  BY ListedAreBlocks
<1>4. ASSUME NEW k \in 1 .. 2 * m
      PROVE  block(k) \in ListedBlocks(r, ids) /\ block(k) \in Blocks
  <2>1. (k + 1) \div 2 \in DOMAIN ids
    BY <1>2, PairIndex
  <2> QED
    BY <1>2, <2>1
<1>5. ASSUME NEW k \in 1 .. 2 * m
      PROVE  /\ new(k) \in Intents /\ new(k).phase = "DONE" /\ ~ new(k).pin_requested
  <2> DEFINE b == block(k)
  <2>1. b \in Blocks
    BY <1>4
  <2> HIDE DEF b
  <2>2. /\ ColdIntent(b, "DONE") \in Intents /\ ColdIntent(b, "DONE").phase = "DONE"
        /\ ~ ColdIntent(b, "DONE").pin_requested
    BY <1>2, <2>1, CallbackIntents
  <2>3. FreedIntent(b) \in Intents /\ FreedIntent(b).phase = "DONE"
        /\ ~ FreedIntent(b).pin_requested
    BY <1>2, <2>1, CallbackIntents
  <2>4. new(k) = ColdIntent(b, "DONE") \/ new(k) = FreedIntent(b)
    BY DEF b
  <2> HIDE DEF new
  <2> QED
    BY <2>2, <2>3, <2>4
<1>6. es = [k \in 1 .. 2 * m |-> Ev(type(k), block(k), new(k))]
  <2>1. ASSUME NEW k \in 1 .. 2 * m
        PROVE  Ev(type(k), block(k), new(k))
                  = IF k % 2 = 1 THEN Ev("MARKED_COLD", block(k), ColdIntent(block(k), "DONE"))
                                 ELSE Ev("FREED", block(k), FreedIntent(block(k)))
    OBVIOUS
  <2> QED
    BY <2>1 DEF FinishEvents
<1>7. ASSUME NEW j \in 1 .. m PROVE block(2 * j) = <<r, ids[j]>> /\ type(2 * j) = "FREED"
  <2>1. 2 * j % 2 = 0 /\ (2 * j + 1) \div 2 = j
    BY <1>2, PairIndex
  <2> QED
    BY <2>1
<1>8. \A k \in 1 .. 2 * m : type(k) \in {"MARKED_COLD", "FREED"}
  OBVIOUS
<1> HIDE DEF block, type, new
<1>9. ASSUME NEW k \in 1 .. 2 * m
      PROVE  /\ es[k] \in MemoryIntentEvent
             /\ es[k].event_type = type(k) /\ es[k].object_id = block(k)
             /\ es[k].intent = new(k)
  <2>1. es[k] = Ev(type(k), block(k), new(k))
    BY <1>6
  <2>2. type(k) \in EventType
    BY <1>8 DEF EventType
  <2> QED
    BY <1>4, <1>5, <2>1, <2>2 DEF Ev, MemoryIntentEvent
<1>10. 2 * m \in Nat /\ es \in Seq(MemoryIntentEvent) /\ DOMAIN es = 1 .. 2 * m
  <2>1. es \in [1 .. 2 * m -> MemoryIntentEvent]
    BY <1>6, <1>9
  <2>2. 2 * m \in Nat
    BY <1>2
  <2> HIDE DEF m
  <2> QED
    BY <2>1, <2>2
<1>11. ASSUME NEW b \in ListedBlocks(r, ids)
       PROVE  \E k \in DOMAIN es : es[k].object_id = b /\ es[k].event_type = "FREED"
  <2>1. PICK j \in 1 .. m : b = <<r, ids[j]>>
    BY <1>2
  <2>2. 2 * j \in DOMAIN es
    BY <1>2, <1>10, PairIndex
  <2> QED
    BY <1>7, <1>9, <1>10, <2>1, <2>2
<1>12. ASSUME NEW k \in DOMAIN es
       PROVE  /\ es[k].event_type = IF k % 2 = 1 THEN "MARKED_COLD" ELSE "FREED"
              /\ es[k].object_id = <<r, ids[(k + 1) \div 2]>>
              /\ es[k].object_id \in ListedBlocks(r, ids)
              /\ es[k].intent.phase = "DONE" /\ ~ es[k].intent.pin_requested
  <2>1. es[k].event_type = type(k) /\ es[k].object_id = block(k) /\ es[k].intent = new(k)
    BY <1>9, <1>10
  <2>2. /\ block(k) \in ListedBlocks(r, ids)
        /\ new(k).phase = "DONE" /\ ~ new(k).pin_requested
    BY <1>4, <1>5, <1>10
  <2>3. type(k) = (IF k % 2 = 1 THEN "MARKED_COLD" ELSE "FREED")
        /\ block(k) = <<r, ids[(k + 1) \div 2]>>
    BY DEF type, block
  <2> QED
    BY <2>1, <2>2, <2>3
<1> QED
  BY <1>10, <1>11, <1>12 DEF m

\* The end of a request: its blocks leave the table, with FREED events for each.
LEMMA FinishedStep ==
    ASSUME AdapterInvariant, NEW r \in Requests, NEW ids \in Seq(BlockIds),
           on_request_finished(r, ids)
    PROVE  AdapterInvariant'
<1> DEFINE es == FinishEvents(r, ids)
           intents == [b \in ListedBlocks(r, ids) |-> NoIntent]
<1>1. Quiescent /\ Record(intents, es)
  BY DEF on_request_finished
<1>2. TraceOK /\ ListedBlocks(r, ids) \subseteq Blocks
  BY ListedAreBlocks DEF AdapterInvariant
<1>3. DOMAIN intents = ListedBlocks(r, ids)
      /\ \A b \in ListedBlocks(r, ids) : intents[b] = NoIntent
  OBVIOUS
<1> HIDE DEF intents
<1>4. /\ es \in Seq(MemoryIntentEvent)
      /\ \A k \in DOMAIN es :
            /\ es[k].event_type \in {"MARKED_COLD", "FREED"}
            /\ es[k].object_id \in ListedBlocks(r, ids)
            /\ es[k].intent.phase = "DONE" /\ ~ es[k].intent.pin_requested
      /\ \A b \in ListedBlocks(r, ids) :
            \E k \in DOMAIN es : es[k].object_id = b /\ es[k].event_type = "FREED"
  BY <1>2, FinishFacts
<1> HIDE DEF es
<1>5. \A k \in DOMAIN es : Fits(es[k])
  BY <1>4 DEF Fits
<1> QED
  BY <1>1, <1>2, <1>3, <1>4, <1>5, ListStep

\* A preemption: the known blocks of the list keep everything but their tier.
LEMMA SpillStep ==
    ASSUME AdapterInvariant, NEW r \in Requests, NEW ids \in Seq(BlockIds),
           emit_sequence_spill(r, ids)
    PROVE  AdapterInvariant'
<1> DEFINE known == {k \in DOMAIN ids : Known(<<r, ids[k]>>)}
           spilled == {<<r, ids[k]>> : k \in known}
           new(b) == [blocks[b] EXCEPT !.current_tier = "DRAM"]
           intents == [b \in spilled |-> new(b)]
           m == Cardinality(known)
           events(at) == [j \in DOMAIN at |-> Ev("SPILLED", <<r, ids[at[j]]>>,
                                                 new(<<r, ids[at[j]]>>))]
<1>1. Quiescent /\ \E at \in [1 .. m -> known] : Record(intents, events(at))
  BY DEF emit_sequence_spill
<1>2. PICK at \in [1 .. m -> known] : Record(intents, events(at))
  BY <1>1
<1>3. m \in Nat
  <2>1. IsFiniteSet(DOMAIN ids)
    <3>1. DOMAIN ids = 1 .. Len(ids) /\ Len(ids) \in Nat
      OBVIOUS
    <3> QED
      BY <3>1, FS_Interval
  <2>2. IsFiniteSet(known)
    BY <2>1, FS_Subset
  <2> QED
    BY <2>2, FS_CardinalityType
<1>4. \A k \in known : /\ <<r, ids[k]>> \in Blocks /\ Known(<<r, ids[k]>>)
                       /\ <<r, ids[k]>> \in spilled
  BY ListedAreBlocks
<1>5. ASSUME NEW b \in Blocks, Known(b)
      PROVE  /\ new(b) \in Intents /\ new(b) # NoIntent
             /\ new(b).pin_requested = blocks[b].pin_requested
             /\ new(b).phase = blocks[b].phase
             /\ new(b).size_bytes = blocks[b].size_bytes
             /\ new(b).current_tier = "DRAM"
  <2>1. blocks[b] \in Intents
    BY <1>5 DEF AdapterInvariant, TraceOK, Known
  <2> DEFINE g == new(b)
  <2>2. g = [blocks[b] EXCEPT !.current_tier = "DRAM"]
    OBVIOUS
  <2> HIDE DEF g, new
  <2>3. /\ g \in Intents /\ g.pin_requested = blocks[b].pin_requested
        /\ g.phase = blocks[b].phase /\ g.size_bytes = blocks[b].size_bytes
        /\ g.current_tier = "DRAM"
    BY <2>1, <2>2, InDram
  <2>4. g # NoIntent
    BY <2>3, IntentIsNotAbsent
  <2> QED
    BY <2>3, <2>4 DEF g
<1>6. \A b \in spilled : b \in Blocks /\ Known(b)
  BY <1>4
<1>7. DOMAIN intents = spilled /\ \A b \in spilled : intents[b] = new(b)
  OBVIOUS
<1> DEFINE es == events(at)
<1>8. es = [j \in 1 .. m |-> Ev("SPILLED", <<r, ids[at[j]]>>, new(<<r, ids[at[j]]>>))]
  OBVIOUS
<1>9. ASSUME NEW j \in 1 .. m
      PROVE  /\ <<r, ids[at[j]]>> \in spilled
             /\ es[j] = Ev("SPILLED", <<r, ids[at[j]]>>, new(<<r, ids[at[j]]>>))
  <2>1. at[j] \in known
    OBVIOUS
  <2> QED
    BY <1>4, <1>8, <2>1
<1>10. Record(intents, es)
  BY <1>2
<1> HIDE DEF es, intents, spilled, known, new, m, events
<1>11. ASSUME NEW j \in 1 .. m
       PROVE  /\ es[j] \in MemoryIntentEvent /\ es[j].event_type = "SPILLED"
              /\ es[j].object_id \in spilled /\ es[j].intent = new(es[j].object_id)
  <2> DEFINE b == <<r, ids[at[j]]>>
  <2>1. b \in spilled /\ es[j] = Ev("SPILLED", b, new(b))
    BY <1>9
  <2> HIDE DEF b
  <2>2. b \in Blocks /\ new(b) \in Intents
    BY <1>5, <1>6, <2>1
  <2> QED
    BY <2>1, <2>2 DEF Ev, MemoryIntentEvent, EventType
<1>12. es \in Seq(MemoryIntentEvent) /\ DOMAIN es = 1 .. m
  <2>1. es \in [1 .. m -> MemoryIntentEvent]
    BY <1>8, <1>11
  <2> QED
    BY <1>3, <2>1
<1>13. ASSUME NEW b \in DOMAIN intents
       PROVE  /\ b \in Blocks /\ Known(b) /\ intents[b] \in Intents /\ intents[b] # NoIntent
              /\ intents[b].pin_requested = blocks[b].pin_requested
              /\ intents[b].phase = blocks[b].phase
              /\ intents[b].size_bytes = blocks[b].size_bytes
              /\ intents[b].current_tier = "DRAM"
  <2>1. b \in Blocks /\ Known(b) /\ intents[b] = new(b)
    BY <1>6, <1>7
  <2> QED
    BY <1>5, <2>1
<1>14. ASSUME NEW k \in DOMAIN es
       PROVE  /\ Fits(es[k]) /\ es[k].object_id \in DOMAIN intents
              /\ intents[es[k].object_id] = es[k].intent
  <2>1. /\ es[k].event_type = "SPILLED" /\ es[k].object_id \in DOMAIN intents
        /\ intents[es[k].object_id] = es[k].intent
    BY <1>7, <1>11, <1>12
  <2>2. es[k].intent.current_tier = "DRAM"
    BY <1>13, <2>1
  <2> QED
    BY <2>1, <2>2 DEF Fits
<1>15. DOMAIN intents \subseteq Blocks
  BY <1>13
<1>16. \A b \in DOMAIN intents : intents[b] # NoIntent =>
          /\ Known(b) => intents[b].size_bytes = blocks[b].size_bytes
          /\ intents[b].pin_requested =>
                \/ Known(b) /\ blocks[b].pin_requested /\ intents[b].current_tier # "HBM"
                \/ \E k \in DOMAIN es : es[k].object_id = b /\ es[k].event_type = "ACCESSED"
          /\ intents[b].phase = "DONE" => Known(b) /\ blocks[b].phase = "DONE"
  BY <1>13
<1>17. \A b \in DOMAIN intents : intents[b] \in Intents \cup {NoIntent}
                                 /\ intents[b] # NoIntent
  BY <1>13
<1> QED
  BY <1>1, <1>10, <1>12, <1>14, <1>15, <1>16, <1>17, ListStep

\* Scheduling a request records nothing.
LEMMA ScheduledStep ==
    ASSUME AdapterInvariant, NEW r, on_request_scheduled(r)
    PROVE  AdapterInvariant'
<1>1. Quiescent /\ UNCHANGED vars /\ trace' = trace /\ blocks' = blocks
  BY DEF on_request_scheduled
<1>2. TraceOK'
  BY <1>1 DEF AdapterInvariant, TraceOK, Events, Fits, MatchesTable
<1>3. Agreement'
  BY <1>1, UntouchedIsSettled, SettledKeepsAgreement DEF AdapterInvariant
<1> QED
  BY <1>2, <1>3 DEF AdapterInvariant

-----------------------------------------------------------------------------
(***************************************************************************)
(* The adapter drives the simulator                                        *)
(***************************************************************************)
\* A callback never touches the simulator.
LEMMA CallbackLeavesSimulator ==
    ASSUME BlockCallback \/ RequestCallback \/ PluginCallback
    PROVE  UNCHANGED vars
BY ZenonT(30) DEF BlockCallback, RequestCallback, PluginCallback, on_block_allocated,
       on_block_accessed, on_block_committed, on_block_marked_cold, on_block_freed,
       on_request_scheduled, on_decode_step, on_prefill_step, on_request_finished,
       emit_sequence_accesses, on_scheduler_step, emit_sequence_spill, RecordOne, Record

\* Every step is a step of the simulator, or none: the adapter's events are events
\* that the simulator knows, with intents that it accepts.
LEMMA AdapterStepIsNext ==
    ASSUME TraceOK, [AdapterNext]_allVars
    PROVE  [Next]_vars
<1>1. CASE BlockCallback \/ RequestCallback \/ PluginCallback
  BY <1>1, CallbackLeavesSimulator
<1>2. CASE SimulateTrace
  <2>1. CASE Replay
    <3> DEFINE b == Head(trace).object_id
               i == Head(trace).intent
    <3>1. Handle(Head(trace)) /\ b \in Blocks /\ i \in Intents
      BY <2>1, HeadIsEvent DEF Replay, MemoryIntentEvent
    <3>2. \/ Allocated(b, i) \/ Accessed(b, i) \/ MarkedDecodeCritical(b, i)
          \/ MarkedCold(b, i) \/ Committed(b) \/ Spilled(b) \/ Freed(b)
          \/ \E urgent \in BOOLEAN : Prefetched(b, i, urgent)
      BY <3>1 DEF Handle
    <3> HIDE DEF b, i
    <3>3. Event
      BY <3>1, <3>2 DEF Event
    <3> QED
      BY <3>3 DEF Next
  <2>2. CASE (Loop \/ Finish) /\ UNCHANGED trace
    BY <2>2 DEF Next
  <2> QED
    BY <1>2, <2>1, <2>2 DEF SimulateTrace, Simulate
<1>3. CASE UNCHANGED allVars
  BY <1>3 DEF allVars
<1> QED
  BY <1>1, <1>2, <1>3 DEF AdapterNext

\* Every step of the engine and of the simulator keeps the invariant.
LEMMA AdapterStep ==
    ASSUME TypeOK, NoDeadResident, AdapterInvariant, [AdapterNext]_allVars
    PROVE  AdapterInvariant'
<1>1. CASE BlockCallback
  BY <1>1, BlockCallbackStep
<1>l. \A ids \in BlockLists : ids \in Seq(BlockIds)
  BY ListsAssumption
<1>2. CASE RequestCallback
  BY <1>l, <1>2, ScheduledStep, DecodeStep, PrefillStep, FinishedStep DEF RequestCallback
<1>3. CASE PluginCallback
  BY <1>l, <1>3, PrefillStep, SchedulerStep, SpillStep, FinishedStep DEF PluginCallback
<1>4. CASE SimulateTrace
  BY <1>4, SimulateStep
<1>5. CASE UNCHANGED allVars
  <2>1. /\ live_blocks' = live_blocks /\ intent' = intent /\ hbm_blocks' = hbm_blocks
        /\ pc' = pc /\ trace' = trace /\ blocks' = blocks
    BY <1>5 DEF allVars, vars, adapter
  <2>2. TraceOK'
    BY <2>1 DEF AdapterInvariant, TraceOK, Events, Fits, MatchesTable
  <2>3. Agreement'
    BY <2>1 DEF AdapterInvariant, Agreement, SizeAgrees, PinAgrees, FreedAgrees, Pending,
                Events, Known
  <2> QED
    BY <2>2, <2>3 DEF AdapterInvariant
<1> QED
  BY <1>1, <1>2, <1>3, <1>4, <1>5 DEF AdapterNext

\* The adapter and the simulator together: what is proved of the simulator, and the
\* agreement of the two.
LEMMA AdapterHolds == AdapterSpec => [](Counted /\ AdapterInvariant)
<1>1. AdapterInit => Counted /\ AdapterInvariant
  <2> SUFFICES ASSUME AdapterInit PROVE Counted /\ AdapterInvariant
    OBVIOUS
  <2>1. Counted
    BY CountedInit DEF AdapterInit
  <2>2. live_blocks = {} /\ trace = <<>> /\ blocks = [b \in Blocks |-> NoIntent]
    BY DEF AdapterInit, Init, TablesEmpty
  <2>3. Events = {} /\ \A b \in Blocks : ~ Known(b)
    BY <2>2 DEF Events, Known
  <2>4. TraceOK
    BY <2>2, <2>3 DEF TraceOK
  <2>5. Agreement
    BY <2>2, <2>3 DEF Agreement, SizeAgrees, PinAgrees, FreedAgrees
  <2> QED
    BY <2>1, <2>4, <2>5 DEF AdapterInvariant
<1>2. Counted /\ AdapterInvariant /\ [AdapterNext]_allVars => Counted' /\ AdapterInvariant'
  <2> SUFFICES ASSUME Counted, AdapterInvariant, [AdapterNext]_allVars
               PROVE  Counted' /\ AdapterInvariant'
    OBVIOUS
  <2>1. TypeOK /\ NoDeadResident /\ TraceOK
    BY DEF Counted, Residency, AdapterInvariant
  <2> QED
    BY <2>1, AdapterStepIsNext, CountedStep, AdapterStep
<1> QED
  BY <1>1, <1>2, PTL DEF AdapterSpec

\* Once the simulator has taken the trace, it knows every block that the adapter has
\* pinned as live and pinned, and every live block with the size that the adapter
\* recorded, whatever callbacks were repeated, left out or late.
THEOREM IntentsAlwaysAgree == AdapterSpec => []IntentsAgree
<1>1. Counted /\ AdapterInvariant => IntentsAgree
  <2> SUFFICES ASSUME AdapterInvariant, Counted, Quiescent PROVE
          /\ \A b \in Blocks : Known(b) /\ blocks[b].pin_requested =>
                b \in live_blocks /\ intent[b].pin_requested
          /\ \A b \in live_blocks : intent[b].size_bytes = blocks[b].size_bytes
    BY DEF IntentsAgree
  <2>1. pc # "raised" /\ \A b : Pending(b) = {}
    BY DEF Quiescent, Pending, Events
  <2>2. live_blocks \subseteq Blocks
    BY DEF Counted, Residency, TypeOK
  <2> QED
    BY <2>1, <2>2 DEF AdapterInvariant, Agreement, SizeAgrees, PinAgrees
<1> QED
  BY <1>1, AdapterHolds, PTL

\* Under the intent policies a block that the adapter has pinned, and has not
\* preempted, is in HBM when the simulator has taken the trace.
THEOREM PinnedStaysResident == AdapterSpec => []PinnedIsResident
<1>1. AdapterInvariant => PinnedIsResident
  <2> SUFFICES ASSUME AdapterInvariant, Quiescent, Policy \in IntentPolicies,
                      NEW b \in Blocks, Known(b), blocks[b].pin_requested,
                      blocks[b].current_tier = "HBM"
               PROVE  b \in hbm_blocks
    BY DEF PinnedIsResident
  <2>1. pc # "raised" /\ Pending(b) = {}
    BY DEF Quiescent, Pending, Events
  <2> QED
    BY <2>1 DEF AdapterInvariant, Agreement, PinAgrees
<1> QED
  BY <1>1, AdapterHolds, PTL

\* A block whose last callback freed it stays free in the simulator.
THEOREM FreedIsGone == AdapterSpec => []FreedStaysFreed
<1>1. AdapterInvariant => FreedStaysFreed
  <2> SUFFICES ASSUME AdapterInvariant, Quiescent, NEW b \in Blocks, Known(b),
                      blocks[b].phase = "DONE"
               PROVE  b \notin live_blocks
    BY DEF FreedStaysFreed
  <2>1. pc # "raised" /\ Pending(b) = {}
    BY DEF Quiescent, Pending, Events
  <2> QED
    BY <2>1 DEF AdapterInvariant, Agreement, FreedAgrees
<1> QED
  BY <1>1, AdapterHolds, PTL

\* The adapter with the simulator implements the simulator: whatever the engine calls,
\* the placement goes through steps of run() on a trace of accepted intents.
THEOREM AdapterImplementsSimulator == AdapterSpec => Spec
<1>1. AdapterInit => Init
  BY DEF AdapterInit
<1>2. Counted /\ AdapterInvariant /\ [AdapterNext]_allVars => [Next]_vars
  BY AdapterStepIsNext DEF AdapterInvariant
<1> QED
  BY <1>1, <1>2, AdapterHolds, PTL DEF AdapterSpec, Spec

\* No order of callbacks makes run() raise: every tier that the simulator or a later
\* event assigns is one that the adapter allows.
THEOREM AdapterTracesNeverRaise == AdapterSpec => [](TierAllowed /\ NeverRaises)
<1>1. \A i \in Intents : WellTiered(i)
  <2> SUFFICES ASSUME NEW i \in Intents PROVE WellTiered(i)
    OBVIOUS
  <2>1. i.allowed_tiers = default_allowed_tiers
    BY AdapterIntent
  <2> QED
    BY <2>1, TiersAssumption DEF WellTiered
<1>2. Spec => [](TierAllowed /\ NeverRaises)
  BY <1>1, WellTieredTracesNeverRaise
<1> QED
  BY <1>2, AdapterImplementsSimulator, PTL

-----------------------------------------------------------------------------
(***************************************************************************)
(* DRAM and its capacity                                                   *)
(***************************************************************************)
\* No block comes into DRAM, and those that stay keep their size.
DramShrinks ==
    /\ dram_blocks' \subseteq dram_blocks
    /\ \A c \in dram_blocks' : intent'[c].size_bytes = intent[c].size_bytes

\* The blocks in DRAM have sizes, and _used_bytes counts all of them.
LEMMA DramIsCounted ==
    ASSUME Counted
    PROVE  /\ dram_blocks \cap live_blocks = dram_blocks /\ IsFiniteSet(dram_blocks)
           /\ \A b \in live_blocks : intent[b].size_bytes \in Nat
           /\ dram_used = used_bytes(dram_blocks, intent) /\ dram_used \in Nat
<1>1. dram_blocks \subseteq live_blocks /\ IsFiniteSet(live_blocks)
  BY DEF Counted, Residency, NoDeadResident
<1>2. \A b \in live_blocks : intent[b].size_bytes \in Nat
  BY DEF Counted, Residency, TypeOK, MemoryIntent
<1>3. dram_blocks \cap live_blocks = dram_blocks /\ IsFiniteSet(dram_blocks)
  BY <1>1, FS_Subset
<1>4. dram_used = used_bytes(dram_blocks, intent)
  BY <1>3 DEF dram_used
<1>5. used_bytes(dram_blocks, intent) \in Nat
  BY <1>1, <1>2, <1>3, UsedIsNat
<1> QED
  BY <1>2, <1>3, <1>4, <1>5

\* In the next state as well.
LEMMA DramIsCountedNext ==
    ASSUME Counted'
    PROVE  dram_used' = used_bytes(dram_blocks', intent')
<1>1. dram_blocks' \cap live_blocks' = dram_blocks'
  BY DEF Counted, Residency, NoDeadResident
<1> QED
  BY <1>1 DEF dram_used

\* When blocks only leave DRAM, its usage does not grow.
LEMMA DramUsedShrinks ==
    ASSUME Counted, Counted', DramShrinks
    PROVE  dram_used' <= dram_used
<1>1. /\ dram_used = used_bytes(dram_blocks, intent) /\ IsFiniteSet(dram_blocks)
      /\ \A b \in dram_blocks : intent[b].size_bytes \in Nat
  <2>1. dram_blocks \subseteq live_blocks
    BY DEF Counted, Residency, NoDeadResident
  <2> QED
    BY <2>1, DramIsCounted
<1>2. dram_used' = used_bytes(dram_blocks', intent')
  BY DramIsCountedNext
<1> QED
  BY <1>1, <1>2, UsedMonotone DEF DramShrinks

\* A victim of the capacity loop goes to DRAM only if it fits.
LEMMA VictimFits ==
    ASSUME Counted, Counted', EvictOne
    PROVE  dram_used' <= dram_used \/ dram_used' <= DramCapacity
<1>1. PICK v \in choose_victim(Candidates) : Displace(v)
  BY DEF EvictOne
<1>2. PICK target \in TargetTiers(v) :
         /\ dram_blocks' = IF SpillFits(v, target) THEN dram_blocks \cup {v}
                                                   ELSE dram_blocks \ {v}
         /\ intent' = [intent EXCEPT ![v].current_tier = target]
  BY <1>1 DEF Displace
<1>T. /\ v \in live_blocks /\ dram_blocks \subseteq live_blocks
      /\ live_blocks \subseteq Blocks /\ IsFiniteSet(dram_blocks)
      /\ intent \in [Blocks -> MemoryIntent \cup {NoIntent}]
      /\ \A c \in live_blocks : intent[c] \in MemoryIntent
      /\ \A c \in live_blocks : intent[c].size_bytes \in Nat
  BY <1>1, VictimIsResident, DramIsCounted DEF Counted, Residency, TypeOK, NoDeadResident
<1>3. ASSUME NEW c \in live_blocks PROVE intent'[c].size_bytes = intent[c].size_bytes
  BY <1>2, <1>T DEF MemoryIntent
<1>4. CASE SpillFits(v, target) /\ v \notin dram_blocks
  <2>1. dram_blocks' = dram_blocks \cup {v} /\ dram_used + intent[v].size_bytes <= DramCapacity
    BY <1>2, <1>4 DEF SpillFits
  <2>2. used_bytes(dram_blocks \cup {v}, intent) = intent[v].size_bytes + dram_used
    BY <1>4, <1>T, UsedAdd, DramIsCounted
  <2>3. IsFiniteSet(dram_blocks \cup {v})
    BY <1>T, FS_AddElement
  <2>4. dram_used' = used_bytes(dram_blocks \cup {v}, intent')
    BY <2>1, DramIsCountedNext
  <2>5. used_bytes(dram_blocks \cup {v}, intent') <= used_bytes(dram_blocks \cup {v}, intent)
    BY <1>3, <1>T, <2>3, UsedMonotone
  <2>6. /\ dram_used \in Nat /\ intent[v].size_bytes \in Nat /\ DramCapacity \in Nat
        /\ dram_used' \in Nat
    <3>1. \A c \in dram_blocks \cup {v} : intent'[c].size_bytes \in Nat
      BY <1>3, <1>T
    <3>2. used_bytes(dram_blocks \cup {v}, intent') \in Nat
      BY <2>3, <3>1, UsedIsNat
    <3> QED
      BY <1>T, <2>4, <3>2, DramIsCounted, CapacityAssumption
  <2> DEFINE size == intent[v].size_bytes
             before == used_bytes(dram_blocks \cup {v}, intent)
             after == used_bytes(dram_blocks \cup {v}, intent')
  <2>7. before = size + dram_used /\ dram_used' = after /\ after <= before
        /\ dram_used + size <= DramCapacity /\ size \in Nat
    BY <2>1, <2>2, <2>4, <2>5, <2>6
  <2> HIDE DEF size, before, after
  <2> QED
    BY <2>6, <2>7
<1>5. CASE ~ SpillFits(v, target) \/ v \in dram_blocks
  <2>1. dram_blocks' \subseteq dram_blocks
    BY <1>2, <1>5
  <2>2. DramShrinks
    BY <1>3, <1>T, <2>1 DEF DramShrinks
  <2> QED
    BY <2>2, DramUsedShrinks
<1> QED
  BY <1>4, <1>5

\* No other event of the adapter brings a block into DRAM or changes one there.
LEMMA EventShrinksDram ==
    ASSUME Residency, TraceOK, Replay, Head(trace).event_type # "SPILLED",
           Head(trace).event_type = "ALLOCATED" => Head(trace).object_id \notin dram_blocks
    PROVE  DramShrinks
<1> DEFINE e == Head(trace)
           b == Head(trace).object_id
           i == Head(trace).intent
<1>1. /\ e \in MemoryIntentEvent /\ Handle(e) /\ Fits(e)
      /\ b \in Blocks /\ i \in Intents
  BY HeadIsEvent DEF Replay, MemoryIntentEvent
<1>T. /\ TypeOK /\ intent \in [Blocks -> MemoryIntent \cup {NoIntent}]
      /\ live_blocks \subseteq Blocks /\ dram_blocks \subseteq live_blocks
      /\ \A c \in live_blocks : intent[c] \in MemoryIntent
  BY DEF Residency, TypeOK, NoDeadResident
<1>2. \A c \in Blocks \ {b} : /\ intent'[c] = intent[c]
                              /\ c \in dram_blocks' <=> c \in dram_blocks
  BY <1>1, <1>T, OthersUnchanged
<1>3. dram_blocks' \subseteq dram_blocks
      /\ (b \in dram_blocks' => intent'[b].size_bytes = intent[b].size_bytes)
  <2>1. CASE e.event_type = "ALLOCATED"
    <3>1. Allocated(b, i) /\ i.current_tier = "HBM"
      BY <1>1, <2>1 DEF Handle, Fits
    <3>2. dram_blocks' = dram_blocks
      BY <3>1 DEF Allocated
    <3> QED
      BY <2>1, <3>2
  <2>2. CASE e.event_type = "ACCESSED"
    <3>1. Accessed(b, i)
      BY <1>1, <2>2 DEF Handle
    <3>2. dram_blocks' \subseteq dram_blocks
      BY <3>1 DEF Accessed, Raise, placement, move_to_hbm
    <3>3. ASSUME b \in live_blocks
          PROVE  intent'[b].size_bytes = intent[b].size_bytes
      <4>1. CASE pc' = "raised"
        BY <3>1, <4>1 DEF Accessed, Raise, placement, move_to_hbm
      <4>2. CASE pc' # "raised"
        BY <1>1, <1>T, <2>2, <3>3, <4>2, HandlerTakes DEF Taken
      <4> QED
        BY <4>1, <4>2
    <3> QED
      BY <1>T, <3>2, <3>3
  <2>3. CASE e.event_type = "MARKED_DECODE_CRITICAL"
    <3>1. MarkedDecodeCritical(b, i)
      BY <1>1, <2>3 DEF Handle
    <3>2. dram_blocks' = dram_blocks
      BY <3>1 DEF MarkedDecodeCritical, Raise, placement
    <3>3. ASSUME b \in live_blocks
          PROVE  intent'[b].size_bytes = intent[b].size_bytes
      <4>1. CASE pc' = "raised"
        BY <3>1, <4>1 DEF MarkedDecodeCritical, Raise, placement
      <4>2. CASE pc' # "raised"
        BY <1>1, <1>T, <2>3, <3>3, <4>2, HandlerTakes DEF Taken
      <4> QED
        BY <4>1, <4>2
    <3> QED
      BY <1>T, <3>2, <3>3
  <2>4. CASE e.event_type = "MARKED_COLD"
    <3>1. MarkedCold(b, i)
      BY <1>1, <2>4 DEF Handle
    <3>2. dram_blocks' = dram_blocks
      BY <3>1 DEF MarkedCold, Raise, Ignore, placement
    <3>3. ASSUME b \in live_blocks
          PROVE  intent'[b].size_bytes = intent[b].size_bytes
      BY <1>1, <1>T, <3>1, <3>3 DEF MarkedCold, Raise, Ignore, placement, MemoryIntent
    <3> QED
      BY <1>T, <3>2, <3>3
  <2>5. CASE e.event_type = "COMMITTED"
    <3>1. UNCHANGED placement
      BY <1>1, <2>5 DEF Handle, Committed, Raise, Ignore
    <3> QED
      BY <3>1 DEF placement
  <2>6. CASE e.event_type = "FREED"
    BY <1>1, <2>6 DEF Handle, Freed
  <2> QED
    BY <1>1, <2>1, <2>2, <2>3, <2>4, <2>5, <2>6 DEF Handle, Fits
<1> QED
  BY <1>2, <1>3, <1>T DEF DramShrinks

\* DRAM goes over its capacity, and further up, only by the preemption of a sequence
\* or by a new allocation of a block that still sits there.
THEOREM DramOverflowsByPreemption == AdapterSpec => DramOverflowIsPreemption
<1>1. ASSUME Counted, AdapterInvariant, [AdapterNext]_allVars
      PROVE  [dram_used' > DramCapacity /\ dram_used' > dram_used =>
                /\ trace # <<>>
                /\ \/ Head(trace).event_type = "SPILLED"
                   \/ /\ Head(trace).event_type = "ALLOCATED"
                      /\ Head(trace).object_id \in dram_blocks]_allVars
  <2> SUFFICES ASSUME AdapterNext, dram_used' > DramCapacity, dram_used' > dram_used
               PROVE  /\ trace # <<>>
                      /\ \/ Head(trace).event_type = "SPILLED"
                         \/ /\ Head(trace).event_type = "ALLOCATED"
                            /\ Head(trace).object_id \in dram_blocks
    BY <1>1
  <2>1. Counted' /\ Residency /\ TraceOK
    BY <1>1, AdapterStepIsNext, CountedStep DEF AdapterInvariant, Counted
  <2>2. /\ dram_used \in Nat /\ DramCapacity \in Nat
    BY <1>1, DramIsCounted, CapacityAssumption
  <2>3. ~ (dram_used' <= dram_used) /\ ~ (dram_used' <= DramCapacity)
    <3>1. dram_used' \in Nat
      <4>1. dram_blocks' \subseteq live_blocks' /\ IsFiniteSet(live_blocks')
        BY <2>1 DEF Counted, Residency, NoDeadResident
      <4>2. \A b \in dram_blocks' : intent'[b].size_bytes \in Nat
        BY <2>1, <4>1 DEF Counted, Residency, TypeOK, MemoryIntent
      <4>3. used_bytes(dram_blocks', intent') \in Nat
        BY <4>1, <4>2, FS_Subset, UsedIsNat
      <4> QED
        BY <2>1, <4>3, DramIsCountedNext
    <3> QED
      BY <2>2, <3>1
  <2>4. ~ UNCHANGED placement
    <3>1. UNCHANGED placement => DramShrinks
      BY DEF placement, DramShrinks
    <3> QED
      BY <1>1, <2>1, <2>3, <3>1, DramUsedShrinks
  <2>5. SimulateTrace
    BY <2>4, CallbackLeavesSimulator DEF AdapterNext, vars, placement
  <2>6. Replay \/ EvictOne
    BY <2>4, <2>5 DEF SimulateTrace, Simulate, Loop, CapacityExhausted, EnsureDone, Finish
  <2>7. Replay
    BY <1>1, <2>1, <2>3, <2>6, VictimFits
  <2>8. ~ DramShrinks
    BY <1>1, <2>1, <2>3, DramUsedShrinks
  <2> QED
    BY <2>1, <2>7, <2>8, EventShrinksDram DEF Replay
<1> QED
  BY <1>1, AdapterHolds, PTL DEF AdapterSpec, DramOverflowIsPreemption

-----------------------------------------------------------------------------
(***************************************************************************)
(* What a list of events leaves live                                       *)
(***************************************************************************)
\* Events give their block something or take it away: its life in the simulator,
\* or a pin.  K says which do.
Life == [gives |-> {"ALLOCATED", "ACCESSED", "MARKED_DECODE_CRITICAL"}, ends |-> {"FREED"}]

Gives(K, e, b) == e.object_id = b /\ e.event_type \in K.gives
Frees(K, e, b) == e.object_id = b /\ e.event_type \in K.ends

\* Is b live when the events of s before the k-th have been taken, if L was live
\* before s?
LiveAt(K, L, s, b, k) ==
    \/ b \in L /\ \A j \in 1 .. k - 1 : ~ Frees(K, s[j], b)
    \/ \E i \in 1 .. k - 1 : Gives(K, s[i], b) /\ \A j \in i + 1 .. k - 1 : ~ Frees(K, s[j], b)

\* The blocks that events are about.
About(s) == {s[k].object_id : k \in DOMAIN s}

\* What is live after s.
Left(K, L, s) == {b \in L \cup About(s) : LiveAt(K, L, s, b, Len(s) + 1)}

\* Only what is not live is allocated, and every other event is about a live block.
Sound(K, L, s) ==
    \A k \in DOMAIN s :
       s[k].event_type = "ALLOCATED" <=> ~ LiveAt(K, L, s, s[k].object_id, k)

\* No bound is needed to say what is left.
LEMMA LeftIsLive ==
    ASSUME NEW K, NEW S, NEW s \in Seq(S), NEW L, NEW b
    PROVE  b \in Left(K, L, s) <=> LiveAt(K, L, s, b, Len(s) + 1)
<1> DEFINE len == Len(s)
<1>1. len \in Nat /\ DOMAIN s = 1 .. len /\ (len + 1) - 1 = len
  OBVIOUS
<1> HIDE DEF len
<1>2. LiveAt(K, L, s, b, len + 1) => b \in L \cup About(s)
  BY <1>1 DEF LiveAt, Gives, About
<1> QED BY <1>2 DEF Left, len

\* Nothing happens in an empty list.
LEMMA LeftOfNone ==
    ASSUME NEW K, NEW L
    PROVE  Left(K, L, <<>>) = L /\ Sound(K, L, <<>>)
<1>1. <<>> \in Seq({}) /\ Len(<<>>) = 0 /\ DOMAIN <<>> = {}
  OBVIOUS
<1>2. ASSUME NEW b PROVE b \in Left(K, L, <<>>) <=> b \in L
  <2>1. b \in Left(K, L, <<>>) <=> LiveAt(K, L, <<>>, b, 1)
    <3> DEFINE e == <<>>
    <3>1. e \in Seq({}) /\ Len(e) + 1 = 1
      BY <1>1
    <3> HIDE DEF e
    <3>2. b \in Left(K, L, e) <=> LiveAt(K, L, e, b, 1)
      BY <3>1, LeftIsLive
    <3> QED BY <3>2 DEF e
  <2>2. 1 .. 1 - 1 = {}
    OBVIOUS
  <2> QED BY <2>1, <2>2 DEF LiveAt
<1> QED BY <1>1, <1>2 DEF Sound

\* Within the first of two lists the second does not matter.
LEMMA LiveInFirst ==
    ASSUME NEW K, NEW S, NEW s \in Seq(S), NEW t \in Seq(S), NEW L, NEW b,
           NEW k \in 1 .. Len(s) + 1
    PROVE  LiveAt(K, L, s \o t, b, k) <=> LiveAt(K, L, s, b, k)
<1> DEFINE u == s \o t
           len == Len(s)
<1>1. len \in Nat /\ \A j \in 1 .. len : u[j] = s[j]
  BY ConcatProperties
<1> HIDE DEF u, len
<1>2. \A j \in 1 .. k - 1 : u[j] = s[j]
  BY <1>1 DEF len
<1>3. \A i \in 1 .. k - 1 : \A j \in i + 1 .. k - 1 : u[j] = s[j]
  BY <1>2
<1>4. LiveAt(K, L, u, b, k) <=> LiveAt(K, L, s, b, k)
  BY <1>2, <1>3 DEF LiveAt
<1> QED BY <1>4 DEF u

\* The second of two lists starts with what the first has left.
LEMMA LiveInSecond ==
    ASSUME NEW K, NEW S, NEW s \in Seq(S), NEW t \in Seq(S), NEW L, NEW b,
           NEW k \in 1 .. Len(t) + 1
    PROVE  LiveAt(K, L, s \o t, b, Len(s) + k) <=> LiveAt(K, Left(K, L, s), t, b, k)
<1> DEFINE u == s \o t
           len == Len(s)
           M == Left(K, L, s)
<1>1. /\ len \in Nat /\ Len(t) \in Nat /\ k \in Nat
      /\ \A j \in 1 .. len : u[j] = s[j]
      /\ \A j \in 1 .. Len(t) : u[len + j] = t[j]
  <2>1. /\ Len(u) = len + Len(t) /\ len \in Nat /\ Len(t) \in Nat
        /\ \A j \in 1 .. len + Len(t) : u[j] = IF j <= len THEN s[j] ELSE t[j - len]
    BY ConcatProperties
  <2> HIDE DEF u, len
  <2>2. ASSUME NEW j \in 1 .. Len(t) PROVE u[len + j] = t[j]
    <3>1. len + j \in 1 .. len + Len(t) /\ ~ (len + j <= len) /\ (len + j) - len = j
      BY <2>1
    <3> QED BY <2>1, <3>1
  <2>3. ASSUME NEW j \in 1 .. len PROVE u[j] = s[j]
    <3>1. j \in 1 .. len + Len(t) /\ j <= len
      BY <2>1
    <3> QED BY <2>1, <3>1
  <2> QED BY <2>1, <2>2, <2>3
<1>2. b \in M <=> LiveAt(K, L, s, b, len + 1)
  BY LeftIsLive
<1> HIDE DEF u, len, M
<1>3. /\ 1 .. (len + 1) - 1 = 1 .. len
      /\ \A i \in 1 .. len : i + 1 .. (len + 1) - 1 = i + 1 .. len
  BY <1>1
<1>4. b \in M <=> \/ b \in L /\ \A j \in 1 .. len : ~ Frees(K, s[j], b)
                  \/ \E i \in 1 .. len : Gives(K, s[i], b)
                                         /\ \A j \in i + 1 .. len : ~ Frees(K, s[j], b)
  BY <1>2, <1>3 DEF LiveAt
<1> DEFINE early(i) == \A j \in i .. len : ~ Frees(K, s[j], b)
           late == \A j \in 1 .. k - 1 : ~ Frees(K, t[j], b)
<1>5. ASSUME NEW i \in 1 .. len + 1
      PROVE  (\A j \in i .. (len + k) - 1 : ~ Frees(K, u[j], b)) <=> early(i) /\ late
  <2>1. ASSUME \A j \in i .. (len + k) - 1 : ~ Frees(K, u[j], b) PROVE early(i) /\ late
    <3>1. \A j \in i .. len : j \in i .. (len + k) - 1 /\ j \in 1 .. len
      BY <1>1
    <3>2. \A j \in 1 .. k - 1 : len + j \in i .. (len + k) - 1 /\ j \in 1 .. Len(t)
      BY <1>1
    <3> QED BY <2>1, <3>1, <3>2, <1>1
  <2>2. ASSUME early(i), late, NEW j \in i .. (len + k) - 1 PROVE ~ Frees(K, u[j], b)
    <3>1. CASE j <= len
      <4>1. j \in i .. len /\ j \in 1 .. len
        BY <3>1, <1>1
      <4> QED BY <4>1, <2>2, <1>1
    <3>2. CASE ~ (j <= len)
      <4>1. j - len \in 1 .. k - 1 /\ j - len \in 1 .. Len(t) /\ len + (j - len) = j
        BY <3>2, <1>1
      <4>2. u[j] = t[j - len]
        BY <4>1, <1>1
      <4> QED BY <4>1, <4>2, <2>2
    <3> QED BY <3>1, <3>2
  <2> QED BY <2>1, <2>2
<1>o. (\A j \in 1 .. (len + k) - 1 : ~ Frees(K, u[j], b)) <=> early(1) /\ late
  <2>1. 1 \in 1 .. len + 1
    BY <1>1
  <2> HIDE DEF early, late
  <2> QED BY <1>5, <2>1
<1>6. ASSUME NEW i \in 1 .. k - 1
      PROVE  (\A j \in (len + i) + 1 .. (len + k) - 1 : ~ Frees(K, u[j], b))
                <=> \A j \in i + 1 .. k - 1 : ~ Frees(K, t[j], b)
  <2>1. \A j \in i + 1 .. k - 1 : len + j \in (len + i) + 1 .. (len + k) - 1 /\ j \in 1 .. Len(t)
    BY <1>1
  <2>2. \A j \in (len + i) + 1 .. (len + k) - 1 :
          j - len \in i + 1 .. k - 1 /\ j - len \in 1 .. Len(t) /\ len + (j - len) = j
    BY <1>1
  <2>3. \A j \in (len + i) + 1 .. (len + k) - 1 : u[j] = t[j - len]
    BY <2>2, <1>1
  <2> QED BY <2>1, <2>2, <2>3, <1>1
<1>7. ASSUME LiveAt(K, L, u, b, len + k) PROVE LiveAt(K, M, t, b, k)
  <2>1. CASE b \in L /\ \A j \in 1 .. (len + k) - 1 : ~ Frees(K, u[j], b)
    <3>1. early(1) /\ late
      BY <2>1, <1>o
    <3>2. b \in M
      BY <2>1, <3>1, <1>4
    <3> QED BY <3>1, <3>2 DEF LiveAt
  <2>2. ASSUME NEW i \in 1 .. (len + k) - 1, Gives(K, u[i], b),
               \A j \in i + 1 .. (len + k) - 1 : ~ Frees(K, u[j], b)
        PROVE  LiveAt(K, M, t, b, k)
    <3>1. CASE i <= len
      <4>1. i \in 1 .. len /\ i + 1 \in 1 .. len + 1 /\ u[i] = s[i]
        BY <3>1, <1>1
      <4>2. early(i + 1) /\ late
        BY <4>1, <2>2, <1>5
      <4>3. b \in M
        BY <4>1, <4>2, <2>2, <1>4
      <4> QED BY <4>2, <4>3 DEF LiveAt
    <3>2. CASE ~ (i <= len)
      <4>1. i - len \in 1 .. k - 1 /\ i - len \in 1 .. Len(t) /\ len + (i - len) = i
        BY <3>2, <1>1
      <4>2. Gives(K, t[i - len], b)
        BY <4>1, <2>2, <1>1
      <4>3. \A j \in (i - len) + 1 .. k - 1 : ~ Frees(K, t[j], b)
        BY <4>1, <2>2, <1>6
      <4> QED BY <4>1, <4>2, <4>3 DEF LiveAt
    <3> QED BY <3>1, <3>2
  <2> QED BY <1>7, <2>1, <2>2 DEF LiveAt
<1>8. ASSUME LiveAt(K, M, t, b, k) PROVE LiveAt(K, L, u, b, len + k)
  <2>1. CASE b \in M /\ late
    <3>1. CASE b \in L /\ early(1)
      <4>1. \A j \in 1 .. (len + k) - 1 : ~ Frees(K, u[j], b)
        BY <3>1, <2>1, <1>o
      <4> QED BY <3>1, <4>1 DEF LiveAt
    <3>2. ASSUME NEW i \in 1 .. len, Gives(K, s[i], b), early(i + 1)
          PROVE  LiveAt(K, L, u, b, len + k)
      <4>1. i \in 1 .. (len + k) - 1 /\ i + 1 \in 1 .. len + 1 /\ u[i] = s[i]
        BY <1>1
      <4>2. \A j \in i + 1 .. (len + k) - 1 : ~ Frees(K, u[j], b)
        BY <4>1, <3>2, <2>1, <1>5
      <4> QED BY <4>1, <4>2, <3>2 DEF LiveAt
    <3> QED BY <2>1, <3>1, <3>2, <1>4
  <2>2. ASSUME NEW i \in 1 .. k - 1, Gives(K, t[i], b),
               \A j \in i + 1 .. k - 1 : ~ Frees(K, t[j], b)
        PROVE  LiveAt(K, L, u, b, len + k)
    <3>1. len + i \in 1 .. (len + k) - 1 /\ i \in 1 .. Len(t)
      BY <1>1
    <3>2. Gives(K, u[len + i], b)
      BY <3>1, <2>2, <1>1
    <3>3. \A j \in (len + i) + 1 .. (len + k) - 1 : ~ Frees(K, u[j], b)
      BY <2>2, <1>6
    <3> QED BY <3>1, <3>2, <3>3 DEF LiveAt
  <2> QED BY <1>8, <2>1, <2>2 DEF LiveAt
<1> QED BY <1>7, <1>8 DEF u, len, M

\* Two lists one after the other.
LEMMA LeftOfTwo ==
    ASSUME NEW K, NEW S, NEW s \in Seq(S), NEW t \in Seq(S), NEW L
    PROVE  /\ Left(K, L, s \o t) = Left(K, Left(K, L, s), t)
           /\ Sound(K, L, s \o t) <=> Sound(K, L, s) /\ Sound(K, Left(K, L, s), t)
<1> DEFINE u == s \o t
           len == Len(s)
           M == Left(K, L, s)
<1>1. /\ u \in Seq(S) /\ Len(u) = len + Len(t) /\ len \in Nat /\ Len(t) \in Nat
      /\ DOMAIN u = 1 .. len + Len(t) /\ DOMAIN s = 1 .. len /\ DOMAIN t = 1 .. Len(t)
      /\ \A j \in 1 .. len + Len(t) : u[j] = IF j <= len THEN s[j] ELSE t[j - len]
  BY ConcatProperties
<1>2. ASSUME NEW b PROVE b \in Left(K, L, u) <=> b \in Left(K, M, t)
  <2>1. Len(t) + 1 \in 1 .. Len(t) + 1 /\ Len(s) + (Len(t) + 1) = Len(u) + 1
    BY <1>1
  <2>2. LiveAt(K, L, u, b, Len(s) + (Len(t) + 1)) <=> LiveAt(K, M, t, b, Len(t) + 1)
    BY <2>1, LiveInSecond
  <2>3. LiveAt(K, L, u, b, Len(u) + 1) <=> LiveAt(K, M, t, b, Len(t) + 1)
    BY <2>1, <2>2
  <2>4. b \in Left(K, L, u) <=> LiveAt(K, L, u, b, Len(u) + 1)
    BY <1>1, LeftIsLive
  <2>5. b \in Left(K, M, t) <=> LiveAt(K, M, t, b, Len(t) + 1)
    BY LeftIsLive
  <2> QED BY <2>3, <2>4, <2>5
<1>3. ASSUME NEW k \in 1 .. len
      PROVE  u[k] = s[k] /\ (LiveAt(K, L, u, u[k].object_id, k) <=> LiveAt(K, L, s, s[k].object_id, k))
  <2>1. k \in 1 .. Len(s) + 1 /\ k \in 1 .. len + Len(t) /\ k <= len
    BY <1>1
  <2>2. u[k] = s[k]
    BY <1>1, <2>1
  <2>3. LiveAt(K, L, u, s[k].object_id, k) <=> LiveAt(K, L, s, s[k].object_id, k)
    BY <2>1, LiveInFirst
  <2> QED BY <2>2, <2>3
<1>4. ASSUME NEW k \in 1 .. Len(t)
      PROVE  u[len + k] = t[k]
             /\ (LiveAt(K, L, u, u[len + k].object_id, len + k) <=> LiveAt(K, M, t, t[k].object_id, k))
  <2>1. k \in 1 .. Len(t) + 1 /\ len + k \in 1 .. len + Len(t) /\ ~ (len + k <= len)
        /\ (len + k) - len = k
    BY <1>1
  <2>2. u[len + k] = t[k]
    BY <1>1, <2>1
  <2>3. LiveAt(K, L, u, t[k].object_id, len + k) <=> LiveAt(K, M, t, t[k].object_id, k)
    BY <2>1, LiveInSecond
  <2> QED BY <2>2, <2>3
<1>5. \A k \in 1 .. len + Len(t) : k \in 1 .. len \/ (k - len \in 1 .. Len(t) /\ len + (k - len) = k)
  BY <1>1
<1>6. \A k \in 1 .. len : k \in 1 .. len + Len(t)
  BY <1>1
<1>7. \A k \in 1 .. Len(t) : len + k \in 1 .. len + Len(t)
  BY <1>1
<1> DEFINE ok(M_, s_, k) == s_[k].event_type = "ALLOCATED" <=> ~ LiveAt(K, M_, s_, s_[k].object_id, k)
<1>8. \A k \in 1 .. len : ok(L, u, k) <=> ok(L, s, k)
  BY <1>3
<1>9. \A k \in 1 .. Len(t) : ok(L, u, len + k) <=> ok(M, t, k)
  BY <1>4
<1>10. /\ Sound(K, L, u) <=> \A k \in 1 .. len + Len(t) : ok(L, u, k)
       /\ Sound(K, L, s) <=> \A k \in 1 .. len : ok(L, s, k)
       /\ Sound(K, M, t) <=> \A k \in 1 .. Len(t) : ok(M, t, k)
  BY <1>1 DEF Sound
<1> HIDE DEF ok, u, len, M
<1>11. Sound(K, L, u) <=> Sound(K, L, s) /\ Sound(K, M, t)
  <2>1. ASSUME Sound(K, L, u) PROVE Sound(K, L, s) /\ Sound(K, M, t)
    BY <2>1, <1>6, <1>7, <1>8, <1>9, <1>10
  <2>2. ASSUME Sound(K, L, s), Sound(K, M, t), NEW k \in 1 .. len + Len(t) PROVE ok(L, u, k)
    <3>1. CASE k \in 1 .. len
      BY <3>1, <2>2, <1>8, <1>10
    <3>2. CASE k - len \in 1 .. Len(t) /\ len + (k - len) = k
      <4>1. ok(L, u, len + (k - len))
        BY <3>2, <2>2, <1>9, <1>10
      <4> QED BY <3>2, <4>1
    <3> QED BY <3>1, <3>2, <1>5
  <2> QED BY <2>1, <2>2, <1>10
<1> QED BY <1>2, <1>11 DEF u, M

\* What one event makes of the set of live blocks.
After(K, L, e) ==
    IF e.event_type \in K.gives THEN L \cup {e.object_id}
    ELSE IF e.event_type \in K.ends THEN L \ {e.object_id} ELSE L

\* A list of one event.
LEMMA LeftOfOne ==
    ASSUME NEW K, NEW e, NEW L
    PROVE  /\ Left(K, L, <<e>>) = After(K, L, e)
           /\ Sound(K, L, <<e>>) <=> (e.event_type = "ALLOCATED" <=> e.object_id \notin L)
<1> DEFINE s == <<e>>
<1>1. s \in Seq({e}) /\ Len(s) = 1 /\ DOMAIN s = {1} /\ s[1] = e
  OBVIOUS
<1>2. 1 .. (1 + 1) - 1 = {1} /\ 1 + 1 .. (1 + 1) - 1 = {} /\ 1 .. 1 - 1 = {}
  OBVIOUS
<1> HIDE DEF s
<1>3. ASSUME NEW b PROVE LiveAt(K, L, s, b, 1 + 1) <=> (b \in L /\ ~ Frees(K, e, b)) \/ Gives(K, e, b)
  BY <1>1, <1>2 DEF LiveAt
<1>4. ASSUME NEW b PROVE LiveAt(K, L, s, b, 1) <=> b \in L
  BY <1>2 DEF LiveAt
<1>5. ASSUME NEW b PROVE b \in Left(K, L, s) <=> b \in After(K, L, e)
  <2>1. b \in Left(K, L, s) <=> LiveAt(K, L, s, b, Len(s) + 1)
    BY <1>1, LeftIsLive
  <2>2. b \in Left(K, L, s) <=> (b \in L /\ ~ Frees(K, e, b)) \/ Gives(K, e, b)
    BY <2>1, <1>1, <1>3
  <2> QED BY <2>2 DEF After, Frees, Gives
<1>6. Sound(K, L, s) <=> (e.event_type = "ALLOCATED" <=> e.object_id \notin L)
  BY <1>1, <1>4 DEF Sound
<1> QED BY <1>5, <1>6 DEF s

\* What a list leaves is what its tail leaves after its head.
LEMMA LeftOfHead ==
    ASSUME NEW K, NEW S, NEW s \in Seq(S), s # <<>>, NEW L
    PROVE  /\ Left(K, L, s) = Left(K, After(K, L, Head(s)), Tail(s))
           /\ Sound(K, L, s) => /\ Head(s).event_type = "ALLOCATED" <=> Head(s).object_id \notin L
                             /\ Sound(K, After(K, L, Head(s)), Tail(s))
<1> DEFINE h == <<Head(s)>>
           t == Tail(s)
<1>1. h \in Seq(S) /\ t \in Seq(S) /\ s = h \o t
  <2> DEFINE len == Len(s)
  <2>1. /\ Head(s) \in S /\ t \in Seq(S) /\ Len(t) = len - 1 /\ Head(s) = s[1]
        /\ \A k \in 1 .. len - 1 : t[k] = s[k + 1]
        /\ len \in Nat \ {0}
    BY HeadTailProperties, EmptySeq
  <2>2. h \in Seq(S) /\ Len(h) = 1 /\ h[1] = s[1]
    BY <2>1
  <2> HIDE DEF h, t
  <2>3. /\ h \o t \in Seq(S) /\ Len(h \o t) = 1 + (len - 1)
        /\ \A k \in 1 .. 1 + (len - 1) : (h \o t)[k] = IF k <= 1 THEN h[k] ELSE t[k - 1]
    <3>1. /\ h \o t \in Seq(S) /\ Len(h \o t) = Len(h) + Len(t)
          /\ \A k \in 1 .. Len(h) + Len(t) :
                (h \o t)[k] = IF k <= Len(h) THEN h[k] ELSE t[k - Len(h)]
      BY <2>1, <2>2, ConcatProperties
    <3> HIDE DEF len
    <3> QED BY <3>1, <2>1, <2>2
  <2> HIDE DEF len
  <2>4. ASSUME NEW k \in 1 .. len PROVE (h \o t)[k] = s[k]
    <3>1. k \in 1 .. 1 + (len - 1)
      BY <2>1
    <3>2. CASE k = 1
      BY <2>2, <2>3, <3>1, <3>2
    <3>3. CASE k # 1
      <4>1. k - 1 \in 1 .. len - 1 /\ (k - 1) + 1 = k /\ ~ (k <= 1)
        BY <2>1, <3>3
      <4>2. t[k - 1] = s[k]
        BY <2>1, <4>1
      <4> QED BY <2>3, <3>1, <4>1, <4>2
    <3> QED BY <3>2, <3>3
  <2>5. Len(h \o t) = len
    BY <2>1, <2>3
  <2>6. h \o t = s
    BY <2>3, <2>4, <2>5, SeqEqual DEF len
  <2> QED BY <2>1, <2>2, <2>6
<1>2. Left(K, L, h) = After(K, L, Head(s))
      /\ (Sound(K, L, h) <=> (Head(s).event_type = "ALLOCATED" <=> Head(s).object_id \notin L))
  BY LeftOfOne
<1> HIDE DEF h, t
<1>3. Left(K, L, h \o t) = Left(K, Left(K, L, h), t)
      /\ (Sound(K, L, h \o t) <=> Sound(K, L, h) /\ Sound(K, Left(K, L, h), t))
  BY <1>1, LeftOfTwo
<1> QED BY <1>1, <1>2, <1>3 DEF t

\* Lists in which every event gives, or ends, or does neither.
LEMMA LeftOfGivers ==
    ASSUME NEW K, NEW S, NEW s \in Seq(S), NEW L,
           \A k \in DOMAIN s : s[k].event_type \in K.gives /\ s[k].event_type \notin K.ends
    PROVE  Left(K, L, s) = L \cup About(s)
<1>1. Len(s) \in Nat /\ DOMAIN s = 1 .. Len(s) /\ 1 .. (Len(s) + 1) - 1 = 1 .. Len(s)
  OBVIOUS
<1>2. ASSUME NEW b PROVE b \in Left(K, L, s) <=> b \in L \cup About(s)
  <2>1. \A i \in 1 .. Len(s) : \A j \in i + 1 .. Len(s) : j \in 1 .. Len(s)
    BY <1>1
  <2>2. \A j \in 1 .. Len(s) : ~ Frees(K, s[j], b) /\ (Gives(K, s[j], b) <=> s[j].object_id = b)
    BY <1>1 DEF Frees, Gives
  <2>3. \A i \in 1 .. Len(s) : \A j \in i + 1 .. (Len(s) + 1) - 1 : ~ Frees(K, s[j], b)
    BY <1>1, <2>1, <2>2
  <2>4. LiveAt(K, L, s, b, Len(s) + 1) <=> b \in L \/ \E j \in DOMAIN s : s[j].object_id = b
    BY <1>1, <2>2, <2>3 DEF LiveAt
  <2> QED BY <2>4, LeftIsLive DEF About
<1> QED BY <1>2

\* Every event ends.
LEMMA LeftOfEnders ==
    ASSUME NEW K, NEW S, NEW s \in Seq(S), NEW L,
           \A k \in DOMAIN s : s[k].event_type \in K.ends /\ s[k].event_type \notin K.gives
    PROVE  Left(K, L, s) = L \ About(s)
<1>1. Len(s) \in Nat /\ DOMAIN s = 1 .. Len(s) /\ 1 .. (Len(s) + 1) - 1 = 1 .. Len(s)
  OBVIOUS
<1>2. ASSUME NEW b PROVE b \in Left(K, L, s) <=> b \in L \ About(s)
  <2>1. \A j \in 1 .. Len(s) : ~ Gives(K, s[j], b) /\ (Frees(K, s[j], b) <=> s[j].object_id = b)
    BY <1>1 DEF Frees, Gives
  <2>2. LiveAt(K, L, s, b, Len(s) + 1) <=> b \in L /\ \A j \in DOMAIN s : s[j].object_id # b
    BY <1>1, <2>1 DEF LiveAt
  <2> QED BY <2>2, LeftIsLive DEF About
<1> QED BY <1>2

\* No event gives or ends.
LEMMA LeftOfOthers ==
    ASSUME NEW K, NEW S, NEW s \in Seq(S), NEW L,
           \A k \in DOMAIN s : s[k].event_type \notin K.ends /\ s[k].event_type \notin K.gives
    PROVE  Left(K, L, s) = L
<1>1. Len(s) \in Nat /\ DOMAIN s = 1 .. Len(s) /\ 1 .. (Len(s) + 1) - 1 = 1 .. Len(s)
  OBVIOUS
<1>2. ASSUME NEW b PROVE b \in Left(K, L, s) <=> b \in L
  <2>1. \A j \in 1 .. Len(s) : ~ Gives(K, s[j], b) /\ ~ Frees(K, s[j], b)
    BY <1>1 DEF Frees, Gives
  <2>2. LiveAt(K, L, s, b, Len(s) + 1) <=> b \in L
    BY <1>1, <2>1 DEF LiveAt
  <2> QED BY <2>2, LeftIsLive
<1> QED BY <1>2

\* Lists in which blocks that are live are used, new blocks are allocated, or live
\* blocks are freed, each once.
LEMMA LeftOfUses ==
    ASSUME NEW S, NEW s \in Seq(S), NEW L,
           \A k \in DOMAIN s : /\ s[k].event_type \notin {"ALLOCATED", "FREED"}
                               /\ s[k].object_id \in L
    PROVE  Left(Life, L, s) = L /\ Sound(Life, L, s)
<1>1. Len(s) \in Nat /\ DOMAIN s = 1 .. Len(s)
  OBVIOUS
<1>2. ASSUME NEW b, NEW k \in 1 .. Len(s) + 1 PROVE LiveAt(Life, L, s, b, k) <=> b \in L
  <2>1. \A j \in 1 .. k - 1 : j \in DOMAIN s
    BY <1>1
  <2>2. \A j \in 1 .. k - 1 : ~ Frees(Life, s[j], b) /\ (Gives(Life, s[j], b) => b \in L)
    BY <2>1 DEF Frees, Gives, Life
  <2> QED BY <2>2 DEF LiveAt
<1>3. ASSUME NEW b PROVE b \in Left(Life, L, s) <=> b \in L
  <2>1. Len(s) + 1 \in 1 .. Len(s) + 1
    BY <1>1
  <2> QED BY <2>1, <1>2, LeftIsLive
<1>4. Sound(Life, L, s)
  <2>1. \A k \in DOMAIN s : k \in 1 .. Len(s) + 1
    BY <1>1
  <2> QED BY <2>1, <1>2 DEF Sound
<1> QED BY <1>3, <1>4

\* New blocks are allocated, each once.
LEMMA LeftOfAllocations ==
    ASSUME NEW S, NEW s \in Seq(S), NEW L,
           \A k \in DOMAIN s : s[k].event_type = "ALLOCATED" /\ s[k].object_id \notin L,
           \A j, k \in DOMAIN s : s[j].object_id = s[k].object_id => j = k
    PROVE  Left(Life, L, s) = L \cup About(s) /\ Sound(Life, L, s)
<1>1. Len(s) \in Nat /\ DOMAIN s = 1 .. Len(s)
  OBVIOUS
<1>2. ASSUME NEW b, NEW k \in 1 .. Len(s) + 1
      PROVE  LiveAt(Life, L, s, b, k) <=> b \in L \/ \E j \in 1 .. k - 1 : s[j].object_id = b
  <2>1. \A j \in 1 .. k - 1 : j \in DOMAIN s /\ \A i \in j + 1 .. k - 1 : i \in 1 .. k - 1
    BY <1>1
  <2>2. \A j \in 1 .. k - 1 : ~ Frees(Life, s[j], b) /\ (Gives(Life, s[j], b) <=> s[j].object_id = b)
    BY <2>1 DEF Frees, Gives, Life
  <2> QED BY <2>1, <2>2 DEF LiveAt
<1>3. ASSUME NEW b PROVE b \in Left(Life, L, s) <=> b \in L \cup About(s)
  <2>1. Len(s) + 1 \in 1 .. Len(s) + 1 /\ 1 .. (Len(s) + 1) - 1 = DOMAIN s
    BY <1>1
  <2>2. LiveAt(Life, L, s, b, Len(s) + 1) <=> b \in L \/ \E j \in DOMAIN s : s[j].object_id = b
    BY <2>1, <1>2
  <2> QED BY <2>2, LeftIsLive DEF About
<1>4. Sound(Life, L, s)
  <2> SUFFICES ASSUME NEW k \in DOMAIN s PROVE ~ LiveAt(Life, L, s, s[k].object_id, k)
    BY DEF Sound
  <2>1. k \in 1 .. Len(s) + 1 /\ \A j \in 1 .. k - 1 : j \in DOMAIN s /\ j # k
    BY <1>1
  <2>2. \A j \in 1 .. k - 1 : s[j].object_id # s[k].object_id
    BY <2>1
  <2> QED BY <2>1, <2>2, <1>2
<1> QED BY <1>3, <1>4

\* Live blocks are freed, each once.
LEMMA LeftOfFrees ==
    ASSUME NEW S, NEW s \in Seq(S), NEW L,
           \A k \in DOMAIN s : s[k].event_type = "FREED" /\ s[k].object_id \in L,
           \A j, k \in DOMAIN s : s[j].object_id = s[k].object_id => j = k
    PROVE  Left(Life, L, s) = L \ About(s) /\ Sound(Life, L, s)
<1>1. Len(s) \in Nat /\ DOMAIN s = 1 .. Len(s)
  OBVIOUS
<1>2. ASSUME NEW b, NEW k \in 1 .. Len(s) + 1
      PROVE  LiveAt(Life, L, s, b, k) <=> b \in L /\ \A j \in 1 .. k - 1 : s[j].object_id # b
  <2>1. \A j \in 1 .. k - 1 : j \in DOMAIN s
    BY <1>1
  <2>2. \A j \in 1 .. k - 1 : ~ Gives(Life, s[j], b) /\ (Frees(Life, s[j], b) <=> s[j].object_id = b)
    BY <2>1 DEF Frees, Gives, Life
  <2> QED BY <2>2 DEF LiveAt
<1>3. ASSUME NEW b PROVE b \in Left(Life, L, s) <=> b \in L \ About(s)
  <2>1. Len(s) + 1 \in 1 .. Len(s) + 1 /\ 1 .. (Len(s) + 1) - 1 = DOMAIN s
    BY <1>1
  <2>2. LiveAt(Life, L, s, b, Len(s) + 1) <=> b \in L /\ \A j \in DOMAIN s : s[j].object_id # b
    BY <2>1, <1>2
  <2> QED BY <2>2, LeftIsLive DEF About
<1>4. Sound(Life, L, s)
  <2> SUFFICES ASSUME NEW k \in DOMAIN s PROVE LiveAt(Life, L, s, s[k].object_id, k)
    BY DEF Sound
  <2>1. k \in 1 .. Len(s) + 1 /\ \A j \in 1 .. k - 1 : j \in DOMAIN s /\ j # k
    BY <1>1
  <2>2. \A j \in 1 .. k - 1 : s[j].object_id # s[k].object_id
    BY <2>1
  <2> QED BY <2>1, <2>2, <1>2
<1> QED BY <1>3, <1>4

\* Many lists one after the other: g[i] is live after the first i of them.  The
\* whole list is sound if each of them is.
LEMMA LeftOfMany ==
    ASSUME NEW K, NEW S, NEW seqs \in Seq(Seq(S)), NEW g, NEW sound \in BOOLEAN,
           \A i \in 1 .. Len(seqs) : /\ Left(K, g[i - 1], seqs[i]) = g[i]
                                     /\ sound => Sound(K, g[i - 1], seqs[i])
    PROVE  /\ Left(K, g[0], FlattenSeq(seqs)) = g[Len(seqs)]
           /\ sound => Sound(K, g[0], FlattenSeq(seqs))
<1> DEFINE m == Len(seqs)
           good(i) == /\ Left(K, g[0], Joined(seqs, i)) = g[i]
                      /\ sound => Sound(K, g[0], Joined(seqs, i))
           Bad == {i \in 1 .. m : ~ good(i)}
<1>1. m \in Nat /\ \A i \in 1 .. m : seqs[i] \in Seq(S)
  OBVIOUS
<1>2. /\ FlattenSeq(seqs) = Joined(seqs, m) /\ Joined(seqs, 0) = <<>>
      /\ \A i \in 1 .. m : /\ Joined(seqs, i) = Joined(seqs, i - 1) \o seqs[i]
                           /\ Joined(seqs, i) \in Seq(S)
  BY FlattenJoins
<1>3. \A i \in 1 .. m : Left(K, g[i - 1], seqs[i]) = g[i] /\ (sound => Sound(K, g[i - 1], seqs[i]))
  OBVIOUS
<1> HIDE DEF m
<1>4. good(0)
  BY <1>2, LeftOfNone
<1>5. \A i \in 0 .. m : Joined(seqs, i) \in Seq(S)
  <2>1. <<>> \in Seq(S)
    BY EmptySeq
  <2>2. \A i \in 0 .. m : i = 0 \/ i \in 1 .. m
    BY <1>1
  <2> QED BY <1>2, <2>1, <2>2
<1>6. Bad = {}
  <2> SUFFICES ASSUME Bad # {} PROVE FALSE
    OBVIOUS
  <2>1. PICK i \in Bad : \A j \in Bad : i <= j
    <3>1. Bad \in SUBSET (1 .. m)
      OBVIOUS
    <3> HIDE DEF Bad
    <3> QED BY <1>1, <3>1, FirstIndex
  <2>2. i \in 1 .. m /\ ~ good(i)
    OBVIOUS
  <2>3. good(i - 1)
    <3>1. CASE i = 1
      BY <3>1, <1>4
    <3>2. CASE i # 1
      <4>1. i - 1 \in 1 .. m /\ ~ (i <= i - 1)
        BY <1>1, <2>2, <3>2
      <4>2. i - 1 \notin Bad
        <5> HIDE DEF Bad
        <5> QED BY <2>1, <4>1
      <4> QED BY <4>1, <4>2
    <3> QED BY <3>1, <3>2
  <2>4. i - 1 \in 0 .. m
    BY <1>1, <2>2
  <2> DEFINE s == Joined(seqs, i - 1)
             t == seqs[i]
  <2>5. s \in Seq(S) /\ t \in Seq(S) /\ Joined(seqs, i) = s \o t
        /\ Left(K, g[0], s) = g[i - 1] /\ (sound => Sound(K, g[0], s))
        /\ Left(K, g[i - 1], t) = g[i] /\ (sound => Sound(K, g[i - 1], t))
    BY <1>1, <1>2, <1>3, <1>5, <2>2, <2>3, <2>4
  <2> HIDE DEF s, t, Bad
  <2>6. Left(K, g[0], s \o t) = Left(K, Left(K, g[0], s), t)
        /\ (Sound(K, g[0], s \o t) <=> Sound(K, g[0], s) /\ Sound(K, Left(K, g[0], s), t))
    BY <2>5, LeftOfTwo
  <2>7. good(i)
    BY <2>5, <2>6
  <2> QED BY <2>2, <2>7
<1>7. good(m)
  <2>1. CASE m = 0
    BY <2>1, <1>4
  <2>2. CASE m # 0
    <3>1. m \in 1 .. m
      BY <1>1, <2>2
    <3>2. m \notin Bad
      <4> HIDE DEF Bad
      <4> QED BY <1>6
    <3> QED BY <3>1, <3>2
  <2> QED BY <2>1, <2>2
<1> QED BY <1>2, <1>7 DEF m

\* The more is live at first, the more is left.
LEMMA LeftGrows ==
    ASSUME NEW K, NEW S, NEW s \in Seq(S), NEW L, NEW M, L \subseteq M
    PROVE  Left(K, L, s) \subseteq Left(K, M, s)
<1> SUFFICES ASSUME NEW b \in Left(K, L, s) PROVE b \in Left(K, M, s)
  OBVIOUS
<1>1. LiveAt(K, L, s, b, Len(s) + 1)
  BY LeftIsLive
<1>2. LiveAt(K, M, s, b, Len(s) + 1)
  BY <1>1 DEF LiveAt
<1> QED BY <1>2, LeftIsLive

-----------------------------------------------------------------------------
(***************************************************************************)
(* The simulator takes a trace                                             *)
(***************************************************************************)
\* An event changes the set of live blocks as After says, and only run() does.
LEMMA HandleLive ==
    ASSUME NEW e, Handle(e)
    PROVE  live_blocks' = After(Life, live_blocks, e)
<1> DEFINE b == e.object_id
           i == e.intent
<1> HIDE DEF b, i
<1>1. ASSUME e.event_type = "ALLOCATED" PROVE live_blocks' = After(Life, live_blocks, e)
  BY <1>1 DEF Handle, Allocated, After, Life
<1>2. ASSUME e.event_type = "ACCESSED" PROVE live_blocks' = After(Life, live_blocks, e)
  <2>1. Accessed(e.object_id, e.intent)
    BY <1>2 DEF Handle
  <2>2. live_blocks' = live_blocks \cup {e.object_id}
    BY <2>1 DEF Accessed, Raise, placement, move_to_hbm
  <2> QED BY <1>2, <2>2 DEF After, Life
<1>3. ASSUME e.event_type = "MARKED_DECODE_CRITICAL"
      PROVE  live_blocks' = After(Life, live_blocks, e)
  <2>1. MarkedDecodeCritical(e.object_id, e.intent)
    BY <1>3 DEF Handle
  <2>2. live_blocks' = live_blocks \cup {e.object_id}
    BY <2>1 DEF MarkedDecodeCritical, Raise, placement
  <2> QED BY <1>3, <2>2 DEF After, Life
<1>4. ASSUME e.event_type = "MARKED_COLD" PROVE live_blocks' = After(Life, live_blocks, e)
  BY <1>4 DEF Handle, MarkedCold, Ignore, Raise, placement, After, Life
<1>5. ASSUME e.event_type = "COMMITTED" PROVE live_blocks' = After(Life, live_blocks, e)
  BY <1>5 DEF Handle, Committed, Ignore, Raise, placement, After, Life
<1>6. ASSUME e.event_type = "SPILLED" PROVE live_blocks' = After(Life, live_blocks, e)
  BY <1>6 DEF Handle, Spilled, Ignore, placement, After, Life
<1>7. ASSUME e.event_type = "PREFETCHED" PROVE live_blocks' = After(Life, live_blocks, e)
  <2>1. PICK urgent \in BOOLEAN : Prefetched(e.object_id, e.intent, urgent)
    BY <1>7 DEF Handle
  <2>2. live_blocks' = live_blocks
    BY <2>1 DEF Prefetched, Ignore, placement, move_to_hbm
  <2> QED BY <1>7, <2>2 DEF After, Life
<1>8. ASSUME e.event_type = "FREED" PROVE live_blocks' = After(Life, live_blocks, e)
  BY <1>8 DEF Handle, Freed, After, Life
<1> QED BY <1>1, <1>2, <1>3, <1>4, <1>5, <1>6, <1>7, <1>8 DEF Handle

\* A step of run() that takes no event leaves the set alone.
LEMMA LoopLive ==
    ASSUME Loop \/ Finish
    PROVE  live_blocks' = live_blocks
BY DEF Loop, Finish, EvictOne, CapacityExhausted, EnsureDone, placement

\* No list is its own tail.
LEMMA TailDiffers ==
    ASSUME NEW S, NEW s \in Seq(S), s # <<>>
    PROVE  Tail(s) # s
<1> DEFINE t == Tail(s)
<1>1. Len(t) = Len(s) - 1 /\ Len(s) \in Nat
  BY HeadTailProperties
<1> HIDE DEF t
<1>2. t # s
  BY <1>1
<1> QED BY <1>2 DEF t

\* The trace still to be replayed is sound, and will leave the blocks of M.
Leads(M) ==
    /\ Sound(Life, live_blocks, trace)
    /\ Left(Life, live_blocks, trace) = M

\* The simulator keeps to what the trace leads to, and meets no event about a
\* block that it does not know.
LEMMA SimulateLeads ==
    ASSUME trace \in Seq(MemoryIntentEvent), NEW M, Leads(M), Simulate
    PROVE  /\ Leads(M)'
           /\ trace' \in Seq(MemoryIntentEvent)
           /\ ~ TakesUnknownBlock
<1>1. CASE Replay
  <2> DEFINE e == Head(trace)
             t == Tail(trace)
             A == After(Life, live_blocks, e)
  <2>1. trace # <<>> /\ trace' = t /\ Handle(e) /\ t \in Seq(MemoryIntentEvent)
    BY <1>1, HeadTailProperties DEF Replay
  <2>2. live_blocks' = A
    BY <2>1, HandleLive
  <2>3. /\ Left(Life, live_blocks, trace) = Left(Life, A, t)
        /\ e.event_type = "ALLOCATED" <=> e.object_id \notin live_blocks
        /\ Sound(Life, A, t)
    BY <2>1, LeftOfHead DEF Leads
  <2>4. ~ TakesUnknownBlock
    BY <2>3 DEF TakesUnknownBlock
  <2> HIDE DEF e, t, A
  <2>5. Sound(Life, live_blocks', trace') /\ Left(Life, live_blocks', trace') = M
    BY <2>1, <2>2, <2>3 DEF Leads
  <2> QED BY <2>1, <2>4, <2>5 DEF Leads
<1>2. CASE (Loop \/ Finish) /\ UNCHANGED trace
  <2>1. live_blocks' = live_blocks /\ trace' = trace
    BY <1>2, LoopLive
  <2>2. ~ TakesUnknownBlock
    BY <2>1, TailDiffers DEF TakesUnknownBlock
  <2>3. Sound(Life, live_blocks', trace') /\ Left(Life, live_blocks', trace') = M
    BY <2>1 DEF Leads
  <2> QED BY <2>1, <2>2, <2>3 DEF Leads
<1> QED BY <1>1, <1>2 DEF Simulate

\* A trace that has been taken led to what is live now.
LEMMA LedTo ==
    ASSUME NEW M, Leads(M), Quiescent
    PROVE  live_blocks = M
BY LeftOfNone DEF Leads, Quiescent

\* The pinned blocks.
Pinned == {b \in live_blocks : intent[b].pin_requested}

\* Nothing is live, and nothing pinned, before run() starts.
LEMMA NothingLive ==
    ASSUME Init
    PROVE  live_blocks = {} /\ Pinned = {} /\ pc = "idle" /\ hbm_blocks \cup dram_blocks = {}
BY DEF Init, Pinned

-----------------------------------------------------------------------------
(***************************************************************************)
(* The parts of a trace                                                    *)
(***************************************************************************)
\* Replayed when L is live, s meets nothing unknown and leaves M.
Carries(L, s, M) ==
    s \in Seq(MemoryIntentEvent) /\ Sound(Life, L, s) /\ Left(Life, L, s) = M

\* One list after the other.
LEMMA CarriesTwo ==
    ASSUME NEW L, NEW M, NEW N, NEW s, NEW t, Carries(L, s, M), Carries(M, t, N)
    PROVE  Carries(L, s \o t, N)
<1>1. s \in Seq(MemoryIntentEvent) /\ t \in Seq(MemoryIntentEvent)
  BY DEF Carries
<1>2. /\ Left(Life, L, s \o t) = Left(Life, Left(Life, L, s), t)
      /\ Sound(Life, L, s \o t) <=> Sound(Life, L, s) /\ Sound(Life, Left(Life, L, s), t)
  BY <1>1, LeftOfTwo
<1>3. s \o t \in Seq(MemoryIntentEvent)
  BY <1>1, ConcatProperties
<1> QED BY <1>2, <1>3 DEF Carries

\* Nothing at all.
LEMMA CarriesNone ==
    ASSUME NEW L
    PROVE  Carries(L, <<>>, L)
BY LeftOfNone, EmptySeq DEF Carries

\* Many lists.
LEMMA CarriesMany ==
    ASSUME NEW seqs, NEW m \in Nat, DOMAIN seqs = 1 .. m, seqs = [i \in 1 .. m |-> seqs[i]], NEW g,
           \A i \in 1 .. m : Carries(g[i - 1], seqs[i], g[i])
    PROVE  Carries(g[0], FlattenSeq(seqs), g[m])
<1>1. \A i \in 1 .. m : seqs[i] \in Seq(MemoryIntentEvent)
  BY DEF Carries
<1>2. seqs \in Seq(Seq(MemoryIntentEvent)) /\ Len(seqs) = m
  BY <1>1
<1>3. \A i \in 1 .. Len(seqs) : /\ Left(Life, g[i - 1], seqs[i]) = g[i]
                                /\ TRUE => Sound(Life, g[i - 1], seqs[i])
  BY <1>2 DEF Carries
<1>4. /\ Left(Life, g[0], FlattenSeq(seqs)) = g[Len(seqs)]
      /\ TRUE => Sound(Life, g[0], FlattenSeq(seqs))
  BY <1>2, <1>3, LeftOfMany
<1>5. FlattenSeq(seqs) \in Seq(MemoryIntentEvent)
  BY <1>2, FlattenRange
<1> QED BY <1>2, <1>4, <1>5 DEF Carries

\* The blocks of a request from first to last, and one event about each of them.
Span(r, first, last) == {<<r, k>> : k \in first .. last}

\* A list with one event of one type for each block of a span, in order.
OnePerBlock(s, type, r, first, last) ==
    /\ s \in Seq(MemoryIntentEvent)
    /\ DOMAIN s = 1 .. last - first + 1
    /\ \A k \in DOMAIN s : s[k].event_type = type /\ s[k].object_id = <<r, first + k - 1>>

\* Each block of the span occurs once.
LEMMA SpanOfEvents ==
    ASSUME NEW s, NEW type, NEW r, NEW first, NEW last, first \in Nat, last \in Int,
           OnePerBlock(s, type, r, first, last)
    PROVE  /\ About(s) = Span(r, first, last)
           /\ \A j, k \in DOMAIN s : s[j].object_id = s[k].object_id => j = k
<1>1. /\ DOMAIN s = 1 .. last - first + 1
      /\ \A k \in DOMAIN s : s[k].object_id = <<r, first + k - 1>>
  BY DEF OnePerBlock
<1>2. ASSUME NEW j \in DOMAIN s, NEW k \in DOMAIN s, s[j].object_id = s[k].object_id PROVE j = k
  <2>1. <<r, first + j - 1>> = <<r, first + k - 1>>
    BY <1>1, <1>2
  <2>2. first + j - 1 = first + k - 1
    BY <2>1
  <2> QED BY <1>1, <2>2
<1>3. ASSUME NEW b \in About(s) PROVE b \in Span(r, first, last)
  <2>1. PICK k \in DOMAIN s : b = <<r, first + k - 1>>
    BY <1>1, <1>3 DEF About
  <2>2. first + k - 1 \in first .. last
    BY <1>1
  <2> QED BY <2>1, <2>2 DEF Span
<1>4. ASSUME NEW b \in Span(r, first, last) PROVE b \in About(s)
  <2>1. PICK k \in first .. last : b = <<r, k>>
    BY <1>4 DEF Span
  <2>2. k - first + 1 \in DOMAIN s /\ first + (k - first + 1) - 1 = k
    BY <1>1
  <2>3. s[k - first + 1].object_id = <<r, k>>
    BY <1>1, <2>2
  <2> QED BY <2>1, <2>2, <2>3 DEF About
<1> QED BY <1>2, <1>3, <1>4

\* The blocks of a request are allocated, used, or freed, one after the other.
LEMMA CarriesSpan ==
    ASSUME NEW s, NEW type, NEW r, NEW first, NEW last, first \in Nat, last \in Int, NEW L,
           OnePerBlock(s, type, r, first, last)
    PROVE  /\ type = "ALLOCATED" /\ L \cap Span(r, first, last) = {} =>
                 Carries(L, s, L \cup Span(r, first, last))
           /\ type \notin {"ALLOCATED", "FREED"} /\ Span(r, first, last) \subseteq L =>
                 Carries(L, s, L)
           /\ type = "FREED" /\ Span(r, first, last) \subseteq L =>
                 Carries(L, s, L \ Span(r, first, last))
<1>1. /\ s \in Seq(MemoryIntentEvent)
      /\ \A k \in DOMAIN s : s[k].event_type = type
      /\ About(s) = Span(r, first, last)
      /\ \A j, k \in DOMAIN s : s[j].object_id = s[k].object_id => j = k
  <2>1. /\ About(s) = Span(r, first, last)
        /\ \A j, k \in DOMAIN s : s[j].object_id = s[k].object_id => j = k
    BY SpanOfEvents
  <2> QED BY <2>1 DEF OnePerBlock
<1>2. \A k \in DOMAIN s : s[k].object_id \in Span(r, first, last)
  BY <1>1 DEF About
<1>3. ASSUME type = "ALLOCATED", L \cap Span(r, first, last) = {}
      PROVE  Carries(L, s, L \cup Span(r, first, last))
  <2>1. \A k \in DOMAIN s : s[k].event_type = "ALLOCATED" /\ s[k].object_id \notin L
    BY <1>1, <1>2, <1>3
  <2> QED BY <1>1, <2>1, LeftOfAllocations DEF Carries
<1>4. ASSUME type \notin {"ALLOCATED", "FREED"}, Span(r, first, last) \subseteq L
      PROVE  Carries(L, s, L)
  <2>1. \A k \in DOMAIN s : s[k].event_type \notin {"ALLOCATED", "FREED"} /\ s[k].object_id \in L
    BY <1>1, <1>2, <1>4
  <2> QED BY <1>1, <2>1, LeftOfUses DEF Carries
<1>5. ASSUME type = "FREED", Span(r, first, last) \subseteq L
      PROVE  Carries(L, s, L \ Span(r, first, last))
  <2>1. \A k \in DOMAIN s : s[k].event_type = "FREED" /\ s[k].object_id \in L
    BY <1>1, <1>2, <1>5
  <2> QED BY <1>1, <2>1, LeftOfFrees DEF Carries
<1> QED BY <1>3, <1>4, <1>5

\* A call of the producer writes a trace between two replays.
LEMMA CallLeads ==
    ASSUME NEW L, NEW M, Leads(L), Quiescent, live_blocks' = live_blocks,
           NEW s, trace' = s, Carries(L, s, M)
    PROVE  /\ Sound(Life, live_blocks', trace') /\ Left(Life, live_blocks', trace') = M
           /\ trace' \in Seq(MemoryIntentEvent) /\ ~ TakesUnknownBlock
<1>1. live_blocks = L
  BY LedTo
<1>2. trace = <<>>
  BY DEF Quiescent
<1> QED BY <1>1, <1>2 DEF Carries, TakesUnknownBlock

-----------------------------------------------------------------------------
(***************************************************************************)
(* The mock engine                                                         *)
(***************************************************************************)
\* Blocks that leave: each is marked cold, or freed, and freed last.
LEMMA LeftOfReleases ==
    ASSUME NEW S, NEW s \in Seq(S), NEW L,
           \A k \in DOMAIN s : s[k].event_type \in {"MARKED_COLD", "FREED"} /\ s[k].object_id \in L,
           \A j, k \in DOMAIN s : j < k /\ s[j].event_type = "FREED" => s[j].object_id # s[k].object_id,
           \A b \in About(s) : \E k \in DOMAIN s : s[k].object_id = b /\ s[k].event_type = "FREED"
    PROVE  Left(Life, L, s) = L \ About(s) /\ Sound(Life, L, s)
<1>1. Len(s) \in Nat /\ DOMAIN s = 1 .. Len(s)
  OBVIOUS
<1>2. ASSUME NEW b, NEW k \in 1 .. Len(s) + 1
      PROVE  LiveAt(Life, L, s, b, k) <=>
                b \in L /\ \A j \in 1 .. k - 1 : s[j].object_id = b => s[j].event_type # "FREED"
  <2>1. \A j \in 1 .. k - 1 : j \in DOMAIN s
    BY <1>1
  <2>2. \A j \in 1 .. k - 1 :
           /\ ~ Gives(Life, s[j], b)
           /\ Frees(Life, s[j], b) <=> s[j].object_id = b /\ s[j].event_type = "FREED"
    BY <2>1 DEF Frees, Gives, Life
  <2> QED BY <2>2 DEF LiveAt
<1>3. ASSUME NEW b PROVE b \in Left(Life, L, s) <=> b \in L \ About(s)
  <2>1. Len(s) + 1 \in 1 .. Len(s) + 1 /\ 1 .. (Len(s) + 1) - 1 = DOMAIN s
    BY <1>1
  <2>2. LiveAt(Life, L, s, b, Len(s) + 1) <=>
           b \in L /\ \A j \in DOMAIN s : s[j].object_id = b => s[j].event_type # "FREED"
    BY <2>1, <1>2
  <2>3. b \notin About(s) => \A j \in DOMAIN s : s[j].object_id # b
    BY DEF About
  <2> QED BY <2>2, <2>3, LeftIsLive
<1>4. Sound(Life, L, s)
  <2> SUFFICES ASSUME NEW k \in DOMAIN s PROVE LiveAt(Life, L, s, s[k].object_id, k)
    BY DEF Sound
  <2>1. k \in 1 .. Len(s) + 1 /\ \A j \in 1 .. k - 1 : j \in DOMAIN s /\ j < k
    BY <1>1
  <2> QED BY <2>1, <1>2
<1> QED BY <1>3, <1>4

\* How many blocks of request r are in the table, the request's metadata, and which
\* blocks may be pinned.
Extent(r) ==
    IF \/ stage \in {"decode", "cold", "commit", "access"}
       \/ stage \in {"schedule", "allocate", "prefill"} /\ r < req
       \/ stage = "prefill" /\ r = req
       \/ stage = "finish" /\ r >= req
    THEN block_counts[r]
    ELSE IF stage = "allocate" /\ r = req THEN n ELSE 0

\* The blocks in the adapter's table.
KnownBlocks == {b \in Blocks : Known(b)}

\* The last two blocks of a request, once all requests are scheduled.
InTail(b) ==
    /\ stage \in {"decode", "cold", "commit", "access", "finish"}
    /\ b[2] >= block_counts[b[1]] - 2

\* The position of the driver.
Driven ==
    /\ req \in Requests /\ n \in Nat
    /\ stage \in {"schedule", "allocate", "prefill", "decode", "cold", "commit", "access",
                  "finish", "done"}
    /\ stage = "allocate" => n < block_counts[req]
    /\ stage \in {"decode", "cold", "commit", "access"} => req = 0

\* The table holds the blocks that the driver has allocated and not yet finished, and
\* only blocks of the decode tail are pinned.
TableFollows ==
    /\ KnownBlocks = {b \in Requests \X Nat : b[2] < Extent(b[1])}
    /\ request_metadata = {r \in Requests : Extent(r) > 0 \/ (stage = "allocate" /\ r = req)}
    /\ \A b \in KnownBlocks : blocks[b].pin_requested => InTail(b)

\* The adapter records events that fit its table, the table follows the driver, and
\* the trace leads the simulator to the table.
MockInvariant == TraceOK /\ Driven /\ TableFollows /\ Leads(KnownBlocks)

\* No block of the table loses its pin.
KeepsPins == \A b \in Blocks : ~ Unpins(b)

\* Requests are numbered from zero.
LEMMA RequestNumbers ==
    /\ Cardinality(Requests) \in Nat \ {0} /\ Requests = 0 .. Cardinality(Requests) - 1
    /\ 0 \in Requests
    /\ \A r \in Requests : /\ block_counts[r] \in Nat \ (0 .. 2)
                           /\ \A k \in 0 .. block_counts[r] - 1 : k \in BlockIds /\ <<r, k>> \in Blocks
<1>1. Cardinality(Requests) \in Nat
  BY MockAssumption, FS_CardinalityType
<1>2. Cardinality(Requests) # 0 /\ 0 \in Requests
  <2> DEFINE c == Cardinality(Requests)
  <2>1. Requests = 0 .. c - 1 /\ Requests # {} /\ c \in Nat
    BY <1>1, MockAssumption
  <2> HIDE DEF c
  <2>2. c # 0
    BY <2>1
  <2>3. 0 \in Requests
    BY <2>1, <2>2
  <2> QED BY <2>2, <2>3 DEF c
<1>3. ASSUME NEW r \in Requests
      PROVE  /\ block_counts[r] \in Nat \ (0 .. 2)
             /\ \A k \in 0 .. block_counts[r] - 1 : k \in BlockIds /\ <<r, k>> \in Blocks
  BY MockAssumption, BlocksAssumption
<1> QED BY <1>1, <1>2, <1>3, MockAssumption

\* The driver starts with nothing.
LEMMA MockStart ==
    ASSUME MockInit
    PROVE  MockInvariant
<1>1. /\ Init /\ trace = <<>> /\ blocks = [b \in Blocks |-> NoIntent] /\ request_metadata = {}
      /\ stage = "schedule" /\ req = 0 /\ n = 0
  BY DEF MockInit, AdapterInit, TablesEmpty
<1>2. KnownBlocks = {}
  BY <1>1 DEF KnownBlocks, Known
<1>3. \A r \in Requests : Extent(r) = 0
  BY <1>1, RequestNumbers DEF Extent
<1>4. TableFollows
  <2>1. {b \in Requests \X Nat : b[2] < Extent(b[1])} = {}
    BY <1>3
  <2>2. {r \in Requests : Extent(r) > 0 \/ (stage = "allocate" /\ r = req)} = {}
    BY <1>1, <1>3
  <2> QED BY <1>1, <1>2, <2>1, <2>2 DEF TableFollows
<1>5. Driven
  BY <1>1, RequestNumbers DEF Driven
<1>6. TraceOK
  <2>1. Events = {}
    BY <1>1 DEF Events
  <2> QED BY <1>1, <2>1, EmptySeq DEF TraceOK
<1>7. Leads(KnownBlocks)
  BY <1>1, <1>2, NothingLive, LeftOfNone DEF Leads
<1> QED BY <1>4, <1>5, <1>6, <1>7 DEF MockInvariant

\* A callback that uses blocks of the table.
LEMMA MockUses ==
    ASSUME TraceOK, Quiescent, Leads(KnownBlocks),
           NEW intents, NEW es \in Seq(MemoryIntentEvent), Record(intents, es),
           \A b \in DOMAIN intents : b \in KnownBlocks /\ intents[b] \in Intents,
           \A k \in DOMAIN es :
              /\ Fits(es[k]) /\ es[k].object_id \in DOMAIN intents
              /\ intents[es[k].object_id] = es[k].intent
              /\ es[k].event_type \notin {"ALLOCATED", "FREED"}
    PROVE  /\ TraceOK' /\ KnownBlocks' = KnownBlocks /\ Leads(KnownBlocks)'
           /\ ~ TakesUnknownBlock
           /\ \A b \in Blocks : blocks'[b] = IF b \in DOMAIN intents THEN intents[b] ELSE blocks[b]
<1>1. /\ TraceOK' /\ UNCHANGED vars /\ trace' = es
      /\ \A b \in Blocks : blocks'[b] = IF b \in DOMAIN intents THEN intents[b] ELSE blocks[b]
  BY RecordFacts DEF Record
<1>2. KnownBlocks' = KnownBlocks
  <2>1. \A b \in Blocks : blocks'[b] # NoIntent <=> blocks[b] # NoIntent
    BY <1>1, IntentIsNotAbsent DEF KnownBlocks, Known
  <2> QED BY <2>1 DEF KnownBlocks, Known
<1> DEFINE K == KnownBlocks
<1>3. \A k \in DOMAIN es : es[k].event_type \notin {"ALLOCATED", "FREED"} /\ es[k].object_id \in K
  OBVIOUS
<1>4. Leads(K) /\ K' = K
  BY <1>2
<1> HIDE DEF K
<1>5. Carries(K, es, K)
  BY <1>3, LeftOfUses DEF Carries
<1>6. live_blocks' = live_blocks
  BY <1>1 DEF vars
<1>7. /\ Sound(Life, live_blocks', trace') /\ Left(Life, live_blocks', trace') = K
      /\ ~ TakesUnknownBlock
  BY <1>1, <1>4, <1>5, <1>6, CallLeads
<1> QED BY <1>1, <1>2, <1>7 DEF Leads, K

\* One event about a block of the table.
LEMMA MockUsesOne ==
    ASSUME TraceOK, Quiescent, Leads(KnownBlocks), NEW b \in KnownBlocks, NEW i \in Intents,
           NEW type \in EventType \ {"ALLOCATED", "FREED"}, RecordOne(type, b, i),
           Fits(Ev(type, b, i))
    PROVE  /\ TraceOK' /\ KnownBlocks' = KnownBlocks /\ Leads(KnownBlocks)'
           /\ ~ TakesUnknownBlock /\ request_metadata' = request_metadata
           /\ \A c \in Blocks : blocks'[c] = IF c = b THEN i ELSE blocks[c]
<1> DEFINE es == <<Ev(type, b, i)>>
           intents == [c \in {b} |-> i]
<1>1. b \in Blocks /\ Known(b)
  BY DEF KnownBlocks
<1>2. Ev(type, b, i) \in MemoryIntentEvent /\ Ev(type, b, i).object_id = b
      /\ Ev(type, b, i).event_type = type /\ Ev(type, b, i).intent = i
  BY <1>1 DEF Ev, MemoryIntentEvent
<1>3. es \in Seq(MemoryIntentEvent) /\ DOMAIN es = {1} /\ es[1] = Ev(type, b, i)
  BY <1>2
<1>4. DOMAIN intents = {b} /\ intents[b] = i
  OBVIOUS
<1>5. Record(intents, es) /\ request_metadata' = DefaultedRequests({b})
  BY DEF RecordOne
<1>6. request_metadata' = request_metadata
  BY <1>1, <1>5 DEF DefaultedRequests
<1> HIDE DEF es, intents
<1>7. \A k \in DOMAIN es :
         /\ Fits(es[k]) /\ es[k].object_id \in DOMAIN intents
         /\ intents[es[k].object_id] = es[k].intent
         /\ es[k].event_type \notin {"ALLOCATED", "FREED"}
  BY <1>2, <1>3, <1>4
<1>8. \A c \in DOMAIN intents : c \in KnownBlocks /\ intents[c] \in Intents
  BY <1>4
<1>9. /\ TraceOK' /\ KnownBlocks' = KnownBlocks /\ Leads(KnownBlocks)'
      /\ ~ TakesUnknownBlock
      /\ \A c \in Blocks : blocks'[c] = IF c \in DOMAIN intents THEN intents[c] ELSE blocks[c]
  BY <1>3, <1>5, <1>7, <1>8, MockUses
<1> QED BY <1>4, <1>6, <1>9

\* A block keeps its pin through accesses and commits.
LEMMA PinIsKept ==
    ASSUME TraceOK, NEW b \in KnownBlocks, NEW phase, NEW priority, NEW critical \in BOOLEAN
    PROVE  get_or_create(b, phase, priority, critical).pin_requested
              = (critical \/ blocks[b].pin_requested)
<1>1. Known(b) /\ blocks[b] \in Intents
  BY DEF TraceOK, KnownBlocks, Known
<1>2. blocks[b] \in MemoryIntent
  BY <1>1, IntentsAssumption
<1> QED BY <1>1, <1>2 DEF get_or_create, MemoryIntent

\* The blocks of a request that is in the table as a whole.
LEMMA WholeRequest ==
    ASSUME TableFollows, NEW r \in Requests, NEW k \in 0 .. block_counts[r] - 1,
           stage \in {"decode", "cold", "commit", "access"} \/ (stage = "prefill" /\ r = req)
    PROVE  <<r, k>> \in KnownBlocks
<1>1. Extent(r) = block_counts[r] /\ k < block_counts[r] /\ k \in Nat
  BY RequestNumbers DEF Extent
<1> QED BY <1>1 DEF TableFollows

\* When neither the blocks of the table nor the extents change, only pins matter.
LEMMA SameTable ==
    ASSUME TableFollows, KnownBlocks' = KnownBlocks, request_metadata' = request_metadata,
           stage # "allocate", stage' # "allocate",
           \A r \in Requests : Extent(r)' = Extent(r),
           \A b \in KnownBlocks : blocks'[b].pin_requested => InTail(b)'
    PROVE  TableFollows'
<1>1. {b \in Requests \X Nat : b[2] < Extent(b[1])'} = {b \in Requests \X Nat : b[2] < Extent(b[1])}
  OBVIOUS
<1>2. {r \in Requests : Extent(r)' > 0 \/ (stage' = "allocate" /\ r = req')}
         = {r \in Requests : Extent(r) > 0 \/ (stage = "allocate" /\ r = req)}
  OBVIOUS
<1> QED BY <1>1, <1>2 DEF TableFollows

\* The driver's actions, one by one.
LEMMA ScheduleRequestStep ==
    ASSUME MockInvariant, ScheduleRequest
    PROVE  MockInvariant' /\ ~ TakesUnknownBlock /\ KeepsPins
<1>1. /\ stage = "schedule" /\ stage' = "allocate" /\ n' = 0 /\ req' = req
      /\ UNCHANGED <<vars, trace, blocks>> /\ request_metadata' = request_metadata \cup {req}
      /\ Quiescent /\ live_blocks' = live_blocks
  BY DEF ScheduleRequest, on_request_scheduled, vars
<1>2. Driven /\ TableFollows /\ TraceOK /\ Leads(KnownBlocks) /\ req \in Requests
  BY DEF MockInvariant, Driven
<1>3. \A r \in Requests : Extent(r)' = Extent(r)
  <2> SUFFICES ASSUME NEW r \in Requests PROVE Extent(r)' = Extent(r)
    OBVIOUS
  <2>1. r \in Int /\ req \in Int
    BY <1>2, RequestNumbers
  <2> QED BY <1>1, <2>1 DEF Extent
<1>4. KnownBlocks' = KnownBlocks
  BY <1>1 DEF KnownBlocks, Known
<1>5. TableFollows'
  <2>1. {b \in Requests \X Nat : b[2] < Extent(b[1])'} = {b \in Requests \X Nat : b[2] < Extent(b[1])}
    BY <1>3
  <2>2. request_metadata' = {r \in Requests : Extent(r)' > 0 \/ (stage' = "allocate" /\ r = req')}
    BY <1>1, <1>2, <1>3 DEF TableFollows
  <2>3. \A b \in KnownBlocks : ~ blocks[b].pin_requested
    BY <1>1, <1>2 DEF TableFollows, InTail
  <2> QED BY <1>1, <1>2, <1>4, <2>1, <2>2, <2>3 DEF TableFollows
<1>6. Driven'
  BY <1>1, <1>2, RequestNumbers DEF Driven
<1>7. TraceOK'
  BY <1>1, <1>2 DEF TraceOK, Events, Fits, MatchesTable
<1>8. Leads(KnownBlocks)'
  BY <1>1, <1>2, <1>4 DEF Leads
<1>9. ~ TakesUnknownBlock
  BY <1>1 DEF TakesUnknownBlock, Quiescent
<1>10. KeepsPins
  BY <1>1 DEF KeepsPins, Unpins
<1> QED BY <1>5, <1>6, <1>7, <1>8, <1>9, <1>10 DEF MockInvariant

\* The next block of the request enters the table.
LEMMA AllocateBlockStep ==
    ASSUME MockInvariant, AllocateBlock
    PROVE  MockInvariant' /\ ~ TakesUnknownBlock /\ KeepsPins
<1> DEFINE b == <<req, n>>
<1>1. /\ stage = "allocate" /\ n' = n + 1 /\ req' = req
      /\ stage' = IF n + 1 = block_counts[req] THEN "prefill" ELSE "allocate"
      /\ \E is_draft \in BOOLEAN : on_block_allocated(b, "PREFILL", is_draft, DefaultSize)
  BY DEF AllocateBlock
<1>2. /\ Driven /\ TableFollows /\ TraceOK /\ Leads(KnownBlocks) /\ req \in Requests /\ n \in Nat
      /\ n < block_counts[req]
  BY <1>1 DEF MockInvariant, Driven
<1>3. b \in Blocks /\ b \notin KnownBlocks /\ req \in Int /\ block_counts[req] \in Nat
  <2>1. n \in 0 .. block_counts[req] - 1 /\ req \in Int /\ block_counts[req] \in Nat
    BY <1>2, RequestNumbers
  <2>2. Extent(req) = n
    BY <1>1, <2>1 DEF Extent
  <2> QED BY <1>2, <2>1, <2>2, RequestNumbers DEF TableFollows
<1> DEFINE i == make_intent("PREFILL", "WARM", FALSE, DefaultSize)
           e == Ev("ALLOCATED", b, i)
           intents == [c \in {b} |-> i]
<1>4. /\ Quiescent /\ Record(intents, <<e>>) /\ request_metadata' = request_metadata \cup {req}
  BY <1>1 DEF on_block_allocated
<1>5. i \in Intents /\ ~ i.pin_requested /\ i.phase = "PREFILL" /\ i.current_tier = "HBM"
  <2> DEFINE phase == "PREFILL"
             priority == "WARM"
  <2>1. phase \in Phase /\ priority \in Priority /\ priority # "DECODE_CRITICAL"
        /\ DefaultSize \in Sizes /\ FALSE \in BOOLEAN
    BY SizesAssumption DEF Phase, Priority
  <2> HIDE DEF phase, priority
  <2>2. PICK pin \in BOOLEAN : ~ pin
    OBVIOUS
  <2>3. /\ make_intent(phase, priority, pin, DefaultSize) \in Intents
        /\ make_intent(phase, priority, pin, DefaultSize).phase = phase
        /\ make_intent(phase, priority, pin, DefaultSize).pin_requested = pin
        /\ make_intent(phase, priority, pin, DefaultSize).current_tier = "HBM"
    BY <2>1, MadeIntent
  <2>4. pin = FALSE
    BY <2>2
  <2> QED BY <2>3, <2>4 DEF phase, priority
<1>6. e \in MemoryIntentEvent /\ e.event_type = "ALLOCATED" /\ e.object_id = b /\ e.intent = i
      /\ Fits(e)
  BY <1>3, <1>5 DEF Ev, MemoryIntentEvent, EventType, Fits
<1>7. DOMAIN intents = {b} /\ intents[b] = i
  OBVIOUS
<1> HIDE DEF i, e, intents
<1> DEFINE es == <<e>>
<1>8. es \in Seq(MemoryIntentEvent) /\ DOMAIN es = {1} /\ es[1] = e
  BY <1>6
<1> HIDE DEF es
<1>9. /\ TraceOK' /\ UNCHANGED vars /\ trace' = es
      /\ \A c \in Blocks : blocks'[c] = IF c \in {b} THEN intents[c] ELSE blocks[c]
  <2>1. \A k \in DOMAIN es : Fits(es[k]) /\ es[k].object_id \in DOMAIN intents
                             /\ intents[es[k].object_id] = es[k].intent
    BY <1>6, <1>7, <1>8
  <2>2. Record(intents, es)
    BY <1>4 DEF es
  <2>3. \A c \in DOMAIN intents : intents[c] \in Intents \cup {NoIntent}
    BY <1>5, <1>7
  <2>4. /\ TraceOK' /\ UNCHANGED vars
        /\ \A c \in Blocks : blocks'[c] = IF c \in DOMAIN intents THEN intents[c] ELSE blocks[c]
    BY <1>2, <1>8, <2>1, <2>2, <2>3, RecordFacts
  <2> QED BY <1>7, <2>2, <2>4 DEF Record
<1>10. KnownBlocks' = KnownBlocks \cup {b}
  <2>1. KnownBlocks' = {c \in Blocks : blocks'[c] # NoIntent}
    BY DEF KnownBlocks, Known
  <2>2. KnownBlocks = {c \in Blocks : blocks[c] # NoIntent}
    BY DEF KnownBlocks, Known
  <2>3. i # NoIntent
    BY <1>5, IntentIsNotAbsent
  <2> HIDE DEF b
  <2> QED BY <1>3, <1>7, <1>9, <2>1, <2>2, <2>3
<1> DEFINE K == KnownBlocks
           M == K \cup {b}
<1>11. Carries(K, es, M)
  <2>1. After(Life, K, e) = M
    BY <1>6 DEF After, Life
  <2>2. e.object_id \notin K
    BY <1>3, <1>6
  <2> HIDE DEF K, M
  <2> QED BY <1>6, <1>8, <2>1, <2>2, LeftOfOne DEF Carries, es
<1>12. Leads(KnownBlocks)' /\ ~ TakesUnknownBlock
  <2>1. Leads(K) /\ live_blocks' = live_blocks /\ KnownBlocks' = M
    BY <1>2, <1>9, <1>10 DEF vars
  <2> HIDE DEF K, M
  <2>2. /\ Sound(Life, live_blocks', trace') /\ Left(Life, live_blocks', trace') = M
        /\ ~ TakesUnknownBlock
    BY <1>4, <1>9, <1>11, <2>1, CallLeads
  <2> QED BY <2>1, <2>2 DEF Leads
<1>13. \A r \in Requests : Extent(r)' = IF r = req THEN n + 1 ELSE Extent(r)
  <2> SUFFICES ASSUME NEW r \in Requests PROVE Extent(r)' = IF r = req THEN n + 1 ELSE Extent(r)
    OBVIOUS
  <2>1. r \in Int
    BY RequestNumbers
  <2> QED BY <1>1, <1>2, <1>3, <2>1 DEF Extent
<1>14. TableFollows'
  <2> DEFINE ext(r) == Extent(r)'
  <2>1. {c \in Requests \X Nat : c[2] < ext(c[1])}
          = {c \in Requests \X Nat : c[2] < Extent(c[1])} \cup {b}
    <3>1. \A r \in Requests : ext(r) = IF r = req THEN n + 1 ELSE Extent(r)
      BY <1>13
    <3>2. Extent(req) = n
      BY <1>1, <1>3 DEF Extent
    <3> HIDE DEF ext
    <3>3. \A c \in Requests \X Nat : c[2] < ext(c[1]) <=> c[2] < Extent(c[1]) \/ c = b
      <4> TAKE c \in Requests \X Nat
      <4>1. c = <<c[1], c[2]>> /\ c[1] \in Requests /\ c[2] \in Nat
        OBVIOUS
      <4>2. CASE c[1] # req
        BY <3>1, <4>1, <4>2
      <4>3. CASE c[1] = req
        <5>1. ext(c[1]) = n + 1 /\ Extent(c[1]) = n /\ (c = b <=> c[2] = n)
          BY <3>1, <3>2, <4>1, <4>3
        <5>2. c[2] < n + 1 <=> c[2] < n \/ c[2] = n
          BY <1>2, <4>1
        <5> QED BY <5>1, <5>2
      <4> QED BY <4>2, <4>3
    <3>4. b \in Requests \X Nat
      BY <1>2
    <3> QED BY <3>3, <3>4
  <2>2. request_metadata' = {r \in Requests : ext(r) > 0 \/ (stage' = "allocate" /\ r = req')}
    <3>1. \A r \in Requests : r # req => (ext(r) > 0 <=> Extent(r) > 0)
      BY <1>13
    <3>2. \A r \in Requests : r = req => ext(r) > 0
      BY <1>2, <1>13
    <3>3. request_metadata' = request_metadata
      BY <1>1, <1>2, <1>4 DEF TableFollows
    <3> HIDE DEF ext
    <3> QED BY <1>1, <1>2, <3>1, <3>2, <3>3 DEF TableFollows
  <2>3. \A c \in KnownBlocks' : ~ blocks'[c].pin_requested
    <3>1. \A c \in KnownBlocks : ~ blocks[c].pin_requested
      BY <1>1, <1>2 DEF TableFollows, InTail
    <3>2. \A c \in KnownBlocks' : c \in Blocks
      BY DEF KnownBlocks
    <3> HIDE DEF b
    <3> QED BY <1>5, <1>7, <1>9, <1>10, <3>1, <3>2
  <2> QED BY <1>2, <1>10, <2>1, <2>2, <2>3 DEF TableFollows
<1>15. Driven'
  BY <1>1, <1>2, <1>3 DEF Driven
<1>16. KeepsPins
  <2> SUFFICES ASSUME NEW c \in Blocks, Known(c), blocks[c].pin_requested PROVE FALSE
    BY DEF KeepsPins, Unpins
  <2> QED BY <1>1, <1>2 DEF TableFollows, InTail, KnownBlocks
<1> QED BY <1>9, <1>12, <1>14, <1>15, <1>16 DEF MockInvariant

\* The first ids of a request, as a list.
LEMMA FirstIds ==
    ASSUME NEW r \in Requests, NEW count \in Nat, count <= block_counts[r], NEW ids,
           ids = IdsUpTo(count)
    PROVE  /\ ids \in Seq(BlockIds) /\ Len(ids) = count
           /\ ListedBlocks(r, ids) = {<<r, k>> : k \in 0 .. count - 1}
           /\ \A j, k \in DOMAIN ids : ids[j] = ids[k] => j = k
<1>1. /\ ids = [k \in 1 .. count |-> k - 1] /\ block_counts[r] \in Nat
      /\ \A k \in 0 .. block_counts[r] - 1 : k \in BlockIds
  BY RequestNumbers DEF IdsUpTo
<1>2. \A k \in 1 .. count : k - 1 \in BlockIds
  BY <1>1
<1>3. ids \in Seq(BlockIds) /\ Len(ids) = count /\ DOMAIN ids = 1 .. count
      /\ \A k \in 1 .. count : ids[k] = k - 1
  BY <1>1, <1>2
<1>4. ListedBlocks(r, ids) = {<<r, k>> : k \in 0 .. count - 1}
  <2>1. ListedBlocks(r, ids) = {<<r, k - 1>> : k \in 1 .. count}
    BY <1>3 DEF ListedBlocks
  <2>2. \A k \in 0 .. count - 1 : k + 1 \in 1 .. count /\ (k + 1) - 1 = k
    OBVIOUS
  <2>3. \A k \in 1 .. count : k - 1 \in 0 .. count - 1
    OBVIOUS
  <2>4. ASSUME NEW k \in 0 .. count - 1 PROVE <<r, k>> \in {<<r, j - 1>> : j \in 1 .. count}
    BY <2>2
  <2> QED BY <2>1, <2>3, <2>4
<1> QED BY <1>3, <1>4

\* The first blocks of a request that is complete are used.
LEMMA PrefillRequestStep ==
    ASSUME MockInvariant, Prefill
    PROVE  MockInvariant' /\ ~ TakesUnknownBlock /\ KeepsPins
<1>1. /\ stage = "prefill" /\ n' = 0
      /\ on_prefill_step(req, IdsUpTo(Min({3, block_counts[req]})))
      /\ stage' = IF LastRequest THEN "decode" ELSE "schedule"
      /\ req' = IF LastRequest THEN 0 ELSE req + 1
  BY DEF Prefill
<1>2. /\ Driven /\ TableFollows /\ TraceOK /\ Leads(KnownBlocks) /\ req \in Requests
  BY DEF MockInvariant, Driven
<1>3. Min({3, block_counts[req]}) = 3 /\ 3 <= block_counts[req] /\ block_counts[req] \in Nat
  <2> DEFINE a == block_counts[req]
  <2>1. a \in Nat /\ 3 <= a /\ 3 \in Int /\ a \in Int
    BY <1>2, RequestNumbers
  <2> HIDE DEF a
  <2>2. Min({3, a}) = IF 3 <= a THEN 3 ELSE a
    BY <2>1, MaxMinOfTwo
  <2> QED BY <2>1, <2>2 DEF a
<1> DEFINE ids == IdsUpTo(3)
           listed == ListedBlocks(req, ids)
           intents == [b \in listed |-> PrefillIntent(b)]
           es == PrefillEvents(req, ids)
<1>4. ids \in Seq(BlockIds) /\ listed = {<<req, k>> : k \in 0 .. 2}
  <2> DEFINE count == 3
  <2>1. count \in Nat /\ count <= block_counts[req]
    BY <1>3
  <2> HIDE DEF count
  <2>2. /\ IdsUpTo(count) \in Seq(BlockIds)
        /\ ListedBlocks(req, IdsUpTo(count)) = {<<req, k>> : k \in 0 .. count - 1}
    BY <1>2, <2>1, FirstIds
  <2> QED BY <2>2 DEF count
<1>5. /\ Quiescent /\ Record(intents, es) /\ request_metadata' = DefaultedRequests(listed)
  BY <1>1, <1>3 DEF on_prefill_step
<1> HIDE DEF ids
<1>6. listed \subseteq KnownBlocks
  <2>1. \A k \in 0 .. 2 : <<req, k>> \in KnownBlocks
    BY <1>1, <1>2, <1>3, WholeRequest
  <2> QED BY <1>4, <2>1
<1>7. /\ es \in Seq(MemoryIntentEvent)
      /\ \A k \in DOMAIN es :
            /\ es[k].event_type = "ACCESSED" /\ es[k].object_id \in listed
            /\ es[k].intent = PrefillIntent(es[k].object_id)
  BY <1>2, <1>4, PrefillFacts
<1>8. \A b \in listed : /\ PrefillIntent(b) \in Intents /\ PrefillIntent(b).phase = "PREFILL"
                        /\ ~ PrefillIntent(b).pin_requested
  BY <1>2, <1>6, CallbackIntents DEF KnownBlocks
<1>9. DOMAIN intents = listed /\ \A b \in listed : intents[b] = PrefillIntent(b)
  OBVIOUS
<1>10. request_metadata' = request_metadata
  BY <1>5, <1>6 DEF DefaultedRequests, KnownBlocks
<1> HIDE DEF listed, intents, es
<1>11. /\ TraceOK' /\ KnownBlocks' = KnownBlocks /\ Leads(KnownBlocks)'
       /\ ~ TakesUnknownBlock
       /\ \A b \in Blocks : blocks'[b] = IF b \in DOMAIN intents THEN intents[b] ELSE blocks[b]
  <2>1. \A k \in DOMAIN es :
           /\ Fits(es[k]) /\ es[k].object_id \in DOMAIN intents
           /\ intents[es[k].object_id] = es[k].intent
           /\ es[k].event_type \notin {"ALLOCATED", "FREED"}
    BY <1>7, <1>8, <1>9 DEF Fits
  <2>2. \A b \in DOMAIN intents : b \in KnownBlocks /\ intents[b] \in Intents
    BY <1>6, <1>8, <1>9
  <2> QED BY <1>2, <1>5, <1>7, <2>1, <2>2, MockUses
<1>12. \A b \in KnownBlocks : ~ blocks[b].pin_requested
  BY <1>1, <1>2 DEF TableFollows, InTail
<1>13. \A b \in KnownBlocks : ~ blocks'[b].pin_requested
  BY <1>8, <1>9, <1>11, <1>12 DEF KnownBlocks
<1>14. Driven' /\ \A r \in Requests : Extent(r)' = Extent(r)
  <2> DEFINE c == Cardinality(Requests)
  <2>1. c \in Nat \ {0} /\ Requests = 0 .. c - 1 /\ (LastRequest <=> req = c - 1)
    BY RequestNumbers DEF LastRequest
  <2> HIDE DEF c
  <2>2. Driven'
    BY <1>1, <1>2, <2>1 DEF Driven
  <2>3. ASSUME NEW r \in Requests PROVE Extent(r)' = Extent(r)
    <3>1. r \in 0 .. c - 1 /\ req \in 0 .. c - 1
      BY <1>2, <2>1
    <3>2. CASE LastRequest
      BY <1>1, <2>1, <3>1, <3>2 DEF Extent
    <3>3. CASE ~ LastRequest
      BY <1>1, <2>1, <3>1, <3>3 DEF Extent
    <3> QED BY <3>2, <3>3
  <2> QED BY <2>2, <2>3
<1>15. TableFollows'
  <2>1. stage # "allocate" /\ stage' # "allocate"
    BY <1>1
  <2> QED BY <1>2, <1>10, <1>11, <1>13, <1>14, <2>1, SameTable
<1>16. KeepsPins
  BY <1>12 DEF KeepsPins, Unpins, KnownBlocks
<1> QED BY <1>11, <1>14, <1>15, <1>16 DEF MockInvariant

\* While the requests run, their extents and their tails stay.
LEMMA RunningSame ==
    ASSUME stage \in {"decode", "cold", "commit", "access"},
           stage' \in {"decode", "cold", "commit", "access"}, req' = req,
           Driven, n' \in Nat
    PROVE  /\ Driven' /\ \A r \in Requests : Extent(r)' = Extent(r)
           /\ \A b : InTail(b)' <=> InTail(b)
BY DEF Driven, Extent, InTail

\* The request that n selects, and its blocks.
LEMMA RoundRobin ==
    ASSUME n \in Nat
    PROVE  DecodeRequest \in Requests
           /\ \A r \in Requests : cold_id(r) \in 0 .. block_counts[r] - 3
<1>1. DecodeRequest \in Requests
  <2> DEFINE c == Cardinality(Requests)
  <2>1. c \in Nat \ {0} /\ Requests = 0 .. c - 1 /\ DecodeRequest = Remainder(n, c)
    BY RequestNumbers DEF DecodeRequest, Remainder
  <2> HIDE DEF c
  <2> QED BY <2>1, RemainderFacts
<1>2. ASSUME NEW r \in Requests PROVE cold_id(r) \in 0 .. block_counts[r] - 3
  <2> DEFINE a == block_counts[r] - 2
  <2>1. a \in Nat \ {0} /\ 1 \in Int /\ a \in Int /\ 1 <= a /\ a - 1 = block_counts[r] - 3
    BY RequestNumbers
  <2>2. cold_id(r) = Remainder(n, Max({1, a}))
    BY DEF cold_id, Remainder
  <2> HIDE DEF a
  <2>3. Max({1, a}) = a
    <3>1. Max({1, a}) = IF 1 >= a THEN 1 ELSE a
      BY <2>1, MaxMinOfTwo
    <3> QED BY <2>1, <3>1
  <2>4. Remainder(n, a) \in 0 .. a - 1
    BY <2>1, RemainderFacts
  <2> QED BY <2>1, <2>2, <2>3, <2>4
<1> QED BY <1>1, <1>2

\* The last two blocks of a request are pinned.
LEMMA DecodeRequestStep ==
    ASSUME MockInvariant, Decode
    PROVE  MockInvariant' /\ ~ TakesUnknownBlock /\ KeepsPins
<1>1. /\ stage = "decode" /\ stage' = "cold" /\ req' = req /\ n' = n
      /\ on_decode_step(DecodeRequest, <<block_counts[DecodeRequest] - 2,
                                         block_counts[DecodeRequest] - 1>>)
  BY DEF Decode
<1>2. /\ Driven /\ TableFollows /\ TraceOK /\ Leads(KnownBlocks) /\ n \in Nat
  BY DEF MockInvariant, Driven
<1>3. PICK r \in Requests : r = DecodeRequest
  BY <1>2, RoundRobin
<1>4. PICK a : a = block_counts[r]
  OBVIOUS
<1>5. a \in Nat \ (0 .. 2) /\ \A k \in 0 .. a - 1 : k \in BlockIds
  BY <1>4, RequestNumbers
<1> DEFINE ids == <<a - 2, a - 1>>
           listed == ListedBlocks(r, ids)
           intents == [b \in listed |-> AccessedIntentOf(b, "DECODE", TRUE)]
<1>6. ids \in Seq(BlockIds) /\ listed = {<<r, a - 2>>, <<r, a - 1>>}
  <2>1. a - 2 \in 0 .. a - 1 /\ a - 1 \in 0 .. a - 1
    BY <1>5
  <2>2. a - 2 \in BlockIds /\ a - 1 \in BlockIds
    BY <1>5, <2>1
  <2>3. DOMAIN ids = {1, 2} /\ ids[1] = a - 2 /\ ids[2] = a - 1
    OBVIOUS
  <2>4. ids \in Seq(BlockIds)
    BY <2>2
  <2> HIDE DEF ids
  <2> QED BY <2>3, <2>4 DEF ListedBlocks
<1> DEFINE es == DecodeEvents(r, ids)
<1>7. /\ Quiescent /\ Record(intents, es) /\ request_metadata' = request_metadata \cup {r}
  BY <1>1, <1>3, <1>4 DEF on_decode_step
<1> HIDE DEF ids, es
<1>8. listed \subseteq KnownBlocks
  <2>1. a - 2 \in 0 .. block_counts[r] - 1 /\ a - 1 \in 0 .. block_counts[r] - 1
    BY <1>4, <1>5
  <2> QED BY <1>1, <1>2, <1>6, <2>1, WholeRequest
<1>9. /\ es \in Seq(MemoryIntentEvent)
      /\ \A k \in DOMAIN es :
            /\ es[k].event_type \in {"MARKED_DECODE_CRITICAL", "ACCESSED"}
            /\ es[k].object_id \in listed
            /\ es[k].intent = AccessedIntentOf(es[k].object_id, "DECODE", TRUE)
  <2>1. TraceOK /\ ids \in Seq(BlockIds)
    BY <1>2, <1>6
  <2> HIDE DEF listed
  <2>2. /\ es \in Seq(MemoryIntentEvent)
        /\ \A k \in DOMAIN es :
              /\ es[k].event_type \in {"MARKED_DECODE_CRITICAL", "ACCESSED"}
              /\ es[k].object_id \in ListedBlocks(r, ids)
              /\ es[k].intent = AccessedIntentOf(es[k].object_id, "DECODE", TRUE)
        /\ \A b \in ListedBlocks(r, ids) :
              \E k \in DOMAIN es : es[k].object_id = b /\ es[k].event_type = "ACCESSED"
    BY <2>1, DecodeFacts DEF es
  <2> QED BY <2>2 DEF listed
<1>10. \A b \in listed : LET g == AccessedIntentOf(b, "DECODE", TRUE)
                         IN  g \in Intents /\ g.phase = "DECODE" /\ g.pin_requested
  BY <1>2, <1>8, CallbackIntents DEF KnownBlocks
<1>11. DOMAIN intents = listed /\ \A b \in listed : intents[b] = AccessedIntentOf(b, "DECODE", TRUE)
  OBVIOUS
<1> HIDE DEF listed, intents
<1>12. /\ TraceOK' /\ KnownBlocks' = KnownBlocks /\ Leads(KnownBlocks)'
       /\ ~ TakesUnknownBlock
       /\ \A b \in Blocks : blocks'[b] = IF b \in listed THEN intents[b] ELSE blocks[b]
  <2>1. \A k \in DOMAIN es :
           /\ Fits(es[k]) /\ es[k].object_id \in DOMAIN intents
           /\ intents[es[k].object_id] = es[k].intent
           /\ es[k].event_type \notin {"ALLOCATED", "FREED"}
    BY <1>9, <1>10, <1>11 DEF Fits
  <2>2. \A b \in DOMAIN intents : b \in KnownBlocks /\ intents[b] \in Intents
    BY <1>8, <1>10, <1>11
  <2>3. /\ TraceOK' /\ KnownBlocks' = KnownBlocks /\ Leads(KnownBlocks)'
        /\ ~ TakesUnknownBlock
        /\ \A b \in Blocks : blocks'[b] = IF b \in DOMAIN intents THEN intents[b] ELSE blocks[b]
    BY <1>2, <1>7, <1>9, <2>1, <2>2, MockUses
  <2> QED BY <1>11, <2>3
<1>13. /\ Driven' /\ \A q \in Requests : Extent(q)' = Extent(q)
       /\ \A b : InTail(b)' <=> InTail(b)
  BY <1>1, <1>2, RunningSame
<1>14. request_metadata' = request_metadata
  <2>1. Extent(r) > 0
    BY <1>1, <1>4, <1>5 DEF Extent
  <2> QED BY <1>2, <1>7, <2>1 DEF TableFollows
<1>15. \A b \in KnownBlocks : blocks'[b].pin_requested => InTail(b)
  <2>1. \A b \in listed : InTail(b)
    <3>1. a - 2 >= block_counts[r] - 2 /\ a - 1 >= block_counts[r] - 2
      BY <1>4, <1>5
    <3> QED BY <1>1, <1>6, <3>1 DEF InTail
  <2>2. \A b \in KnownBlocks : blocks[b].pin_requested => InTail(b)
    BY <1>2 DEF TableFollows
  <2>3. \A b \in KnownBlocks : b \in Blocks
    BY DEF KnownBlocks
  <2> QED BY <1>12, <2>1, <2>2, <2>3
<1>16. TableFollows'
  <2>1. stage # "allocate" /\ stage' # "allocate"
    BY <1>1
  <2>2. \A b \in KnownBlocks : blocks'[b].pin_requested => InTail(b)'
    BY <1>13, <1>15
  <2> QED BY <1>2, <1>12, <1>13, <1>14, <2>1, <2>2, SameTable
<1>17. KeepsPins
  <2>1. \A b \in Blocks : b \notin listed => blocks'[b] = blocks[b]
    BY <1>12
  <2>2. \A b \in Blocks : b \in listed => blocks'[b].pin_requested
    BY <1>10, <1>11, <1>12
  <2> QED BY <2>1, <2>2 DEF KeepsPins, Unpins
<1> QED BY <1>12, <1>13, <1>16, <1>17 DEF MockInvariant

\* A decode step without a commit or an access.
LEMMA IdleStep ==
    ASSUME MockInvariant, Quiescent, UNCHANGED <<vars, trace, blocks, request_metadata>>,
           stage \in {"decode", "cold", "commit", "access"},
           stage' \in {"decode", "cold", "commit", "access"}, req' = req, n' \in Nat
    PROVE  MockInvariant' /\ ~ TakesUnknownBlock /\ KeepsPins
<1>1. /\ Driven /\ TableFollows /\ TraceOK /\ Leads(KnownBlocks)
  BY DEF MockInvariant
<1>2. /\ Driven' /\ \A q \in Requests : Extent(q)' = Extent(q)
      /\ \A c : InTail(c)' <=> InTail(c)
  BY <1>1, RunningSame
<1>3. KnownBlocks' = KnownBlocks /\ live_blocks' = live_blocks
  BY DEF KnownBlocks, Known, vars
<1>4. TableFollows'
  <2>1. \A c \in KnownBlocks : blocks'[c].pin_requested => InTail(c)'
    BY <1>1, <1>2 DEF TableFollows
  <2>2. stage # "allocate" /\ stage' # "allocate"
    OBVIOUS
  <2> QED BY <1>1, <1>2, <1>3, <2>1, <2>2, SameTable
<1>5. TraceOK'
  BY <1>1 DEF TraceOK, Events, Fits, MatchesTable
<1>6. Leads(KnownBlocks)' /\ ~ TakesUnknownBlock
  BY <1>1, <1>3 DEF Leads, TakesUnknownBlock, Quiescent
<1>7. KeepsPins
  BY DEF KeepsPins, Unpins
<1> QED BY <1>2, <1>4, <1>5, <1>6, <1>7 DEF MockInvariant

\* A running request: one event about one of its blocks, which keeps its pin or is
\* not in the decode tail.
LEMMA OneUseStep ==
    ASSUME MockInvariant, Quiescent, stage \in {"decode", "cold", "commit", "access"},
           stage' \in {"decode", "cold", "commit", "access"}, req' = req, n' \in Nat,
           NEW r \in Requests, NEW k \in 0 .. block_counts[r] - 1, NEW i \in Intents,
           NEW type \in EventType \ {"ALLOCATED", "FREED"}, RecordOne(type, <<r, k>>, i),
           Fits(Ev(type, <<r, k>>, i)),
           \/ i.pin_requested = blocks[<<r, k>>].pin_requested
           \/ ~ i.pin_requested /\ k < block_counts[r] - 2
    PROVE  MockInvariant' /\ ~ TakesUnknownBlock /\ KeepsPins
<1>1. /\ Driven /\ TableFollows /\ TraceOK /\ Leads(KnownBlocks)
  BY DEF MockInvariant
<1>2. PICK b : b = <<r, k>>
  OBVIOUS
<1>3. b \in KnownBlocks
  BY <1>1, <1>2, WholeRequest
<1>4. /\ TraceOK' /\ KnownBlocks' = KnownBlocks /\ Leads(KnownBlocks)'
      /\ ~ TakesUnknownBlock /\ request_metadata' = request_metadata
      /\ \A c \in Blocks : blocks'[c] = IF c = b THEN i ELSE blocks[c]
  <2>1. RecordOne(type, b, i) /\ Fits(Ev(type, b, i))
    BY <1>2
  <2> QED BY <1>1, <1>3, <2>1, MockUsesOne
<1>5. /\ Driven' /\ \A q \in Requests : Extent(q)' = Extent(q)
      /\ \A c : InTail(c)' <=> InTail(c)
  BY <1>1, RunningSame
<1>6. \A c \in KnownBlocks : c \in Blocks /\ (blocks[c].pin_requested => InTail(c))
  BY <1>1 DEF TableFollows, KnownBlocks
<1>7. i.pin_requested = blocks[b].pin_requested \/ (~ i.pin_requested /\ ~ InTail(b))
  <2>1. block_counts[r] \in Int /\ b[1] = r /\ b[2] = k
    BY <1>2, RequestNumbers
  <2> QED BY <1>2, <2>1 DEF InTail
<1>8. TableFollows'
  <2>1. stage # "allocate" /\ stage' # "allocate"
    OBVIOUS
  <2>2. \A c \in KnownBlocks : blocks'[c].pin_requested => InTail(c)'
    BY <1>3, <1>4, <1>5, <1>6, <1>7
  <2> QED BY <1>1, <1>4, <1>5, <2>1, <2>2, SameTable
<1>9. KeepsPins
  <2>1. \A c \in Blocks : c # b => blocks'[c] = blocks[c]
    BY <1>4
  <2>2. blocks[b].pin_requested => blocks'[b].pin_requested
    BY <1>3, <1>4, <1>6, <1>7
  <2> QED BY <2>1, <2>2 DEF KeepsPins, Unpins
<1> QED BY <1>4, <1>5, <1>8, <1>9 DEF MockInvariant

\* An old block is marked cold: one outside the tail.
LEMMA MarkColdStep ==
    ASSUME MockInvariant, MarkCold
    PROVE  MockInvariant' /\ ~ TakesUnknownBlock /\ KeepsPins
<1>1. /\ stage = "cold" /\ stage' = "commit" /\ req' = req /\ n' = n
      /\ on_block_marked_cold(<<DecodeRequest, cold_id(DecodeRequest)>>)
      /\ Driven /\ n \in Nat /\ TraceOK /\ TableFollows
  BY DEF MarkCold, MockInvariant, Driven
<1>2. PICK r \in Requests : r = DecodeRequest
  BY <1>1, RoundRobin
<1>3. PICK k \in 0 .. block_counts[r] - 3 : k = cold_id(r)
  BY <1>1, RoundRobin
<1>4. PICK i : i = ColdIntent(<<r, k>>, "IDLE")
  OBVIOUS
<1>5. Quiescent /\ RecordOne("MARKED_COLD", <<r, k>>, i)
  BY <1>1, <1>2, <1>3, <1>4 DEF on_block_marked_cold
<1>6. k \in 0 .. block_counts[r] - 1 /\ k < block_counts[r] - 2
  BY RequestNumbers
<1>7. <<r, k>> \in KnownBlocks
  BY <1>1, <1>6, WholeRequest
<1>8. i \in Intents /\ i.phase = "IDLE" /\ ~ i.pin_requested
  BY <1>1, <1>4, <1>7, CallbackIntents DEF KnownBlocks
<1> DEFINE type == "MARKED_COLD"
<1>9. type \in EventType \ {"ALLOCATED", "FREED"} /\ RecordOne(type, <<r, k>>, i)
      /\ Fits(Ev(type, <<r, k>>, i))
  BY <1>5, <1>8 DEF EventType, Fits, Ev
<1> HIDE DEF type
<1> QED BY <1>1, <1>5, <1>6, <1>8, <1>9, OneUseStep

\* A block is committed in some rounds, and nothing happens in the others.
LEMMA CommitBlockStep ==
    ASSUME MockInvariant, CommitBlock
    PROVE  MockInvariant' /\ ~ TakesUnknownBlock /\ KeepsPins
<1>1. /\ stage = "commit" /\ stage' = "access" /\ req' = req /\ n' = n
      /\ Driven /\ n \in Nat /\ TraceOK /\ TableFollows /\ Leads(KnownBlocks)
  BY DEF CommitBlock, MockInvariant, Driven
<1>2. CASE on_block_committed(<<(n + 1) % Cardinality(Requests), 1>>)
  <2>1. (n + 1) % Cardinality(Requests) \in Requests
    <3> DEFINE c == Cardinality(Requests)
               m == n + 1
    <3>1. c \in Nat \ {0} /\ Requests = 0 .. c - 1 /\ m \in Nat
      BY <1>1, RequestNumbers
    <3>2. (n + 1) % Cardinality(Requests) = Remainder(m, c)
      BY DEF Remainder
    <3> HIDE DEF c, m
    <3> QED BY <3>1, <3>2, RemainderFacts
  <2>2. PICK r \in Requests : r = (n + 1) % Cardinality(Requests)
    BY <2>1
  <2>3. PICK i : i = CommittedIntent(<<r, 1>>)
    OBVIOUS
  <2> DEFINE k == 1
             type == "COMMITTED"
  <2>4. Quiescent /\ RecordOne(type, <<r, k>>, i)
    BY <1>2, <2>2, <2>3 DEF on_block_committed
  <2>5. k \in 0 .. block_counts[r] - 1
    BY RequestNumbers
  <2>6. <<r, k>> \in KnownBlocks
    BY <1>1, <2>5, WholeRequest
  <2>7. i \in Intents /\ i.phase = "VERIFY"
    BY <1>1, <2>3, <2>6, CallbackIntents DEF KnownBlocks
  <2>8. i.pin_requested = blocks[<<r, k>>].pin_requested
    <3>1. get_or_create(<<r, k>>, "VERIFY", "WARM", FALSE).pin_requested
            = (FALSE \/ blocks[<<r, k>>].pin_requested)
      <4> HIDE DEF k
      <4> QED BY <1>1, <2>6, PinIsKept
    <3>2. blocks[<<r, k>>].pin_requested \in BOOLEAN
      <4>1. blocks[<<r, k>>] \in MemoryIntent
        BY <1>1, <2>6, IntentsAssumption DEF TraceOK, KnownBlocks, Known
      <4> QED BY <4>1 DEF MemoryIntent
    <3> QED BY <2>3, <3>1, <3>2 DEF CommittedIntent
  <2>9. type \in EventType \ {"ALLOCATED", "FREED"} /\ Fits(Ev(type, <<r, k>>, i))
    BY <2>7 DEF EventType, Fits, Ev
  <2> HIDE DEF type, k
  <2> QED BY <1>1, <2>4, <2>5, <2>7, <2>8, <2>9, OneUseStep
<1>3. CASE Quiescent /\ UNCHANGED allVars
  <2>1. UNCHANGED <<vars, trace, blocks, request_metadata>>
    BY <1>3 DEF allVars, adapter
  <2>2. stage' \in {"decode", "cold", "commit", "access"} /\ stage \in {"decode", "cold", "commit", "access"}
        /\ n' \in Nat
    BY <1>1
  <2> QED BY <1>1, <1>3, <2>1, <2>2, IdleStep
<1> QED BY <1>2, <1>3 DEF CommitBlock

\* Some block is accessed in some rounds, and keeps its pin.
LEMMA AccessBlockStep ==
    ASSUME MockInvariant, AccessBlock
    PROVE  MockInvariant' /\ ~ TakesUnknownBlock /\ KeepsPins
<1>1. /\ stage = "access" /\ stage' = "decode" /\ req' = req /\ n' = n + 1
      /\ Driven /\ n \in Nat /\ TraceOK /\ TableFollows /\ Leads(KnownBlocks)
  BY DEF AccessBlock, MockInvariant, Driven
<1>2. ASSUME NEW r \in Requests, NEW k \in 0 .. block_counts[r] - 1,
             on_block_accessed(<<r, k>>, "PREFILL", FALSE)
      PROVE  MockInvariant' /\ ~ TakesUnknownBlock /\ KeepsPins
  <2>1. PICK i : i = AccessedIntentOf(<<r, k>>, "PREFILL", FALSE)
    OBVIOUS
  <2> DEFINE type == "ACCESSED"
  <2>2. Quiescent /\ RecordOne(type, <<r, k>>, i)
    BY <1>2, <2>1 DEF on_block_accessed
  <2>3. <<r, k>> \in KnownBlocks
    BY <1>1, WholeRequest
  <2>4. i \in Intents /\ i.phase = "PREFILL"
    <3> DEFINE phase == "PREFILL"
               critical == FALSE
    <3>1. phase \in {"PREFILL", "DECODE"} /\ critical \in BOOLEAN /\ <<r, k>> \in Blocks
      BY <2>3 DEF KnownBlocks
    <3>2. i = AccessedIntentOf(<<r, k>>, phase, critical)
      BY <2>1
    <3> HIDE DEF phase, critical
    <3>3. i \in Intents /\ i.phase = phase
      BY <1>1, <3>1, <3>2, CallbackIntents
    <3> QED BY <3>3 DEF phase
  <2>5. i.pin_requested = blocks[<<r, k>>].pin_requested
    <3>1. get_or_create(<<r, k>>, "PREFILL", "WARM", FALSE).pin_requested
            = (FALSE \/ blocks[<<r, k>>].pin_requested)
      BY <1>1, <2>3, PinIsKept
    <3>2. blocks[<<r, k>>].pin_requested \in BOOLEAN
      <4>1. blocks[<<r, k>>] \in MemoryIntent
        BY <1>1, <2>3, IntentsAssumption DEF TraceOK, KnownBlocks, Known
      <4> QED BY <4>1 DEF MemoryIntent
    <3>3. i = get_or_create(<<r, k>>, "PREFILL", "WARM", FALSE)
      BY <2>1 DEF AccessedIntentOf
    <3> QED BY <3>1, <3>2, <3>3
  <2>6. type \in EventType \ {"ALLOCATED", "FREED"} /\ Fits(Ev(type, <<r, k>>, i))
    BY <2>4 DEF EventType, Fits, Ev
  <2>7. n' \in Nat /\ stage' \in {"decode", "cold", "commit", "access"}
        /\ stage \in {"decode", "cold", "commit", "access"}
    BY <1>1
  <2> HIDE DEF type
  <2> QED BY <1>1, <2>2, <2>4, <2>5, <2>6, <2>7, OneUseStep
<1>3. CASE Quiescent /\ UNCHANGED allVars
  <2>1. UNCHANGED <<vars, trace, blocks, request_metadata>>
    BY <1>3 DEF allVars, adapter
  <2>2. stage' \in {"decode", "cold", "commit", "access"} /\ stage \in {"decode", "cold", "commit", "access"}
        /\ n' \in Nat
    BY <1>1
  <2> QED BY <1>1, <1>3, <2>1, <2>2, IdleStep
<1> QED BY <1>2, <1>3 DEF AccessBlock

\* A request finishes: its blocks leave the table and, in the end, the simulator.
LEMMA FinishRequestStep ==
    ASSUME MockInvariant, FinishRequest
    PROVE  MockInvariant' /\ ~ TakesUnknownBlock /\ KeepsPins
<1>1. /\ stage \in {"decode", "finish"} /\ n' = n
      /\ on_request_finished(req, IdsUpTo(block_counts[req]))
      /\ stage' = IF LastRequest THEN "done" ELSE "finish"
      /\ req' = IF LastRequest THEN req ELSE req + 1
  BY DEF FinishRequest
<1>2. /\ Driven /\ TableFollows /\ TraceOK /\ Leads(KnownBlocks) /\ req \in Requests
      /\ stage = "decode" => req = 0
  BY DEF MockInvariant, Driven
<1>3. PICK a : a = block_counts[req]
  OBVIOUS
<1>4. PICK ids : ids = IdsUpTo(a)
  OBVIOUS
<1>5. a \in Nat \ (0 .. 2) /\ a \in Nat /\ a <= block_counts[req]
  BY <1>2, <1>3, RequestNumbers
<1> DEFINE listed == ListedBlocks(req, ids)
           intents == [b \in listed |-> NoIntent]
           es == FinishEvents(req, ids)
<1>6. /\ ids \in Seq(BlockIds) /\ Len(ids) = a /\ listed = {<<req, k>> : k \in 0 .. a - 1}
      /\ \A j, k \in DOMAIN ids : ids[j] = ids[k] => j = k
  BY <1>2, <1>4, <1>5, FirstIds
<1>7. Quiescent /\ Record(intents, es) /\ request_metadata' = request_metadata \ {req}
  BY <1>1, <1>3, <1>4 DEF on_request_finished
<1> HIDE DEF es
<1>8. /\ es \in Seq(MemoryIntentEvent) /\ DOMAIN es = 1 .. 2 * Len(ids)
      /\ \A k \in DOMAIN es :
            /\ es[k].event_type = IF k % 2 = 1 THEN "MARKED_COLD" ELSE "FREED"
            /\ es[k].object_id = <<req, ids[(k + 1) \div 2]>>
            /\ es[k].object_id \in ListedBlocks(req, ids)
            /\ es[k].intent.phase = "DONE" /\ ~ es[k].intent.pin_requested
      /\ \A b \in ListedBlocks(req, ids) :
            \E k \in DOMAIN es : es[k].object_id = b /\ es[k].event_type = "FREED"
  <2> HIDE DEF listed
  <2>1. TraceOK /\ ids \in Seq(BlockIds) /\ req \in Requests
    BY <1>2, <1>6
  <2> QED BY <2>1, FinishFacts DEF es
<1>9. Extent(req) = a
  <2>1. req \in Int
    BY <1>2, RequestNumbers
  <2> QED BY <1>1, <1>2, <1>3, <2>1 DEF Extent
<1>10. listed \subseteq KnownBlocks
  BY <1>2, <1>6, <1>9 DEF TableFollows
<1>11. DOMAIN intents = listed /\ \A b \in listed : intents[b] = NoIntent
  OBVIOUS
<1>12. DOMAIN ids = 1 .. a
  BY <1>6
<1>13. \A j, k \in DOMAIN es : j < k /\ es[j].event_type = "FREED" => es[j].object_id # es[k].object_id
  <2> SUFFICES ASSUME NEW j \in DOMAIN es, NEW k \in DOMAIN es, j < k, es[j].event_type = "FREED",
                      es[j].object_id = es[k].object_id
               PROVE  FALSE
    OBVIOUS
  <2>1. j \in 1 .. 2 * a /\ k \in 1 .. 2 * a
    BY <1>6, <1>8
  <2>2. (j + 1) \div 2 \in 1 .. a /\ (k + 1) \div 2 \in 1 .. a
    BY <1>5, <2>1, PairIndex
  <2>3. ids[(j + 1) \div 2] = ids[(k + 1) \div 2]
    BY <1>8
  <2>4. (j + 1) \div 2 = (k + 1) \div 2
    BY <1>6, <1>12, <2>2, <2>3
  <2>5. j % 2 # 1
    BY <1>8
  <2>6. (j + 1) \div 2 # (k + 1) \div 2
    <3>1. PICK h \in Nat : j = 2 * h
      BY <2>1, <2>5
    <3>2. (j + 1) \div 2 = h
      BY <3>1
    <3>3. (k + 1) \div 2 >= h + 1
      BY <2>1, <3>1
    <3> QED BY <2>1, <3>1, <3>2, <3>3
  <2> QED BY <2>4, <2>6
<1> HIDE DEF listed, intents
<1>14. /\ TraceOK' /\ UNCHANGED vars /\ trace' = es
       /\ \A b \in Blocks : blocks'[b] = IF b \in listed THEN NoIntent ELSE blocks[b]
  <2>1. \A k \in DOMAIN es :
           /\ Fits(es[k]) /\ es[k].object_id \in DOMAIN intents
           /\ intents[es[k].object_id] = NoIntent /\ es[k].event_type \in {"MARKED_COLD", "FREED"}
    BY <1>8, <1>11 DEF Fits, listed
  <2>2. \A b \in DOMAIN intents : intents[b] \in Intents \cup {NoIntent}
    BY <1>11
  <2>3. /\ TraceOK' /\ UNCHANGED vars
        /\ \A b \in Blocks : blocks'[b] = IF b \in DOMAIN intents THEN intents[b] ELSE blocks[b]
    BY <1>2, <1>7, <1>8, <2>1, <2>2, RecordFacts
  <2> QED BY <1>7, <1>11, <2>3 DEF Record
<1> DEFINE K == KnownBlocks
           M == K \ listed
<1>15. KnownBlocks' = M
  BY <1>14 DEF KnownBlocks, Known
<1>16. Carries(K, es, M)
  <2>1. About(es) = listed
    BY <1>8 DEF About, listed
  <2>2. \A k \in DOMAIN es : es[k].event_type \in {"MARKED_COLD", "FREED"} /\ es[k].object_id \in K
    BY <1>8, <1>10 DEF listed
  <2>3. \A b \in About(es) : \E k \in DOMAIN es : es[k].object_id = b /\ es[k].event_type = "FREED"
    BY <1>8, <2>1 DEF listed
  <2> HIDE DEF K
  <2>4. Left(Life, K, es) = K \ About(es) /\ Sound(Life, K, es)
    BY <1>8, <1>13, <2>2, <2>3, LeftOfReleases
  <2> QED BY <1>8, <2>1, <2>4 DEF Carries
<1>17. Leads(KnownBlocks)' /\ ~ TakesUnknownBlock
  <2>1. Leads(K) /\ live_blocks' = live_blocks /\ KnownBlocks' = M
    BY <1>2, <1>14, <1>15 DEF vars
  <2> HIDE DEF K, M
  <2>2. /\ Sound(Life, live_blocks', trace') /\ Left(Life, live_blocks', trace') = M
        /\ ~ TakesUnknownBlock
    BY <1>7, <1>14, <1>16, <2>1, CallLeads
  <2> QED BY <2>1, <2>2 DEF Leads
<1>18. Driven' /\ stage' # "allocate"
       /\ \A r \in Requests : Extent(r)' = IF r = req THEN 0 ELSE Extent(r)
  <2> DEFINE c == Cardinality(Requests)
  <2>1. c \in Nat \ {0} /\ Requests = 0 .. c - 1 /\ (LastRequest <=> req = c - 1)
    BY RequestNumbers DEF LastRequest
  <2> HIDE DEF c
  <2>2. Driven' /\ stage' # "allocate"
    BY <1>1, <1>2, <2>1 DEF Driven
  <2>3. ASSUME NEW r \in Requests PROVE Extent(r)' = IF r = req THEN 0 ELSE Extent(r)
    <3>1. r \in 0 .. c - 1 /\ req \in 0 .. c - 1
      BY <1>2, <2>1
    <3>2. CASE LastRequest
      BY <1>1, <1>2, <2>1, <3>1, <3>2 DEF Extent
    <3>3. CASE ~ LastRequest
      BY <1>1, <1>2, <2>1, <3>1, <3>3 DEF Extent
    <3> QED BY <3>2, <3>3
  <2> QED BY <2>2, <2>3
<1>19. TableFollows'
  <2> DEFINE ext(r) == Extent(r)'
  <2>0. \A r \in Requests : ext(r) = IF r = req THEN 0 ELSE Extent(r)
    BY <1>18
  <2>1. KnownBlocks = {b \in Requests \X Nat : b[2] < Extent(b[1])}
        /\ request_metadata = {r \in Requests : Extent(r) > 0}
    BY <1>1, <1>2 DEF TableFollows
  <2>2. request_metadata' = {r \in Requests : ext(r) > 0 \/ (stage' = "allocate" /\ r = req')}
    <3> HIDE DEF ext
    <3> QED BY <1>7, <1>18, <2>0, <2>1
  <2>3. M = {b \in Requests \X Nat : b[2] < ext(b[1])}
    <3> HIDE DEF ext
    <3>1. ASSUME NEW b \in Requests \X Nat
          PROVE  b[2] < ext(b[1]) <=> b \in K /\ b \notin listed
      <4>1. b[1] \in Requests /\ b[2] \in Nat /\ b = <<b[1], b[2]>>
        OBVIOUS
      <4>2. b \in K <=> b[2] < Extent(b[1])
        BY <2>1
      <4>3. CASE b[1] # req
        <5>1. b \notin listed
          BY <1>6, <4>1, <4>3
        <5> HIDE DEF K
        <5> QED BY <2>0, <4>1, <4>2, <4>3, <5>1
      <4>4. CASE b[1] = req
        <5>1. ext(b[1]) = 0
          BY <2>0, <4>1, <4>4
        <5>2. b \in K => b[2] < a
          BY <1>9, <4>2, <4>4
        <5>3. b[2] < a => b[2] \in 0 .. a - 1
          BY <1>5, <4>1
        <5>4. b[2] \in 0 .. a - 1 => b \in listed
          BY <1>6, <4>1, <4>4
        <5> QED BY <4>1, <5>1, <5>2, <5>3, <5>4
      <4> QED BY <4>3, <4>4
    <3>2. K \subseteq Requests \X Nat
      BY <2>1
    <3> HIDE DEF K
    <3> QED BY <3>1, <3>2
  <2>4. \A b \in M : blocks'[b].pin_requested => InTail(b)'
    <3> SUFFICES ASSUME NEW b \in M, blocks'[b].pin_requested PROVE InTail(b)'
      OBVIOUS
    <3>1. b \in K /\ b \notin listed /\ b \in Blocks /\ blocks'[b] = blocks[b]
      BY <1>14 DEF KnownBlocks
    <3>2. InTail(b)
      BY <1>2, <3>1 DEF TableFollows
    <3>3. stage' = "finish"
      <4>1. CASE LastRequest
        <5> DEFINE c == Cardinality(Requests)
        <5>1. c \in Nat \ {0} /\ Requests = 0 .. c - 1 /\ req = c - 1
          BY <4>1, RequestNumbers DEF LastRequest
        <5> HIDE DEF c
        <5>2. b[1] \in Requests /\ b[2] \in Nat /\ b[2] < Extent(b[1])
          BY <2>1, <3>1
        <5>3. b[1] # req
          <6>1. b = <<b[1], b[2]>> /\ (b[2] < a => b[2] \in 0 .. a - 1)
            BY <1>5, <2>1, <3>1, <5>2
          <6> QED BY <1>6, <1>9, <3>1, <5>2, <6>1
        <5>4. stage = "finish" => Extent(b[1]) = 0
          BY <5>1, <5>2, <5>3 DEF Extent
        <5>5. stage = "decode" => b[1] = req
          BY <1>2, <5>1, <5>2
        <5> QED BY <1>1, <5>2, <5>3, <5>4, <5>5
      <4>2. CASE ~ LastRequest
        BY <1>1, <4>2
      <4> QED BY <4>1, <4>2
    <3> QED BY <3>2, <3>3 DEF InTail
  <2> QED BY <1>15, <2>2, <2>3, <2>4 DEF TableFollows
<1>20. KeepsPins
  <2>1. \A b \in Blocks : blocks'[b] = NoIntent \/ blocks'[b] = blocks[b]
    BY <1>14
  <2> QED BY <2>1 DEF KeepsPins, Unpins
<1> QED BY <1>14, <1>17, <1>18, <1>19, <1>20 DEF MockInvariant

\* A step of the driver or of the simulator.
LEMMA MockStep ==
    ASSUME MockInvariant, MockNext
    PROVE  MockInvariant' /\ ~ TakesUnknownBlock /\ KeepsPins
<1>1. CASE Drive
  BY <1>1, ScheduleRequestStep, AllocateBlockStep, PrefillRequestStep, DecodeRequestStep, MarkColdStep,
     CommitBlockStep, AccessBlockStep, FinishRequestStep DEF Drive
<1>2. CASE SimulateTrace /\ UNCHANGED driver
  <2>1. /\ Simulate /\ blocks' = blocks /\ request_metadata' = request_metadata
        /\ stage' = stage /\ req' = req /\ n' = n
        /\ Driven /\ TableFollows /\ TraceOK /\ Leads(KnownBlocks)
    BY <1>2 DEF SimulateTrace, adapter, driver, MockInvariant
  <2> DEFINE K == KnownBlocks
  <2>2. K' = K
    BY <2>1 DEF KnownBlocks, Known
  <2>3. Leads(K) /\ trace \in Seq(MemoryIntentEvent)
    BY <2>1 DEF TraceOK
  <2> HIDE DEF K
  <2>4. \A M : Leads(M) => Sound(Life, live_blocks', trace') /\ Left(Life, live_blocks', trace') = M
    BY <2>1, <2>3, SimulateLeads DEF Leads
  <2>5. ~ TakesUnknownBlock
    BY <2>1, <2>3, SimulateLeads
  <2>6. Leads(K)'
    BY <2>2, <2>3, <2>4 DEF Leads
  <2>7. TraceOK'
    <3>1. CASE Replay
      BY <2>1, <3>1, TraceAfterHead DEF Replay
    <3>2. CASE trace' = trace
      BY <2>1, <3>2 DEF TraceOK, Events, Fits, MatchesTable
    <3> QED BY <2>1, <3>1, <3>2 DEF Simulate
  <2>8. Driven' /\ (\A r \in Requests : Extent(r)' = Extent(r)) /\ \A b : InTail(b)' <=> InTail(b)
    BY <2>1 DEF Driven, Extent, InTail
  <2>9. TableFollows'
    <3>1. {b \in Requests \X Nat : b[2] < Extent(b[1])'} = {b \in Requests \X Nat : b[2] < Extent(b[1])}
      BY <2>8
    <3>2. {r \in Requests : Extent(r)' > 0 \/ (stage' = "allocate" /\ r = req')}
            = {r \in Requests : Extent(r) > 0 \/ (stage = "allocate" /\ r = req)}
      BY <2>1, <2>8
    <3>3. KnownBlocks' = KnownBlocks
      BY <2>2 DEF K
    <3> QED BY <2>1, <2>8, <3>1, <3>2, <3>3 DEF TableFollows
  <2>10. KeepsPins
    BY <2>1 DEF KeepsPins, Unpins
  <2> QED BY <2>5, <2>6, <2>7, <2>8, <2>9, <2>10 DEF MockInvariant, K
<1> QED BY <1>1, <1>2 DEF MockNext

\* When every request has finished, nothing is live.
LEMMA MockEnd ==
    ASSUME MockInvariant, Quiescent, stage = "done"
    PROVE  MockReleasesAll
<1>1. TableFollows /\ Leads(KnownBlocks) /\ \A r \in Requests : Extent(r) = 0
  BY DEF MockInvariant, Extent
<1>2. KnownBlocks = {} /\ request_metadata = {}
  BY <1>1 DEF TableFollows
<1>3. live_blocks = {}
  BY <1>1, <1>2, LedTo
<1> QED BY <1>2, <1>3 DEF MockReleasesAll, KnownBlocks

=============================================================================
