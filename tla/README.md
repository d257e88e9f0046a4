# Verification of kv_deadline_scheduler

TLA+ models of the parts of this repository whose correctness is hard to test:
the tier simulator that all policy comparisons rest on, the adapters and
generators that write its traces, the eviction scores, the shared-memory ring of
the Memory Intent ABI, the kernel module that keeps a registry of KV intents
under memory pressure, and the Linux experiments that have several threads,
processes or a kernel to race with. TLC checks the models on small instances;
TLAPS proves the most important facts for every instance. `PROJECT.json` lists the
runs, the mutants, the theorems, the hazards and the source lines behind every
definition.

Paths below are relative to the repository.

## 1. Inventory

| Component | State | Operations | Hard behaviour |
|---|---|---|---|
| Tier simulator (`src/kv_memory_intent/simulator.py`) | `live_blocks`, `hbm_blocks`, `dram_blocks`, counters, latencies | ten event types, `_ensure_hbm_capacity`, `_move_to_hbm`, recency decay | four pieces of state changed by separate statements on many paths; a loop whose end depends on pins and sizes; assignments that bypass validation |
| Intent schema (`schema.py`) | none (records) | `__post_init__`, `copy_with`, scores | validation on every copy, so an error surfaces far from its cause |
| Placement policies (`policies.py`) | none | `choose_victim`, `eviction_score`, `should_prefetch` | twenty additive score terms; who may be a victim |
| Memory Intent ring (`abi/`) | `head`, `tail`, slots in shared memory | `mi_ring_init/push/pop/full/empty` | two processes, plain copies between atomic accesses, wrapping counters |
| `kv_intent_shrinker` (`kernel_patches/`) | linked list, `/proc` files, shrinker | register, unregister, status, count, scan, init, exit | lock and RCU, reclaim racing writers, unload with callbacks pending, integer scores |
| vLLM adapter and plugin (`adapters/vllm_adapter.py`, `integrations/vllm/`) | block table, request table, event list | callbacks per block and request, three hooks of the engine | duplicated, missing, late or reordered callbacks; the adapter's table and the simulator are two copies of the same facts |
| Mock engine (`generate_mock_vllm_trace`) | none | schedule, fill, decode, age, finish | ages blocks of the request that it is decoding |
| Trace importer, proxy and Prometheus adapters, synthetic workload (`trace_importer.py`, `adapters/`, `simulator.py`) | none | input to event list | event order of a request, rounding of block counts, repeated ids, failed requests |
| Speculative policy (`speculative/`) | draft tree, block table, counters | grow, verify, accept, reject | a subtree is committed before it is verified, rejection must take all of it |
| Disaggregated simulator (`disaggregated/`) | none | cost comparison | real-valued arithmetic |
| mm_intent RFC (`kernel_patches/mm_intent_rfc/`) | interval tree under a mutex | register, unregister, lookup, dump, clear | none between its critical sections |
| mm_kv_intent advisor (`kernel_patches/mm_kv_intent/`) | hash table of page ranges under RCU | register, unregister, lookup from reclaim | lookup key differs from insertion key (documented) |
| DAMON scheme and hotness scripts | region lists | classify, report | thresholds |
| userfaultfd experiments (`kernel_vm/experiments/userfaultfd_kv/`) | page map, `block_present`, `fault_count`, statistics, `done` | decode loop, fault handler thread | two threads without a lock, one sleeping in the kernel; stopping a thread that waits for a fault that will not come |
| I/O priority benchmark (`experiments/linux_io_priority/`) | files, result files, worker processes | prepare, start, join, collect | workers that die, half-written files, short writes |
| io_uring experiment (`experiments/io_uring_kv/`) | two rings shared with the kernel | predict, submit, reap | completions in any order, wrapping counters, completions counted without their identity |
| Other experiments, benchmarks, examples, QEMU scripts, CLI, metrics | none | system calls, plots, output | none of their own |

How they interact: adapters and importers produce lists of
`MemoryIntentEvent`; the simulator consumes such a list, calls the policy for
victims and prefetch decisions, and returns a `SimulationResult` that the CLI
and the benchmarks print. The ABI ring carries the same intents between a
serving process and a consumer. The kernel parts receive a subset of the fields
through `/proc` or debugfs and are called by the kernel's reclaim.

What makes each component correct:

* producers of traces: events are about live blocks in the right order, and what
  is live at the end of a trace is what is in use;
* adapter: its table and the simulator agree on pins, sizes, residence and frees,
  whatever callbacks the engine repeats or leaves out;
* scores: more urgency never makes a better victim, and no sum of other terms
  outweighs criticality;
* simulator: the tier sets, the tier field and the live blocks agree; capacity
  pressure spares decode-critical blocks; the loop ends, and ends for a reason;
  the reported numbers are what happened;
* ring: a bounded first-in first-out queue without torn or lost entries;
* shrinker: unique ids, every struct freed once and not under a reader, nothing
  left after unload, reclaim terminates, spares protected intents and follows
  the due times;
* draft tree: no draft outlives the one it continues, and what survives was verified;
* experiments: they end, and what they report is complete.

## 2. Modules

| Module | Models |
|---|---|
| `TierSimulator` | the placement state machine of `KVMemorySimulator` with the placement-relevant part of the schema and the policies |
| `SimulatorAccounting` | extends it with the counters and latencies: each action is the placement action and the bookkeeping of the same lines |
| `TraceReplay` | extends it with `run()` on a queue of events: what the producers of traces are composed with |
| `VllmAdapter` | extends that with the adapter's tables, all callbacks and the plugin's hooks |
| `MockVllmTrace` | the mock engine, which drives the callbacks of `VllmAdapter` in program order |
| `WorkloadTraces` | importer, proxy adapter, Prometheus adapter and synthetic workload, as operators from their input to a trace |
| `SpeculativeDraft` | growth and verification of a draft tree |
| `PlacementPolicies` | the risk score, the five victim scores and `should_prefetch`, exactly |
| `BoundedQueue` | abstract specification of the ring: a bounded queue |
| `MemoryIntentRing` | `abi/memory_intent_ring.c`, one producer, one consumer |
| `KvIntentShrinker` | `kv_intent_shrinker.c`: locking, RCU, life of the structs, load and unload |
| `KvEvictionScore` | its score and the order in which a scan reclaims |
| `Userfaultfd` | the two threads and the kernel's part, common to the next two |
| `KvUffdPrefetch`, `KvUffdMigration` | the two userfaultfd programs |
| `KvIoPriorityBench` | the benchmark's main process and its two workers |
| `KvIoUringPrefetch` | the io_uring reader beside the kernel |
| `TierSimulatorProofs`, `SimulatorAccountingProofs`, `KvIntentShrinkerProofs` | theorems about the module of the same name (section 4) |
| `VllmAdapterProofs` | theorems about `VllmAdapter`, the laws of traces, and the invariant of `MockVllmTrace` |
| `TraceProducersProofs` | theorems about `WorkloadTraces`, `SpeculativeDraft` and their composition with the mock engine in `MCTraceProducers` |
| `ScoresProofs` | theorems about `KvEvictionScore` and `PlacementPolicies` |
| `LinuxExperimentsProofs` | theorems about the four experiments and about `MemoryIntentRing` |
| `DataLemmas` | what the proofs share: sequences and their concatenation, sums over finite sets, remainders |
| `MC...` | constants and symmetry sets for TLC, and compositions for a run |

Definitions marked `mutant` are faulty variants of the definition that follows
them: exchanging one for the other must break the property named in
`PROJECT.json`. No specification uses them.

### TierSimulator

`live_blocks` and `intent` are the keys and the values of the Python dictionary
(`NoIntent` where there is no key), `hbm_blocks` and `dram_blocks` the two sets.
The program is sequential, so an event handler is one action, from its merge
of fields to its last assignment. A handler that calls
`_ensure_hbm_capacity` leaves `pc = "ensure"`; each loop iteration is `EvictOne`,
its two exits are `CapacityExhausted` and `EnsureDone`. `Finish` is the tail of
the loop body of `run()` (recency decay). A `copy_with` that fails validation
is `Raise`: `run()` is over.

Abstractions: the numeric scores are left out, so `choose_victim` returns the
set of blocks from which the policy may choose (all resident ones for LRU,
HotCold and PredictiveHotness; the unpinned ones, if any, for IntentAware and
KVDeadline), and every choice is explored. `urgent` stands for the deadline,
slack and reuse tests of `should_prefetch`. Which fallback tier is first in
`allowed_tiers`, a Python set, is a free choice. Recency is left out, and
whether an event is the first of its step is a free choice in `Finish`.

### SimulatorAccounting

Adds `stats`, the latency of the current event and the sum of latencies. The
trace is cut after `MaxEvents` events, so the model stops there (no deadlock
check).

### TraceReplay and the producers

The code records a whole trace and replays it afterwards. No producer looks at
the simulator, so the model feeds the queue call by call and lets `run()` empty it
before the next call (`Quiescent`): the simulator passes through the same states.
An event that `run()` cannot take, the allocation of a live block where
`Realloc` is false, leaves the replay stuck, and so does a raised exception;
the run over all producers checks for deadlock.

`VllmAdapter` has one action per callback and per hook. The engine is the
environment: it may call anything at any time, repeat it, leave it out, or list
only some of a sequence's blocks. `blocks` is the adapter's dictionary
(`NoIntent` for an absent key), `request_metadata` its keys only. The methods that
build intents (`make_intent`, `get_or_create`, ...) are operators of the same
name. `MockVllmTrace` adds a program counter (`stage`, `req`, `n`) and takes the
same actions.

`WorkloadTraces`: each producer is an operator from its input (requests with token
counts and a status, log entries, samples, synthetic requests) to a sequence of
events. Block counts, sizes and the order of events are exact. The input is
chosen in the initial state.

`SpeculativeDraft`: a draft is its node id; `nodes` maps it to its parent. The
recursion of `resolve()` is the stack `pending`. `current_blocks` is the policy's
table. The random acceptance is a choice.

Known behaviour that these models show and no document excludes: a block marked
cold keeps its pin in the simulator, because `MARKED_COLD` does not copy
`pin_requested`; a finished sequence that lists its active blocks only leaves the
others live for ever; the Prometheus monitor block keeps the size of the first
high sample and is never placed in a tier.

### PlacementPolicies

Every float of `policies.py` and `schema.py` is an integer number of `1/Unit`
(recency in hundredths), where `Unit` is divisible by all divisors that occur.
The state is one block; each action makes it more urgent or more valuable in one
field, so that monotonicity of the scores is an action property. The slack
weights are smaller than the deadline weights, although the comment at
`policies.py:205` calls slack the stronger signal; no promise about an outcome
follows from it, so it is only noted here.

### Experiments

`Userfaultfd`: an access to a page that is missing queues a message and puts the
decode thread to sleep (`faulted`); a copy populates the page and wakes it, or
fails, after which nobody wakes it (`copy_failed`). `UFFDIO_COPY` of a populated
page fails with `EEXIST` and changes nothing. In `KvUffdPrefetch` each access of
either thread to `block_present` and `fault_count` is a step; `main()` returns
without a join, so the printed count may lack the last fault. In
`KvUffdMigration` the flag `done`, the 100 ms timeout of `poll` and the join stop
the handler.

`KvIoPriorityBench`: worker processes may die at any step, also between opening
their result file and filling it; `pwrite` may be short. `KvIoUringPrefetch`: the
kernel takes a prefix of the submissions and completes them in any order; the
buffers of a step are named by `user_data`.

### MemoryIntentRing

`head` and `tail` count modulo `Modulus` (2^64 in the code). Each side is a
small program counter machine: check, copy the first half of the entry, copy
the second half, publish. Splitting the struct copy in two is enough to see a
torn entry. The atomics are the sequentially consistent ones of C11 (the code
uses `atomic_load` and `atomic_store` without an order), so interleaving is the
right semantics; the plain copies are ordered by them as long as no slot is
used by both sides at once, which is `NoSlotRace`. The checks of magic and
version never fail after `mi_ring_init` and are left out. A refused call (full
or empty ring) changes nothing.

### KvIntentShrinker

A critical section of `kv_intent_lock` is one action. `registry` is the list as
the lock's holder sees it; `next` are the pointers that lockless readers
follow, which survive in an unlinked struct. `memory` says what each struct is
used for (free, private to a register call, listed, unlinked, pending in
`call_rcu`). RCU is external: a callback may run once all readers of the moment
of `call_rcu` have left (`waiting`). The removal of a `/proc` file or of the
shrinker waits for the calls in progress, as `remove_proc_entry` and
`unregister_shrinker` do. `unseen` is a history variable for
`StatusReportsAll`. `kv_shrinker_count`, and calls that fail without a change
of state, are stuttering steps. The direct reclaim that `kvzalloc` may enter is a
reclaimer like any other: the lock is not held there.

A callback that outlives the module is `CallbackAfterUnload`, after which the
machine is `"crashed"`. `kv_intent_exit` calls `synchronize_rcu`, which does not
wait for callbacks, so this step is reachable; no document promises otherwise,
so it is recorded as a hazard and not asserted. The same holds of a failed load
(`LoadFailed`) that leaves intents behind which were registered in the meantime.

### KvEvictionScore

The three scored fields of each intent, the clock, and a scan iteration in two
steps: the time is read before the lock is taken. Division rounds towards zero
as in C. The score is an `int` with the range of `IntMax`, which wraps (the
kernel is built with `-fno-strict-overflow`). Unregistration is left out: it
cannot change the order of what remains.

## 3. Runs

| Run | Question | Bounds |
|---|---|---|
| `sim_deadline` | does the deadline policy keep the tier sets consistent, protect decode-critical blocks, and end each loop for a reason? | 3 blocks; a pinned, a cold and a double-sized unpinned intent; HBM and DRAM of 2 units: three blocks overflow both tiers, and exhaustion by pins happens |
| `sim_realloc` | what survives repeated allocation and traces that raise, and does every event finish? | 2 blocks, capacities of 1, intents with and without a second tier, no symmetry |
| `sim_hbm_only` | is a live block's tier always an allowed one? Expected violation | 2 blocks, one HBM-only intent |
| `sim_accounting` | do the reported numbers say what happened? | traces of 5 events over 3 blocks; latencies 1, 10, 100, 1000, so that sums identify their parts |
| `vllm_adapter` | do the adapter's table and the simulator agree, whatever the engine calls? | one request of 2 blocks, 2 sizes, HBM and DRAM of 2 units; callbacks for ever, in any order; requests share nothing but the tiers |
| `producers` | are all traces about live blocks, replayed to their end, and do they leave what is in use? | 2 requests of up to 4 blocks, so that merging, hot tails and short requests occur; 4 decode steps or samples; trees of width 2 and depth 3; capacities below the sum of all blocks |
| `scores` | do the scores order victims by urgency? | 2 intents, deadlines and times around the 10 us rounding, the 5 ms worth of a weight and the 10 ms clamp; for the policies, a value on each side of every threshold |
| `shrinker_score_wraps` | are the most reclaimable entries taken first? Expected violation | 2 intents, an int of 14 bits, times beyond it |
| `ring` | does the ring implement the queue? | 2 entries, 4 slots, counters modulo 8: the counters wrap after two turns of the ring |
| `shrinker` | can writers, readers, reclaim and unload corrupt the registry? | 3 structs, 2 ids, a cold and a hot priority, 2 writers, 2 readers, 1 reclaimer, scans of up to 2 |
| `shrinker_live` | do scans return and unlinked intents get freed? | 2 structs, 1 writer, 2 readers, 1 reclaimer, no symmetry |
| `experiments` | do the four programs end, with complete reports? | 4 blocks and 7 steps (more steps than blocks, so that blocks are touched again); 2 iterations, where results of the first could leak into the second; 4 read steps of 3 blocks over rings of 4 entries with counters that wrap at 8 |

`scores`, `producers` and `experiments` check several components that share nothing but
the way they are checked: the initial state chooses one (`subject`, `producer`,
`program`) and the others stay in their first state.

Two violations are expected, both disagreements between the code and what the
repository says of it:

* `sim_hbm_only`: the capacity loop gives a block that allows only HBM the tier
  NVME (`simulator.py:230`), which `schema.py:92` forbids; the next copy of the
  block raises `ValueError`. The theorem `WellTieredTracesNeverRaise` gives a
  condition under which this cannot happen.
* `shrinker_score_wraps`: the urgency is clamped to `INT_MAX` and then added to
  the weight in an `int` (`kv_intent_shrinker.c:101`). An intent overdue for
  about six hours gets a negative score and is reclaimed last, against "removes
  the most reclaimable metadata entries first" in the module's README. The run
  uses a narrower `int`, so that it happens after milliseconds. The theorem
  `MostReclaimableFirstWhileScoresFit` shows that nothing else is in the way.

Symmetry: the placement model does not tell block ids apart, and structs, ids,
writers and readers of the shrinker are interchangeable. It is used for safety and
action properties only, never with liveness.

Fairness: for the simulator, weak fairness of the loop and of `Finish`: a
sequential program goes on with its own steps. No event has to come. For the
shrinker, weak fairness of the steps of calls that have begun and of RCU
callbacks; no call has to come, and readers and writers may come for ever. For the
experiments, weak fairness of each running thread or main process, of the end of a
worker (its duration is bounded) and of the kernel's completions of reads that
it has taken. A failed page copy, and submissions that the kernel left on the ring,
are excepted from `ExperimentEnds`: there the programs do wait for ever.

Deadlock is checked except where the program really ends: a raised exception,
the end of a bounded trace, an unloaded module, the end of an experiment, a block
that cannot become more urgent.

## 4. Proofs

`TierSimulatorProofs`, for any blocks, intents, capacities and each policy:

* `TypeCorrect`;
* `NoDeadResidentHolds`, `OneTierPerBlockHolds`, from the inductive invariant
  `Residency`. `OneTierPerBlock` is not inductive alone: a block allocated for the first
  time is in neither tier set only because the sets hold live blocks
  (`NoDeadResident`);
* `DecodeCriticalProtected`: no loop iteration displaces a `DECODE_CRITICAL` block.
  `Residency` carries that every such block is pinned, which each handler
  re-establishes in its own way; a victim is then unpinned because the loop
  stops when all candidates are pinned;
* `LoopEndsForAReason`: the loop leaves HBM within capacity or, under the intent
  policies, with nothing but pinned blocks. The loop looks at live resident
  blocks; that these are all resident blocks is `NoDeadResident`;
* `CapacityIsRespected`: under the three recency policies HBM is within its capacity
  between any two events. These policies leave the loop only within capacity, and an event
  that does not enter the loop takes blocks out of HBM at most (`HbmShrinks`), which
  shrinks the sum. The sums need the tier sets to be finite (`Counted`);
* `WellTieredTracesNeverRaise`: if each intent allows HBM and another tier, every
  live block keeps an allowed tier, and no copy fails. The invariant says that
  live blocks inherit this property of the intents.

`DataLemmas` makes sums provable. `_used_bytes` is a fold, a function defined by
recursion over the subsets of a set, and the library's induction theorems cannot be
used (they take an operator as a parameter). So each fact is proved by a least
counterexample: among the finite subsets of a finite set that violate it there is
one with the fewest elements (`MinimalSubset`), and taking an element out of it
contradicts this. That gives that the fold exists and is unique, and what removing
an element or growing the set does to a sum (`SumRemove`, `SumMonotone`).

`SimulatorAccountingProofs`, for traces of any length and any latencies:

* `AccountingRefinesPlacement`: the simulator with its counters implements the
  placement machine, so all theorems above hold of it;
* `LatencyIsExplained`, `OverCapacityIsAlwaysReported`, from `AccountingInvariant`: the
  latency so far, with that of the event in progress, is what the counters explain
  (`LatencyBalance`); the peak is not below what HBM holds once the loop has ended, and a loop that
  ends over capacity has counted an exhaustion (`PeakIsReported`).

`VllmAdapterProofs`, for any requests and blocks, any lists that the engine passes
and every policy:

* `IntentsAlwaysAgree`, `PinnedStaysResident`, `FreedIsGone`, from
  `AdapterInvariant`. The adapter's table changes when a callback records its
  events, the simulator when it takes them, so every part of the invariant says of
  a block that the simulator agrees with the table or that an event still in the
  trace will make it agree. The three properties are the case of an empty trace;
* `AdapterImplementsSimulator`: a callback is a stutter of the simulator, an event of the
  trace one of its steps. `AdapterTracesNeverRaise` follows, because the adapter's
  intents all allow two tiers;
* `DramOverflowsByPreemption`: DRAM grows further over its capacity only by a preemption
  or by a new allocation of a block that sits in DRAM; all other moves to DRAM look
  for room first.

The ring (the second part of `LinuxExperimentsProofs`: a specification of its own,
`RingSpec`), for every capacity and every counter range that it divides (for the code
4096 and 2^64):

* arithmetic of wrapping counters: `DistanceAfterPush`, `DistanceAfterPop`,
  `PositionFromTail`, and `SlotsDiffer`: counters less than a capacity apart use
  different slots, where divisibility is needed;
* `RingTypeCorrect`, `RingWithinCapacity`, `RingNoSlotRace`, from `RingInvariant`:
  the room that a push has found, and the entry that a pop has found, stay
  there until it publishes (`Reserved`), and a copy in progress agrees with its
  slot (`CopiesInProgress`);
* `RingImplementsQueue`: the refinement of `BoundedQueue`, with the slots between
  tail and head as the queue. Writing a slot is a stutter (it is not one of
  them), publishing head appends, retiring tail takes the first.

`TraceProducersProofs`, with the second half of `VllmAdapterProofs` (the laws of traces and
the mock engine), for any requests, token counts, statuses, samples, draft trees
and block counts, any sizes and capacities, and every policy:

* `ProducersRefineSimulator`: the composition of each producer with `run()` implements the
  placement machine, so the theorems about `TierSimulator` hold of every trace;
* `TracesLeaveWhatIsInUse`, `EventsMeetLiveBlocks`, `RequestsAreCovered`,
  `TailsStayCritical`, from `ProducersInvariant`, which has a part for each producer. A
  trace is a sequence computed from the input, of any length. Its effect is stated
  without recursion: a block is live after a list if an event gives it and no
  later event frees it, or if it was live before and no event frees it (`Left`), and a
  list is `Sound` if it allocates what is not live and uses only what is. Both are laws of
  concatenation (`LeftOfTwo`), and a trace made of one list per request or step is
  handled by a table of what is live between the lists (`LeftOfMany`), which the
  proof of each producer gives in closed form. The invariant is that the events still to
  be taken are sound and lead from what is live now to what should be (`Leads`);
  taking one keeps this, and an empty trace is the property. The same algebra,
  with other events as gains and losses, follows the pins of the importer's tails.
  The tails of the synthetic workload need no such table: each event of the trace
  makes blocks of a tail critical or touches none of them (`RespectsTail`);
* the mock engine's part (`MockInvariant`) says for each point of the driver's loops how
  many blocks of each request are in the adapter's table, and that only the last two
  are pinned; the callbacks record events that are sound from the table;
* `NoOrphansEver`, `SurvivorsWereAllVerified`, from `DraftInvariant`. The second is about
  the end of a recursion, so the invariant describes its stack `pending`
  (`Resolving`): it holds, each once, drafts without a verdict whose parents are committed, and every
  draft in the table is committed, on the stack, or below one that is not committed.
  When the stack is empty the last kind is gone too: its eldest would be an orphan.
  A rejection must take a whole subtree for this, so `HeirsAreClan` shows that
  `descendants`, a recursive function, lists exactly what lies below a node, each
  once (`HeirsOnce`): of the nodes for which it would not, take the last.

`KvIntentShrinkerProofs`, for any number of structs, ids, writers, readers and
reclaimers:

* `IdsAreUnique`, `IntentsHaveOneOwner`, `ReadersNeverUseFreed`,
  `ExitLeavesNoIntent`, from `ShrinkerInvariant`. The inductive invariant says that the
  pointers link the list in its order (`Linked`), that every struct off the list
  has one owner, the call that took it (`Owned`), that nothing runs behind an
  interface that is not registered, and none is once the registry has been freed
  (`Quiet`), and, for each reader, that there is a set of structs (its *view*)
  which holds the struct it stands on and the list, is closed under `next`, and in
  which each struct is listed, unlinked, or pending and waiting for this reader
  (`ReadersAreSafe`). The view is needed because an unlinked struct keeps its
  pointer, so that a reader may walk through several structs that are gone; the
  invariant has no history variable, the set is existentially quantified. A
  callback that frees a struct has no reader left to wait for, so the struct is in
  no view, or can be taken out of it;
* `StatusShowsAll`: a status read shows each intent that stays registered while it
  runs. Readers follow `next` without a lock, so the invariant (`AllAhead`) is about
  reachability: what a reader has yet to show lies ahead of it. That a struct
  can be reached is said without recursion: every set that holds the reader's place and is
  closed under `next` holds the struct.

`ScoresProofs`, about the kernel module's score, for any deadlines and times such that no
score leaves int (`ScoresFit`: the clock stays below about six hours for the kernel's
int):

* `DueFirstHolds`, `ColdIsWorthFiveMillisecondsHolds`,
  `MostReclaimableFirstWhileScoresFit`. Under the bound neither the clamp nor the
  wraparound matters (`ScoreWithoutInt`), so the order of reclaim (`BestIsTaken`) is
  an order of rounded remaining times (`DivTenBounds`).

and about the policies' scores, for any values of the fields:

* `UrgencyAlwaysProtects`: a block that becomes more urgent or dearer to lose is
  evicted no sooner by any of the five policies, and keeps its prefetch. The proof
  compares any two blocks of which one is at least as urgent in every field
  (`AtLeastAsUrgent`), independent of the scores; each of the twenty terms keeps
  that order (`EffectiveScore`, `RiskScore`, `IntentScore`, `DeadlineScore`);
* `CriticalBlocksScoreLast`: critical blocks score below -1300, all blocks that are
  neither critical nor pinned above it. The same lemmas carry bounds. They need one
  hypothesis, `SlacksFit`: the term for the slack has no upper limit, so a block that
  is not critical with a very negative slack would score below any bound. Its slack
  is at least -5000 us in the traces that the code makes (`trace_importer.py:65`);
  a trace file written by hand may break this. The inductive invariant
  (`BlockInv`) says that a critical block has its pin.

`LinuxExperimentsProofs`, first for each program, then for the composition that the
run checks, for any number of blocks, steps and iterations:

* `HandlersNeverRace`: the handler copies only the page on which the decode thread
  sleeps. The invariant says that at most one fault is under way and that it is in
  one hand: the kernel's queue, or the handler's (`OneFault`);
* `PrefetchReport`, `MigrationReport`: faults made and faults counted differ by the
  one in that hand; and after `done` was seen, with no fault pending, none can come;
* `BenchReportsWholeResults`: a result file is complete only after its worker has
  ended, and none is left from an earlier iteration (`FilesFollowWorkers`); short
  writes do not move the end of the spill file (`SpillFileKept`);
* `UringStepsReapTheirReads`: the rings are empty between steps (`RingsEmpty`), and
  within one each read that the kernel took is in flight, posted or reaped (`StepTaken`), so
  that as many completions as reads are the completions of all reads. Places on the
  rings are remainders of counters; `RemaindersDiffer` separates places in use.

Assumptions: those named in the modules (`IntentsAssumption`, `CapacityAssumption`,
`PolicyAssumption`, `ReallocAssumption`, `NoIntentAssumption`, `RingAssumption`,
`ScoreAssumption` and the like); TLC evaluates them in every run. `FieldsAssumption`
asks for a widest reuse window, because the block that is least urgent starts with it.
`BlockBoundAssumption` says that `MaxBlocks` bounds what the inputs ask for;
`WorkloadIntentsAssumption` and `DraftIntentsAssumption` that `Intents` has the
intents that the producers make; `MockAssumption` that requests are numbered from
zero, as in the code, with at least three blocks each (the code uses 18, 36 and 44): with
two, the block that the driver ages would be in the decode tail. `Drafts` bounds the node ids: a tree that
would outgrow it stops growing in the model.

Only model-checked: the liveness properties (`EventsFinish`, `ScanTerminates`,
`UnlinkedIsFreed`, `ExperimentEnds`), because fairness and `ENABLED` are out of the
prover's reach; and that each producer comes to its end without a deadlock, which the
`producers` run checks. Every other property that a passing run checks is a
theorem.

## 5. Not modelled

Nothing more of the following can be checked in a way that a test would not:

* the disaggregated simulator (costs over floating-point bandwidths, no state), the
  command line, metrics, report formatting, plotting, the examples and the QEMU
  scripts;
* the madvise, THP and perf experiments: straight-line system calls and timing;
* the DAMON scheme and hotness scripts: one comparison with fixed thresholds each
  (the controller's `main()` raises before its first DAMON step,
  `kv_damon_controller.py:59`);
* the mm_intent RFC patches: each operation is one critical section of one mutex
  that copies its result out, and patch 0003 calls `memory_intent_lookup`, which no
  patch defines;
* the mm_kv_intent patches: a superseded prototype whose README lists the defects
  that a model would show.

In the modelled files: the decision log and percentiles of `simulator.py`, the
JSON conversions of `schema.py`, the texts of `explain_victim_choice`, file reading
and model names in the importer and adapters, the per-model tables of
`kv_estimator.py`, latencies of the experiments. Floating-point rounding (far
below one unit of a score). Weak memory orders do not arise in the ring (see
above); the unsynchronised variables of `kv_uffd_prefetch.c` are modelled as
separate steps in program order. Allocation failure and malformed input in the kernel module change no state.

## 6. Plan

Done: the simulator with its accounting, the ring and its refinement, the
shrinker and its score, the producers of traces composed with the
simulator, the exact policy scores, and the experiments; proofs of every safety
and action property that a run checks.

What would come next: the mm_intent registry once its lookup path from DAMON exists;
the DAMON controller once its loop runs.
