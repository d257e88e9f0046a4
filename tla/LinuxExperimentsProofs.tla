------------------------ MODULE LinuxExperimentsProofs ------------------------
(***************************************************************************)
(* Proofs about the programs in C that run beside the Python system: the   *)
(* Linux experiments, for any number of blocks, steps and iterations,      *)
(* first each program for itself, then the composition of                  *)
(* MCLinuxExperiments, where the program that is chosen runs; and the      *)
(* shared ring of the Memory Intent ABI, a specification of its own        *)
(* (RingSpec), for every capacity and every width of the counters that the *)
(* capacity divides.                                                       *)
(***************************************************************************)
EXTENDS MCLinuxExperiments, MemoryIntentRing, DataLemmas

-----------------------------------------------------------------------------
(***************************************************************************)
(* kv_uffd_prefetch.c: the inductive invariant                             *)
(***************************************************************************)
PrefetchTypeOK ==
    /\ present \in SUBSET BlockIndex
    /\ faulted \in BlockIndex \cup {None}
    /\ step \in Nat /\ faults \in Nat /\ fault_count \in Nat
    /\ main_pc \in {"predict", "copy", "mark", "decode", "sleep", "exit"}
    /\ handler_pc \in {"poll", "copy", "mark", "count"}
    /\ block \in BlockIndex \cup {None}
    /\ handler_pc # "poll" => block \in BlockIndex
    /\ last_block \in BlockIndex

\* What either thread is about to mark.
MarkFollowsCopy ==
    /\ MarkedIsPopulated
    /\ main_pc = "mark" /\ ~ copy_failed => predicted \in present
    /\ handler_pc = "mark" => block \in present

\* A fault whose copy failed leaves the handler nothing to do any more.
PrefetchInHand == Len(msgs) + (IF handler_pc = "poll" THEN 0 ELSE 1)

PrefetchCounted ==
    /\ \/ faults = fault_count + PrefetchInHand
       \/ /\ faults = fault_count + PrefetchInHand + 1
          /\ copy_failed /\ faulted # None
          /\ msgs = <<>> /\ handler_pc = "poll"
    /\ main_pc = "exit" => reported \in {faults - 1, faults}

PrefetchInv == PrefetchTypeOK /\ OneFault /\ MarkFollowsCopy /\ PrefetchCounted

\* The prediction wraps within the blocks of the region.
LEMMA PredictedIsBlock ==
    ASSUME last_block \in BlockIndex, NEW k \in Nat
    PROVE  (last_block + k) % NUM_BLOCKS \in BlockIndex
BY UffdAssumption DEF BlockIndex

\* No block is populated and no fault is pending.
LEMMA PrefetchInvInit == PrefetchInit => PrefetchInv
<1> SUFFICES ASSUME PrefetchInit
             PROVE  PrefetchInv
  OBVIOUS
<1> USE DEF PrefetchInit, setup_uffd
<1>1. PrefetchTypeOK
  BY UffdAssumption DEF PrefetchTypeOK, BlockIndex
<1>2. OneFault
  BY DEF OneFault, HandlerCopiesForSleeper
<1>3. MarkFollowsCopy
  BY DEF MarkFollowsCopy, MarkedIsPopulated
<1>4. PrefetchCounted
  BY DEF PrefetchCounted, PrefetchInHand
<1> QED
  BY <1>1, <1>2, <1>3, <1>4 DEF PrefetchInv

-----------------------------------------------------------------------------
(***************************************************************************)
(* Each step                                                               *)
(***************************************************************************)
\* main() predicts a block and looks whether it is marked.
LEMMA PredictStep ==
    ASSUME PrefetchInv, Predict
    PROVE  PrefetchInv'
<1> USE DEF PrefetchInv, Predict, uffd, handlerVars
<1>1. PrefetchTypeOK'
  BY DEF PrefetchTypeOK
<1>2. OneFault'
  BY DEF OneFault, HandlerCopiesForSleeper
<1>3. MarkFollowsCopy'
  BY DEF MarkFollowsCopy, MarkedIsPopulated
<1>4. PrefetchCounted'
  BY DEF PrefetchCounted, PrefetchInHand
<1> QED
  BY <1>1, <1>2, <1>3, <1>4

\* Whatever becomes of the copy, no thread sleeps.
LEMMA PrefetchCopyStep ==
    ASSUME PrefetchInv, Prefetch
    PROVE  PrefetchInv'
<1> USE DEF PrefetchInv, Prefetch, CopySucceeds, CopyFails, handlerVars, prefetchVars
<1>1. faulted = None /\ faulted' = None
  BY DEF OneFault
<1>2. predicted \in BlockIndex
  BY PredictedIsBlock DEF PrefetchTypeOK, predicted
<1>3. PrefetchTypeOK'
  BY <1>1, <1>2 DEF PrefetchTypeOK
<1>4. OneFault'
  BY <1>1 DEF OneFault, HandlerCopiesForSleeper
<1>5. predicted' = predicted
  BY DEF predicted
<1>6. MarkFollowsCopy'
  BY <1>5 DEF MarkFollowsCopy, MarkedIsPopulated, PrefetchTypeOK
<1>7. PrefetchCounted'
  BY <1>1 DEF PrefetchCounted, PrefetchInHand, PrefetchTypeOK
<1> QED
  BY <1>3, <1>4, <1>6, <1>7

\* main() marks a block after its copy: it populated the block or found it so,
\* unless it failed.
LEMMA MarkPrefetchedStep ==
    ASSUME PrefetchInv, MarkPrefetched
    PROVE  PrefetchInv'
<1> USE DEF PrefetchInv, MarkPrefetched, uffd, handlerVars, prefetchVars
<1>1. PrefetchTypeOK'
  BY DEF PrefetchTypeOK
<1>2. OneFault'
  BY DEF OneFault, HandlerCopiesForSleeper
<1>3. MarkFollowsCopy'
  BY DEF MarkFollowsCopy, MarkedIsPopulated
<1>4. PrefetchCounted'
  BY DEF PrefetchCounted, PrefetchInHand
<1> QED
  BY <1>1, <1>2, <1>3, <1>4

\* The decode thread was awake, so that no message is in the queue yet.
LEMMA PrefetchDecodeStep ==
    ASSUME PrefetchInv, PrefetchDecode
    PROVE  PrefetchInv'
<1>1. last_block' \in BlockIndex
  BY PredictedIsBlock DEF PrefetchInv, PrefetchTypeOK, PrefetchDecode
<1>d. /\ main_pc = "decode" /\ Access(last_block')
      /\ main_pc' = IF last_block' \in present THEN "predict" ELSE "sleep"
      /\ UNCHANGED <<handlerVars, block_present, fault_count, reported>>
  BY DEF PrefetchDecode
<1> USE <1>d DEF PrefetchInv, handlerVars
<1>2. msgs = <<>> /\ faulted = None /\ handler_pc # "copy"
  BY DEF OneFault, HandlerCopiesForSleeper
<1>3. CASE last_block' \in present
  <2>1. PrefetchTypeOK'
    BY <1>1, <1>3 DEF PrefetchTypeOK, Access, uffd
  <2>2. OneFault'
    BY <1>2, <1>3 DEF OneFault, HandlerCopiesForSleeper, Access, uffd
  <2>3. MarkFollowsCopy'
    BY <1>3 DEF MarkFollowsCopy, MarkedIsPopulated, Access, uffd
  <2>4. PrefetchCounted'
    BY <1>3 DEF PrefetchCounted, PrefetchInHand, Access, uffd
  <2> QED
    BY <2>1, <2>2, <2>3, <2>4
<1>4. CASE last_block' \notin present
  <2>1. msgs' = <<last_block'>> /\ faulted' = last_block'
    BY <1>2, <1>4 DEF Access
  <2>2. PrefetchTypeOK'
    BY <1>1, <1>4, <2>1 DEF PrefetchTypeOK, Access, uffd
  <2>3. OneFault'
    BY <1>1, <1>2, <1>4, <2>1, UffdAssumption
       DEF OneFault, HandlerCopiesForSleeper, Access, uffd
  <2>4. MarkFollowsCopy'
    BY <1>4 DEF MarkFollowsCopy, MarkedIsPopulated, Access, uffd
  <2>5. PrefetchCounted'
    BY <1>2, <1>4, <2>1 DEF PrefetchCounted, PrefetchInHand, Access, uffd, PrefetchTypeOK
  <2> QED
    BY <2>2, <2>3, <2>4, <2>5
<1> QED
  BY <1>3, <1>4

\* The sleeper goes on when its page is there.
LEMMA PrefetchResumeStep ==
    ASSUME PrefetchInv, PrefetchResume
    PROVE  PrefetchInv'
<1> USE DEF PrefetchInv, PrefetchResume, AccessAgain, uffd, handlerVars, prefetchVars
<1>1. PrefetchTypeOK'
  BY DEF PrefetchTypeOK
<1>2. OneFault'
  BY UffdAssumption DEF OneFault, HandlerCopiesForSleeper, PrefetchTypeOK
<1>3. MarkFollowsCopy'
  BY DEF MarkFollowsCopy, MarkedIsPopulated
<1>4. PrefetchCounted'
  BY DEF PrefetchCounted, PrefetchInHand
<1> QED
  BY <1>1, <1>2, <1>3, <1>4

\* What the handler still has in hand is one fault at most.
LEMMA ReportStep ==
    ASSUME PrefetchInv, Report
    PROVE  PrefetchInv'
<1> USE DEF PrefetchInv, Report, uffd, handlerVars
<1>1. PrefetchTypeOK'
  BY DEF PrefetchTypeOK
<1>2. OneFault'
  BY DEF OneFault, HandlerCopiesForSleeper
<1>3. MarkFollowsCopy'
  BY DEF MarkFollowsCopy, MarkedIsPopulated
<1>4. PrefetchCounted'
  BY DEF PrefetchCounted, PrefetchInHand, OneFault, PrefetchTypeOK
<1> QED
  BY <1>1, <1>2, <1>3, <1>4

\* The message says on which block the decode thread sleeps.
LEMMA ReadFaultStep ==
    ASSUME PrefetchInv, PrefetchReadFault
    PROVE  PrefetchInv'
<1> USE DEF PrefetchInv, PrefetchReadFault, ReadFault, decodeVars, prefetchVars
<1>1. msgs = <<faulted>> /\ faulted # None /\ Head(msgs) = faulted /\ Tail(msgs) = <<>>
  <2>1. msgs = <<faulted>> /\ faulted # None
    BY DEF OneFault
  <2> QED
    BY <2>1
<1>2. PrefetchTypeOK'
  BY <1>1 DEF PrefetchTypeOK
<1>3. OneFault'
  BY <1>1 DEF OneFault, HandlerCopiesForSleeper
<1>4. MarkFollowsCopy'
  BY DEF MarkFollowsCopy, MarkedIsPopulated, predicted
<1>5. PrefetchCounted'
  BY <1>1 DEF PrefetchCounted, PrefetchInHand
<1> QED
  BY <1>2, <1>3, <1>4, <1>5

\* The handler populates the page that main() sleeps on and wakes it, or fails to.
LEMMA HandlerCopyStep ==
    ASSUME PrefetchInv, PrefetchHandlerCopy
    PROVE  PrefetchInv'
<1> USE DEF PrefetchInv, PrefetchHandlerCopy, CopyPage, page_addr, decodeVars, prefetchVars
<1>1. /\ msgs = <<>> /\ main_pc = "sleep" /\ faulted = block
      /\ block \notin present /\ block \in BlockIndex
  BY DEF OneFault, HandlerCopiesForSleeper, PrefetchTypeOK
<1>2. CASE CopySucceeds(block) /\ handler_pc' = "mark"
  <2> USE DEF CopySucceeds
  <2>1. PrefetchTypeOK'
    BY <1>1, <1>2 DEF PrefetchTypeOK
  <2>2. OneFault'
    BY <1>1, <1>2 DEF OneFault, HandlerCopiesForSleeper
  <2>3. MarkFollowsCopy'
    BY <1>1, <1>2 DEF MarkFollowsCopy, MarkedIsPopulated
  <2>4. PrefetchCounted'
    BY <1>1, <1>2 DEF PrefetchCounted, PrefetchInHand
  <2> QED
    BY <2>1, <2>2, <2>3, <2>4
<1>3. CASE CopyFails(block) /\ handler_pc' = "poll"
  <2> USE DEF CopyFails
  <2>1. PrefetchTypeOK'
    BY <1>1, <1>3 DEF PrefetchTypeOK
  <2>2. OneFault'
    BY <1>1, <1>3 DEF OneFault, HandlerCopiesForSleeper
  <2>3. MarkFollowsCopy'
    BY <1>1, <1>3 DEF MarkFollowsCopy, MarkedIsPopulated
  <2>4. copy_failed'
    BY <1>1, <1>3
  <2>5. PrefetchCounted'
    BY <1>1, <1>3, <2>4, UffdAssumption DEF PrefetchCounted, PrefetchInHand, PrefetchTypeOK
  <2> QED
    BY <2>1, <2>2, <2>3, <2>5
<1> QED
  BY <1>2, <1>3

\* The handler marks the block that it has populated.
LEMMA HandlerMarkStep ==
    ASSUME PrefetchInv, HandlerMark
    PROVE  PrefetchInv'
<1> USE DEF PrefetchInv, HandlerMark, uffd, decodeVars, prefetchVars
<1>1. PrefetchTypeOK'
  BY DEF PrefetchTypeOK
<1>2. OneFault'
  BY DEF OneFault, HandlerCopiesForSleeper
<1>3. MarkFollowsCopy'
  BY DEF MarkFollowsCopy, MarkedIsPopulated, predicted
<1>4. PrefetchCounted'
  BY DEF PrefetchCounted, PrefetchInHand
<1> QED
  BY <1>1, <1>2, <1>3, <1>4

\* The handler counts a fault once, after its mark.
LEMMA HandlerCountStep ==
    ASSUME PrefetchInv, HandlerCount
    PROVE  PrefetchInv'
<1> USE DEF PrefetchInv, HandlerCount, Running, uffd, decodeVars, prefetchVars
<1>1. PrefetchTypeOK'
  BY DEF PrefetchTypeOK
<1>2. OneFault'
  BY DEF OneFault, HandlerCopiesForSleeper
<1>3. MarkFollowsCopy'
  BY DEF MarkFollowsCopy, MarkedIsPopulated, predicted
<1>4. PrefetchCounted'
  BY DEF PrefetchCounted, PrefetchInHand, PrefetchTypeOK, OneFault
<1> QED
  BY <1>1, <1>2, <1>3, <1>4
-----------------------------------------------------------------------------
(***************************************************************************)
(* The theorems                                                            *)
(***************************************************************************)
\* Both threads together, and steps that change nothing of theirs.
LEMMA PrefetchInvStep ==
    ASSUME PrefetchInv, [PrefetchNext]_pvars
    PROVE  PrefetchInv'
<1>1. CASE UNCHANGED pvars
  <2>1. UNCHANGED <<present, faulted, msgs, copy_failed, step, main_pc, faults,
                    handler_pc, block, block_present, fault_count, last_block, reported>>
    BY <1>1 DEF pvars, uffd, decodeVars, handlerVars, prefetchVars
  <2> QED
    BY <2>1 DEF PrefetchInv, PrefetchTypeOK, OneFault, MarkFollowsCopy, PrefetchCounted, PrefetchInHand,
                HandlerCopiesForSleeper, MarkedIsPopulated, predicted
<1>2. CASE PrefetchMain
  BY <1>2, PredictStep, PrefetchCopyStep, MarkPrefetchedStep, PrefetchDecodeStep,
     PrefetchResumeStep, ReportStep DEF PrefetchMain
<1>3. CASE PrefetchHandler
  BY <1>3, ReadFaultStep, HandlerCopyStep, HandlerMarkStep, HandlerCountStep
     DEF PrefetchHandler
<1> QED
  BY <1>1, <1>2, <1>3 DEF PrefetchNext

\* At most one fault is under way, marked blocks are populated, and a fault that
\* has been served is counted or still in the handler's hand, until a copy fails.
THEOREM PrefetchInvariant == PrefetchSpec => []PrefetchInv
<1>1. PrefetchInit => PrefetchInv
  BY PrefetchInvInit
<1>2. PrefetchInv /\ [PrefetchNext]_pvars => PrefetchInv'
  BY PrefetchInvStep
<1> QED
  BY <1>1, <1>2, PTL DEF PrefetchSpec

\* Though both threads copy pages, the handler of kv_uffd_prefetch.c never copies
\* one that the decode thread may copy too.
THEOREM PrefetchHandlerNeverRaces == PrefetchSpec => []HandlerCopiesForSleeper
<1>1. PrefetchInv => HandlerCopiesForSleeper
  BY DEF PrefetchInv, OneFault
<1> QED
  BY <1>1, PrefetchInvariant, PTL

\* block_present, which two threads write without a lock, never promises a page
\* that is not there, unless a copy failed.
THEOREM PrefetchMarksPopulated == PrefetchSpec => []MarkedIsPopulated
<1>1. PrefetchInv => MarkedIsPopulated
  BY DEF PrefetchInv, MarkFollowsCopy
<1> QED
  BY <1>1, PrefetchInvariant, PTL

\* The printed fault count of kv_uffd_prefetch.c lacks the last fault at most.
THEOREM PrefetchCountsFaults == PrefetchSpec => []FaultsCounted
<1>1. PrefetchInv => FaultsCounted
  BY DEF PrefetchInv, PrefetchCounted, PrefetchInHand, FaultsCounted, OneFault
<1> QED
  BY <1>1, PrefetchInvariant, PTL

-----------------------------------------------------------------------------
(***************************************************************************)
(* kv_uffd_migration.c: the inductive invariant                            *)
(***************************************************************************)
MigrationTypeOK ==
    /\ present \in SUBSET BlockIndex
    /\ faulted \in BlockIndex \cup {None}
    /\ step \in Nat /\ faults \in Nat
    /\ migration_count \in Nat /\ latency_count \in Nat
    /\ main_pc \in {"decode", "sleep", "join", "exit"}
    /\ handler_pc \in {"test", "poll", "copy", "record", "ended"}
    /\ handler_pc \in {"copy", "record"} => block \in BlockIndex

\* The handler ends only behind the flag, and main() raises it when awake.
StopOrder ==
    /\ handler_pc = "ended" => done = TRUE
    /\ done = TRUE => main_pc \in {"join", "exit"}
    /\ main_pc = "exit" => handler_pc = "ended"

MigrationInHand == Len(msgs) + (IF handler_pc \in {"copy", "record"} THEN 1 ELSE 0)

\* A fault whose copy failed keeps main() asleep.
MigrationCounted ==
    \/ faults = migration_count + MigrationInHand
    \/ /\ faults = migration_count + MigrationInHand + 1
       /\ faulted # None /\ msgs = <<>> /\ handler_pc \notin {"copy", "record"}

\* Every fault belongs to a step, so that the array of latencies has room.
RoomForLatency ==
    /\ latency_count = migration_count
    /\ faults <= step + (IF main_pc = "sleep" THEN 1 ELSE 0)
    /\ step <= DECODE_STEPS
    /\ main_pc = "sleep" => step < DECODE_STEPS

\* What is populated is marked, but for what the handler is about to record.
Recorded ==
    /\ IsFiniteSet(block_migrated)
    /\ Cardinality(block_migrated) = migration_count
    /\ handler_pc = "record" =>
          present = block_migrated \cup {block} /\ block \notin block_migrated
    /\ handler_pc # "record" => present = block_migrated

MigrationInv ==
    MigrationTypeOK /\ OneFault /\ StopOrder /\ MigrationCounted /\ RoomForLatency /\ Recorded

\* No block is populated and the handler has not looked at done yet.
LEMMA MigrationInvInit == MigrationInit => MigrationInv
<1> SUFFICES ASSUME MigrationInit
             PROVE  MigrationInv
  OBVIOUS
<1> USE DEF MigrationInit, setup_uffd
<1>1. MigrationTypeOK
  BY UffdAssumption DEF MigrationTypeOK, BlockIndex
<1>2. OneFault
  BY DEF OneFault, HandlerCopiesForSleeper
<1>3. StopOrder
  BY DEF StopOrder
<1>4. MigrationCounted
  BY DEF MigrationCounted, MigrationInHand
<1>5. RoomForLatency
  BY UffdAssumption DEF RoomForLatency
<1>6. Recorded
  BY FS_EmptySet DEF Recorded
<1> QED
  BY <1>1, <1>2, <1>3, <1>4, <1>5, <1>6 DEF MigrationInv

-----------------------------------------------------------------------------
(***************************************************************************)
(* Each step of main()                                                     *)
(***************************************************************************)
\* main() was awake, so that no message is in the queue yet.
LEMMA MigrationDecodeStep ==
    ASSUME MigrationInv, MigrationDecode
    PROVE  MigrationInv'
<1>1. PICK b \in BlockIndex :
          Access(b) /\ main_pc' = IF b \in present THEN "decode" ELSE "sleep"
  BY DEF MigrationDecode
<1>2. /\ main_pc = "decode" /\ step < DECODE_STEPS
      /\ UNCHANGED <<handlerVars, statistics, done>>
  BY DEF MigrationDecode
<1> USE <1>1, <1>2 DEF MigrationInv, handlerVars, statistics
<1>3. msgs = <<>> /\ faulted = None /\ handler_pc # "copy"
  BY DEF OneFault, HandlerCopiesForSleeper
<1>4. done # TRUE /\ handler_pc # "ended"
  BY DEF StopOrder
<1>5. StopOrder'
  BY <1>4 DEF StopOrder
<1>6. CASE b \in present
  <2> USE <1>6 DEF Access, uffd
  <2>1. MigrationTypeOK'
    BY DEF MigrationTypeOK
  <2>2. OneFault'
    BY <1>3 DEF OneFault, HandlerCopiesForSleeper
  <2>3. MigrationCounted'
    BY DEF MigrationCounted, MigrationInHand
  <2>4. RoomForLatency'
    BY UffdAssumption DEF RoomForLatency, MigrationTypeOK
  <2>5. Recorded'
    BY DEF Recorded
  <2> QED
    BY <1>5, <2>1, <2>2, <2>3, <2>4, <2>5
<1>7. CASE b \notin present
  <2> USE <1>7 DEF Access
  <2>1. msgs' = <<b>> /\ faulted' = b
    BY <1>3
  <2>2. MigrationTypeOK'
    BY <2>1 DEF MigrationTypeOK
  <2>3. OneFault'
    BY <1>3, <2>1, UffdAssumption DEF OneFault, HandlerCopiesForSleeper
  <2>4. MigrationCounted'
    BY <1>3, <2>1 DEF MigrationCounted, MigrationInHand, MigrationTypeOK
  <2>5. RoomForLatency'
    BY UffdAssumption DEF RoomForLatency, MigrationTypeOK
  <2>6. Recorded'
    BY DEF Recorded
  <2> QED
    BY <1>5, <2>2, <2>3, <2>4, <2>5, <2>6
<1> QED
  BY <1>6, <1>7

\* main() wakes up only when its fault has been copied, so that none was lost.
LEMMA MigrationResumeStep ==
    ASSUME MigrationInv, MigrationResume
    PROVE  MigrationInv'
<1> USE DEF MigrationInv, MigrationResume, AccessAgain, uffd, handlerVars, statistics
<1>1. MigrationTypeOK'
  BY DEF MigrationTypeOK
<1>2. OneFault'
  BY UffdAssumption DEF OneFault, HandlerCopiesForSleeper, MigrationTypeOK
<1>3. StopOrder'
  BY DEF StopOrder
<1>4. MigrationCounted'
  BY DEF MigrationCounted, MigrationInHand
<1>5. RoomForLatency'
  BY UffdAssumption DEF RoomForLatency, MigrationTypeOK
<1>6. Recorded'
  BY DEF Recorded
<1> QED
  BY <1>1, <1>2, <1>3, <1>4, <1>5, <1>6
\* done is set when main() has touched its last block, so that no fault is left.
LEMMA StopStep ==
    ASSUME MigrationInv, Stop
    PROVE  MigrationInv'
<1> USE DEF MigrationInv, Stop, uffd, handlerVars, statistics
<1>1. MigrationTypeOK'
  BY DEF MigrationTypeOK
<1>2. OneFault'
  BY DEF OneFault, HandlerCopiesForSleeper
<1>3. StopOrder'
  BY DEF StopOrder
<1>4. MigrationCounted'
  BY DEF MigrationCounted, MigrationInHand
<1>5. RoomForLatency'
  BY DEF RoomForLatency
<1>6. Recorded'
  BY DEF Recorded
<1> QED
  BY <1>1, <1>2, <1>3, <1>4, <1>5, <1>6

\* The join waits for the handler's last record.
LEMMA MigrationJoinStep ==
    ASSUME MigrationInv, MigrationJoin
    PROVE  MigrationInv'
<1> USE DEF MigrationInv, MigrationJoin, uffd, handlerVars, statistics
<1>1. MigrationTypeOK'
  BY DEF MigrationTypeOK
<1>2. OneFault'
  BY DEF OneFault, HandlerCopiesForSleeper
<1>3. StopOrder'
  BY DEF StopOrder
<1>4. MigrationCounted'
  BY DEF MigrationCounted, MigrationInHand
<1>5. RoomForLatency'
  BY DEF RoomForLatency
<1>6. Recorded'
  BY DEF Recorded
<1> QED
  BY <1>1, <1>2, <1>3, <1>4, <1>5, <1>6

-----------------------------------------------------------------------------
(***************************************************************************)
(* Each step of the handler                                                *)
(***************************************************************************)
\* The handler looks at done, and after a timeout of poll once more.
LEMMA HandlerWaitsStep ==
    ASSUME MigrationInv, TestDone \/ PollTimeout
    PROVE  MigrationInv'
<1>1. UNCHANGED <<uffd, decodeVars, block, statistics, done>>
  BY DEF TestDone, PollTimeout
<1>2. \/ handler_pc = "test" /\ handler_pc' = (IF done THEN "ended" ELSE "poll")
      \/ handler_pc = "poll" /\ handler_pc' = "test"
  BY DEF TestDone, PollTimeout
<1> USE <1>1, <1>2 DEF MigrationInv, uffd, decodeVars, statistics
<1>3. MigrationTypeOK'
  BY DEF MigrationTypeOK
<1>4. OneFault'
  BY DEF OneFault, HandlerCopiesForSleeper
<1>5. StopOrder'
  BY DEF StopOrder, MigrationTypeOK
<1>6. MigrationCounted'
  BY DEF MigrationCounted, MigrationInHand
<1>7. RoomForLatency'
  BY DEF RoomForLatency
<1>8. Recorded'
  BY DEF Recorded
<1> QED
  BY <1>3, <1>4, <1>5, <1>6, <1>7, <1>8

\* The message says on which block main() sleeps.
LEMMA MigrationReadFaultStep ==
    ASSUME MigrationInv, MigrationReadFault
    PROVE  MigrationInv'
<1> USE DEF MigrationInv, MigrationReadFault, ReadFault, decodeVars, statistics
<1>1. msgs = <<faulted>> /\ faulted # None /\ Head(msgs) = faulted /\ Tail(msgs) = <<>>
  <2>1. msgs = <<faulted>> /\ faulted # None
    BY DEF OneFault
  <2> QED
    BY <2>1
<1>2. MigrationTypeOK'
  BY <1>1 DEF MigrationTypeOK
<1>3. OneFault'
  BY <1>1 DEF OneFault, HandlerCopiesForSleeper
<1>4. StopOrder'
  BY DEF StopOrder
<1>5. MigrationCounted'
  BY <1>1 DEF MigrationCounted, MigrationInHand
<1>6. RoomForLatency'
  BY DEF RoomForLatency
<1>7. Recorded'
  BY DEF Recorded
<1> QED
  BY <1>2, <1>3, <1>4, <1>5, <1>6, <1>7

\* The copy populates the page that main() sleeps on and wakes it, or fails to.
LEMMA MigrationHandlerCopyStep ==
    ASSUME MigrationInv, MigrationHandlerCopy
    PROVE  MigrationInv'
<1> USE DEF MigrationInv, MigrationHandlerCopy, CopyPage, decodeVars, statistics
<1>1. /\ msgs = <<>> /\ main_pc = "sleep" /\ faulted = block
      /\ block \notin present /\ block \in BlockIndex /\ block # None
  BY UffdAssumption DEF OneFault, HandlerCopiesForSleeper, MigrationTypeOK
<1>2. CASE CopySucceeds(block) /\ handler_pc' = "record"
  <2> USE <1>1, <1>2 DEF CopySucceeds
  <2>1. MigrationTypeOK'
    BY DEF MigrationTypeOK
  <2>2. OneFault'
    BY DEF OneFault, HandlerCopiesForSleeper
  <2>3. StopOrder'
    BY DEF StopOrder
  <2>4. MigrationCounted'
    BY DEF MigrationCounted, MigrationInHand
  <2>5. RoomForLatency'
    BY DEF RoomForLatency
  <2>6. Recorded'
    BY DEF Recorded
  <2> QED
    BY <2>1, <2>2, <2>3, <2>4, <2>5, <2>6
<1>3. CASE CopyFails(block) /\ handler_pc' = "test"
  <2> USE <1>1, <1>3 DEF CopyFails
  <2>1. MigrationTypeOK'
    BY DEF MigrationTypeOK
  <2>2. OneFault'
    BY DEF OneFault, HandlerCopiesForSleeper
  <2>3. StopOrder'
    BY DEF StopOrder
  <2>4. MigrationCounted'
    BY DEF MigrationCounted, MigrationInHand, MigrationTypeOK
  <2>5. RoomForLatency'
    BY DEF RoomForLatency
  <2>6. Recorded'
    BY DEF Recorded
  <2> QED
    BY <2>1, <2>2, <2>3, <2>4, <2>5, <2>6
<1> QED
  BY <1>2, <1>3

\* The latency is kept, for fewer faults have been counted than there are steps.
LEMMA RecordStep ==
    ASSUME MigrationInv, Record
    PROVE  MigrationInv'
<1> USE DEF MigrationInv, Record, uffd, decodeVars
<1>1. block \in BlockIndex /\ block \notin block_migrated
  BY DEF MigrationTypeOK, Recorded
<1>2. migration_count < faults /\ faults <= DECODE_STEPS
  <2>1. Len(msgs) \in Nat
    BY DEF OneFault
  <2>2. faults = migration_count + Len(msgs) + 1
    BY <2>1 DEF MigrationCounted, MigrationInHand, MigrationTypeOK
  <2> QED
    BY <2>1, <2>2, UffdAssumption DEF RoomForLatency, MigrationTypeOK
<1>3. latency_count' = latency_count + 1
  BY <1>2, UffdAssumption DEF RoomForLatency, MigrationTypeOK
<1>4. MigrationTypeOK'
  BY <1>1, <1>3 DEF MigrationTypeOK
<1>5. OneFault'
  BY DEF OneFault, HandlerCopiesForSleeper
<1>6. StopOrder'
  BY DEF StopOrder
<1>7. MigrationCounted'
  BY DEF MigrationCounted, MigrationInHand, MigrationTypeOK, OneFault
<1>8. RoomForLatency'
  BY <1>3 DEF RoomForLatency
<1>9. Recorded'
  <2>1. /\ IsFiniteSet(block_migrated \cup {block})
        /\ Cardinality(block_migrated \cup {block}) = Cardinality(block_migrated) + 1
    BY <1>1, FS_AddElement DEF Recorded
  <2> QED
    BY <2>1 DEF Recorded
<1> QED
  BY <1>4, <1>5, <1>6, <1>7, <1>8, <1>9

-----------------------------------------------------------------------------
(***************************************************************************)
(* The theorems                                                            *)
(***************************************************************************)
\* Both threads together, and steps that change nothing of theirs.
LEMMA MigrationInvStep ==
    ASSUME MigrationInv, [MigrationNext]_mvars
    PROVE  MigrationInv'
<1>1. CASE UNCHANGED mvars
  <2>1. UNCHANGED <<present, faulted, msgs, copy_failed, step, main_pc, faults, handler_pc,
                    block, block_migrated, latency_count, migration_count, done>>
    BY <1>1 DEF mvars, uffd, decodeVars, handlerVars, statistics
  <2> QED
    BY <2>1 DEF MigrationInv, MigrationTypeOK, OneFault, StopOrder, MigrationCounted, MigrationInHand,
                RoomForLatency, Recorded, HandlerCopiesForSleeper
<1>2. CASE MigrationMain
  BY <1>2, MigrationDecodeStep, MigrationResumeStep, StopStep, MigrationJoinStep
     DEF MigrationMain
<1>3. CASE MigrationHandler
  BY <1>3, HandlerWaitsStep, MigrationReadFaultStep, MigrationHandlerCopyStep, RecordStep
     DEF MigrationHandler
<1> QED
  BY <1>1, <1>2, <1>3 DEF MigrationNext

\* When main() has joined the handler, nothing is under way any more.
LEMMA MigrationInvReports ==
    ASSUME MigrationInv
    PROVE  ReportIsComplete /\ NoFaultUnserved
<1> USE DEF MigrationInv
<1>1. handler_pc = "ended" => main_pc # "sleep" /\ faulted = None /\ msgs = <<>>
  BY DEF StopOrder, OneFault
<1>2. ASSUME main_pc = "exit"
      PROVE  ReportIsComplete
  <2>1. handler_pc = "ended"
    BY <1>2 DEF StopOrder
  <2>2. migration_count = faults
    BY <1>1, <2>1 DEF MigrationCounted, MigrationInHand, MigrationTypeOK
  <2> QED
    BY <2>1, <2>2 DEF RoomForLatency, Recorded, ReportIsComplete
<1> QED
  BY <1>1, <1>2 DEF ReportIsComplete, NoFaultUnserved

\* At most one fault is under way, and it is in exactly one hand: the kernel's
\* queue, the handler before its copy, or the handler before its record.
THEOREM MigrationInvariant == MigrationSpec => []MigrationInv
<1>1. MigrationInit => MigrationInv
  BY MigrationInvInit
<1>2. MigrationInv /\ [MigrationNext]_mvars => MigrationInv'
  BY MigrationInvStep
<1> QED
  BY <1>1, <1>2, PTL DEF MigrationSpec

\* The report of kv_uffd_migration.c, which main() writes from what the handler
\* has counted without a lock, is complete.
THEOREM MigrationReportsAll == MigrationSpec => []ReportIsComplete
<1>1. MigrationInv => ReportIsComplete
  BY MigrationInvReports
<1> QED
  BY <1>1, MigrationInvariant, PTL

\* The handler of kv_uffd_migration.c stops only when no thread can fault again.
THEOREM MigrationServesFaults == MigrationSpec => []NoFaultUnserved
<1>1. MigrationInv => NoFaultUnserved
  BY MigrationInvReports
<1> QED
  BY <1>1, MigrationInvariant, PTL

\* Its copies never find the page populated by another.
THEOREM MigrationCopiesForSleeper == MigrationSpec => []HandlerCopiesForSleeper
<1>1. MigrationInv => HandlerCopiesForSleeper
  BY DEF MigrationInv, OneFault
<1> QED
  BY <1>1, MigrationInvariant, PTL

-----------------------------------------------------------------------------
(***************************************************************************)
(* kv_io_priority_bench.py                                                 *)
(***************************************************************************)
BenchTypeOK ==
    /\ bench_pc \in {"ensure", "start", "join", "collect", "done", "failed"}
    /\ results \in Nat /\ file_size \in Nat /\ offset \in Nat
    /\ worker \in [Workers -> {"none", "running", "reporting", "ended", "died"}]
    /\ result_file \in [Workers -> {"absent", "partial", "complete"}]

\* A worker runs between its start and its join only, and a result file is what it
\* left there: complete if it ended, removed before the next start.
FilesFollowWorkers ==
    /\ bench_pc # "join" => \A w \in Workers : worker[w] \notin {"running", "reporting"}
    /\ bench_pc \notin {"join", "collect"} => \A w \in Workers : result_file[w] = "absent"
    /\ \A w \in Workers : result_file[w] = "complete" => worker[w] = "ended"

\* While the writer may write, the file has its size.
SpillFileKept ==
    write_size <= background_size /\ bench_pc \in {"start", "join", "collect"} =>
        file_size = background_size

BenchInv == BenchTypeOK /\ FilesFollowWorkers /\ SpillFileKept

\* The files of an earlier run are seen by ensure_file only.
LEMMA BenchInvInit == BenchInit => BenchInv
<1> SUFFICES ASSUME BenchInit PROVE BenchInv
  OBVIOUS
<1>1. background_size \in Nat
  BY BenchAssumption
<1> QED
  BY <1>1 DEF BenchInit, BenchInv, BenchTypeOK, FilesFollowWorkers, SpillFileKept

\* A write ends within the file, wherever short writes have left the offset.
LEMMA BenchWriteStep ==
    ASSUME BenchInv, background_writer
    PROVE  BenchInv'
<1>1. background_size \in Nat /\ write_size \in Nat
  BY BenchAssumption
<1>2. PICK written \in 1 .. write_size :
         /\ offset' = WriteOffset + written
         /\ file_size' = Max({file_size, WriteOffset + written})
  BY DEF background_writer
<1>3. /\ UNCHANGED <<bench_pc, worker, result_file, results>>
      /\ bench_pc = "join"
  BY DEF background_writer, resultVars, BenchInv, FilesFollowWorkers, Workers
<1>4. offset \in Nat /\ file_size \in Nat
  BY DEF BenchInv, BenchTypeOK
<1>5. WriteOffset \in Nat /\ (write_size <= background_size =>
                                WriteOffset + written <= background_size)
  BY <1>1, <1>2, <1>4 DEF WriteOffset
<1>6. file_size' = IF file_size >= WriteOffset + written THEN file_size
                   ELSE WriteOffset + written
  <2>1. file_size \in Int /\ WriteOffset + written \in Int
    BY <1>2, <1>4, <1>5
  <2> QED
    BY <1>2, <2>1, MaxMinOfTwo
<1>7. offset' \in Nat /\ file_size' \in Nat
  BY <1>2, <1>4, <1>5, <1>6
<1>8. SpillFileKept'
  <2> SUFFICES ASSUME write_size <= background_size PROVE file_size' = background_size
    BY <1>3 DEF SpillFileKept
  <2>1. file_size = background_size
    BY <1>3 DEF BenchInv, SpillFileKept
  <2> QED
    BY <1>1, <1>5, <1>6, <2>1
<1> QED
  BY <1>3, <1>7, <1>8 DEF BenchInv, BenchTypeOK, FilesFollowWorkers

\* Workers that die leave no complete file, and main collects after both joins.
LEMMA BenchInvStep ==
    ASSUME BenchInv, [BenchNext]_bvars
    PROVE  BenchInv'
<1> USE DEF BenchInv, BenchTypeOK, FilesFollowWorkers, SpillFileKept, resultVars
<1>1. CASE ensure_file
  <2>1. background_size \in Nat
    BY BenchAssumption
  <2> QED
    BY <1>1, <2>1 DEF ensure_file
<1>2. CASE StartWorkers
  BY <1>2 DEF StartWorkers
<1>3. CASE BenchJoin
  BY <1>3 DEF BenchJoin, workerVars
<1>4. CASE Collect
  BY <1>4 DEF Collect, CleanUp
<1>5. CASE CollectFails
  BY <1>5 DEF CollectFails, CleanUp
<1>6. CASE critical_reader
  BY <1>6 DEF critical_reader
<1>7. CASE background_writer
  BY <1>7, BenchWriteStep
<1>8. ASSUME NEW w \in Workers, maybe_apply_priority(w) PROVE BenchInv'
  BY <1>8 DEF maybe_apply_priority
<1>9. ASSUME NEW w \in Workers, OpenResult(w) PROVE BenchInv'
  BY <1>9 DEF OpenResult
<1>10. ASSUME NEW w \in Workers, WriteResult(w) PROVE BenchInv'
  BY <1>10 DEF WriteResult
<1>11. ASSUME NEW w \in Workers, Die(w) PROVE BenchInv'
  BY <1>11 DEF Die
<1>12. CASE UNCHANGED bvars
  BY <1>12 DEF bvars, workerVars
<1> QED
  BY <1>1, <1>2, <1>3, <1>4, <1>5, <1>6, <1>7, <1>8, <1>9, <1>10, <1>11, <1>12
     DEF BenchNext, BenchMain, WorkerEnds

\* Only Collect adds a result.
LEMMA BenchResults ==
    ASSUME BenchInv, [BenchNext]_bvars, results' > results
    PROVE  /\ \A w \in Workers : worker[w] = "ended"
           /\ write_size <= background_size => file_size = background_size
<1>1. results \in Nat
  BY DEF BenchInv, BenchTypeOK
<1>2. ASSUME results' = results PROVE FALSE
  BY <1>1, <1>2
<1>3. Collect
  BY <1>2 DEF BenchNext, BenchMain, ensure_file, StartWorkers, BenchJoin, CollectFails,
        critical_reader, background_writer, maybe_apply_priority, WorkerEnds, OpenResult,
        WriteResult, Die, bvars, resultVars
<1> QED
  BY <1>3 DEF Collect, BothComplete, BenchInv, FilesFollowWorkers, SpillFileKept

-----------------------------------------------------------------------------
(***************************************************************************)
(* kv_io_uring_prefetch.py                                                 *)
(***************************************************************************)
\* The counter that is k ahead of the counter c, and its place on a ring of n.
Counter(c, k) == Remainder(c + k, CounterSpan)
Place(c, k, n) == Remainder(c + k, n)

\* The k-th entry behind the head of each ring, and the first n reads of the step.
Submitted(k) == sqe_array[Place(sq_head, k, sq_entries)]
Posted(k) == cqe_array[Place(cq_head, k, cq_entries)]
StepReads(n) == {user_data(k) : k \in 1 .. n}

UringTypeOK ==
    /\ uring_pc \in {"predict", "reserve", "enter", "reap", "end", "raised"}
    /\ reserved \in Nat /\ completed \in Nat
    /\ {sq_head, sq_tail, cq_head, cq_tail} \subseteq 0 .. CounterSpan - 1
    /\ sqe_array = [index \in 0 .. sq_entries - 1 |-> sqe_array[index]]
    /\ cqe_array = [index \in 0 .. cq_entries - 1 |-> cqe_array[index]]
    /\ IsFiniteSet(inflight)

\* Between steps nothing of an earlier step is left in either ring or in the kernel.
RingsEmpty ==
    /\ uring_pc \in {"predict", "reserve", "enter", "end"} => inflight = {} /\ cq_head = cq_tail
    /\ uring_pc \in {"predict", "end"} => sq_head = sq_tail

\* What the step has put on the submission ring so far.
StepSubmitted ==
    uring_pc \in {"reserve", "enter"} =>
        /\ reserved <= BLOCKS_PER_STEP /\ completed = 0 /\ reaped = {}
        /\ uring_pc = "enter" => reserved = BLOCKS_PER_STEP
        /\ sq_tail = Counter(sq_head, reserved)
        /\ \A k \in 0 .. reserved - 1 : Submitted(k) = user_data(k + 1)

\* The kernel took n reads.  Each is in flight, one of the p posted completions, or
\* reaped; the count of them is not above n, so that n completions mean all of them.
ReadsTaken(n, p) ==
    /\ n = BLOCKS_PER_STEP => sq_head = sq_tail
    /\ cq_tail = Counter(cq_head, p)
    /\ p + Cardinality(inflight) + completed <= n
    /\ StepReads(n) = inflight \cup {Posted(k).user_data : k \in 0 .. p - 1} \cup reaped

StepTaken == uring_pc = "reap" => \E n \in 1 .. BLOCKS_PER_STEP, p \in Nat : ReadsTaken(n, p)

UringInv == UringTypeOK /\ RingsEmpty /\ StepSubmitted /\ StepTaken

\* The sizes as the proofs use them.
LEMMA UringSizes ==
    /\ BLOCKS_PER_STEP \in Nat \ {0} /\ sq_entries \in Nat \ {0} /\ cq_entries \in Nat \ {0}
    /\ BLOCKS_PER_STEP <= sq_entries /\ BLOCKS_PER_STEP <= cq_entries
    /\ CounterSpan \in Nat \ {0}
    /\ \A n \in {sq_entries, cq_entries, CounterSpan} : Remainder(CounterSpan, n) = 0
<1>1. CounterSpan \in Nat \ {0} /\ cq_entries \in Nat \ {0} /\ sq_entries \in Nat \ {0}
  BY UringAssumption
<1>2. CounterSpan = CounterSpan * 1 + 0 /\ 1 \in Nat /\ 0 \in 0 .. CounterSpan - 1
  BY <1>1
<1>3. Remainder(CounterSpan, CounterSpan) = 0
  BY <1>1, <1>2, RemainderUnique
<1>4. Remainder(CounterSpan, sq_entries) = 0 /\ Remainder(CounterSpan, cq_entries) = 0
  BY UringAssumption DEF Remainder
<1> QED
  BY <1>1, <1>3, <1>4, UringAssumption

\* Counters wrap at a multiple of the ring's size, and so their places follow them.
LEMMA CounterFacts ==
    ASSUME NEW c \in 0 .. CounterSpan - 1, NEW j \in Nat, NEW k \in Nat
    PROVE  /\ Counter(c, 0) = c
           /\ Counter(c, k) \in 0 .. CounterSpan - 1
           /\ Counter(Counter(c, j), k) = Counter(c, j + k)
<1>1. c \in Nat /\ c + j \in Nat /\ c + k \in Nat /\ c + 0 = c /\ (c + j) + k = c + (j + k)
  BY UringSizes
<1>2. CounterSpan \in Nat \ {0} /\ Remainder(CounterSpan, CounterSpan) = 0
  BY UringSizes
<1>3. Counter(c, 0) = c
  <2>1. c = CounterSpan * 0 + c /\ 0 \in Nat
    BY <1>1, <1>2
  <2>2. Remainder(c, CounterSpan) = c
    BY <1>1, <1>2, <2>1, RemainderUnique
  <2> QED
    BY <1>1, <2>2 DEF Counter
<1>4. Counter(c, k) \in 0 .. CounterSpan - 1
  BY <1>1, <1>2, RemainderFacts DEF Counter
<1>5. Counter(Counter(c, j), k) = Counter(c, j + k)
  <2>1. Remainder(Remainder(c + j, CounterSpan) + k, CounterSpan)
          = Remainder((c + j) + k, CounterSpan)
    BY <1>1, <1>2, RemainderOfWrapped
  <2> QED
    BY <1>1, <2>1 DEF Counter
<1> QED
  BY <1>3, <1>4, <1>5

\* The same of places: fewer entries than the ring has are at different places.
LEMMA PlaceFacts ==
    ASSUME NEW c \in 0 .. CounterSpan - 1, NEW n \in {sq_entries, cq_entries},
           NEW j \in Nat, NEW k \in Nat
    PROVE  /\ Place(c, k, n) \in 0 .. n - 1
           /\ Remainder(Counter(c, k), n) = Place(c, k, n)
           /\ Place(Counter(c, j), k, n) = Place(c, j + k, n)
           /\ j < n /\ k < n /\ j # k => Place(c, j, n) # Place(c, k, n)
<1>1. c \in Nat /\ c + j \in Nat /\ c + k \in Nat /\ (c + j) + k = c + (j + k)
  BY UringSizes
<1>2. CounterSpan \in Nat \ {0} /\ n \in Nat \ {0} /\ Remainder(CounterSpan, n) = 0
  BY UringSizes
<1>3. Place(c, k, n) \in 0 .. n - 1
  BY <1>1, <1>2, RemainderFacts DEF Place
<1>4. Place(Counter(c, j), k, n) = Place(c, j + k, n)
  <2>1. Remainder(Remainder(c + j, CounterSpan) + k, n) = Remainder((c + j) + k, n)
    BY <1>1, <1>2, RemainderOfWrapped
  <2> QED
    BY <1>1, <2>1 DEF Counter, Place
<1>5. Remainder(Counter(c, k), n) = Place(c, k, n)
  <2>1. Remainder(Remainder(c + k, CounterSpan) + 0, n) = Remainder((c + k) + 0, n)
    BY <1>1, <1>2, RemainderOfWrapped
  <2>2. Remainder(c + k, CounterSpan) \in Int
    BY <1>1, <1>2, RemainderFacts
  <2>3. Remainder(c + k, CounterSpan) + 0 = Remainder(c + k, CounterSpan) /\ (c + k) + 0 = c + k
    BY <1>1, <2>2
  <2> QED
    BY <2>1, <2>3 DEF Counter, Place
<1>6. ASSUME j < n, k < n, Place(c, j, n) = Place(c, k, n) PROVE j = k
  <2>1. j \in 0 .. n - 1 /\ k \in 0 .. n - 1
    BY <1>2, <1>6
  <2> QED
    BY <1>1, <1>2, <1>6, <2>1, RemaindersDiffer DEF Place
<1> QED
  BY <1>3, <1>4, <1>5, <1>6

\* A step has no more reads than it asks for, also if two ask for the same block.
LEMMA StepReadsBound ==
    ASSUME NEW n \in Nat
    PROVE  IsFiniteSet(StepReads(n)) /\ Cardinality(StepReads(n)) <= n
<1> DEFINE f == [k \in 1 .. n |-> user_data(k)]
<1>1. f \in Surjection(1 .. n, StepReads(n))
  BY DEF Surjection, StepReads
<1> HIDE DEF f
<1>2. IsFiniteSet(1 .. n)
  BY FS_Interval
<1>3. IsFiniteSet(StepReads(n))
  BY <1>1, <1>2, FS_Surjection
<1>4. ExistsSurjection(1 .. n, StepReads(n))
  BY <1>1 DEF ExistsSurjection
<1>5. Cardinality(StepReads(n)) <= n
  BY <1>4, FS_SurjCardinalityBound
<1> QED
  BY <1>3, <1>5

\* The rings start empty.
LEMMA UringInvInit == UringInit => UringInv
<1> SUFFICES ASSUME UringInit PROVE UringInv
  OBVIOUS
<1>1. 0 \in 0 .. CounterSpan - 1 /\ IsFiniteSet({})
  BY UringSizes, FS_EmptySet
<1> QED
  BY <1>1 DEF UringInit, UringInv, UringTypeOK, RingsEmpty, StepSubmitted, StepTaken

\* A step starts with the submission ring as empty as the last one left it.
LEMMA PredictReadsStep ==
    ASSUME UringInv, PredictReads
    PROVE  UringInv'
<1>1. /\ uring_pc = "predict" /\ uring_pc' = "reserve" /\ reserved' = 0 /\ completed' = 0
      /\ reaped' = {}
      /\ UNCHANGED <<decode_step, sq_head, sq_tail, sqe_array, cq_head, cq_tail, cqe_array,
                     inflight>>
  BY DEF PredictReads, sq, cq
<1>2. sq_tail' = Counter(sq_head', 0)
  BY <1>1, CounterFacts DEF UringInv, UringTypeOK, RingsEmpty
<1>3. StepSubmitted'
  BY <1>1, <1>2, UringSizes DEF StepSubmitted
<1> QED
  BY <1>1, <1>3 DEF UringInv, UringTypeOK, RingsEmpty, StepTaken

\* An entry that is put on the submission ring replaces none that waits there.
LEMMA ReserveStep ==
    ASSUME UringInv, Reserve
    PROVE  UringInv'
<1> DEFINE at == Place(sq_head, reserved, sq_entries)
<1>1. /\ uring_pc = "reserve" /\ reserved < BLOCKS_PER_STEP /\ reserved' = reserved + 1
      /\ uring_pc' = IF reserved' = BLOCKS_PER_STEP THEN "enter" ELSE "reserve"
      /\ UNCHANGED <<decode_step, completed, sq_head, cq_head, cq_tail, cqe_array, inflight,
                     reaped>>
      /\ sqe_array' = [sqe_array EXCEPT ![sq_tail % sq_entries] = user_data(reserved + 1)]
      /\ sq_tail' = Increment(sq_tail)
  BY DEF Reserve, cq
<1>2. /\ reserved \in Nat /\ sq_head \in 0 .. CounterSpan - 1
      /\ sq_tail = Counter(sq_head, reserved) /\ completed = 0 /\ reaped = {}
      /\ \A k \in 0 .. reserved - 1 : Submitted(k) = user_data(k + 1)
      /\ sqe_array = [index \in 0 .. sq_entries - 1 |-> sqe_array[index]]
  BY <1>1 DEF UringInv, UringTypeOK, StepSubmitted
<1>3. sq_tail % sq_entries = at /\ at \in 0 .. sq_entries - 1
  BY <1>2, PlaceFacts DEF Remainder
<1>4. sq_tail' = Counter(sq_head, reserved + 1) /\ sq_tail' \in 0 .. CounterSpan - 1
  <2>1. Increment(sq_tail) = Counter(sq_tail, 1)
    BY DEF Increment, Counter, Remainder
  <2> DEFINE r == reserved + 1
  <2>0. reserved \in Nat /\ 1 \in Nat /\ r \in Nat
    BY <1>2
  <2>2. Counter(Counter(sq_head, reserved), 1) = Counter(sq_head, reserved + 1)
    BY <1>2, <2>0, CounterFacts
  <2> HIDE DEF r
  <2>4. Counter(sq_head, r) \in 0 .. CounterSpan - 1
    BY <1>2, <2>0, CounterFacts
  <2>3. Counter(sq_head, reserved + 1) \in 0 .. CounterSpan - 1
    BY <2>4 DEF r
  <2> QED
    BY <1>1, <1>2, <2>1, <2>2, <2>3
<1>5. /\ sqe_array'[at] = user_data(reserved + 1)
      /\ \A i \in 0 .. sq_entries - 1 : i # at => sqe_array'[i] = sqe_array[i]
      /\ sqe_array' = [index \in 0 .. sq_entries - 1 |-> sqe_array'[index]]
  BY <1>1, <1>2, <1>3
<1>6. ASSUME NEW k \in 0 .. reserved
      PROVE  Submitted(k)' = user_data(k + 1)
  <2>1. Submitted(k)' = sqe_array'[Place(sq_head, k, sq_entries)]
    BY <1>1 DEF Submitted
  <2>2. CASE k = reserved
    BY <1>5, <2>1, <2>2
  <2>3. CASE k # reserved
    <3>1. k \in 0 .. reserved - 1 /\ k \in Nat /\ k < sq_entries /\ reserved < sq_entries
      BY <1>1, <1>2, <2>3, UringSizes
    <3>2. Place(sq_head, k, sq_entries) # at /\ Place(sq_head, k, sq_entries) \in 0 .. sq_entries - 1
      BY <1>2, <2>3, <3>1, PlaceFacts
    <3> QED
      BY <1>2, <1>5, <2>1, <3>1, <3>2 DEF Submitted
  <2> QED
    BY <2>2, <2>3
<1>7. StepSubmitted'
  <2>1. \A k \in 0 .. reserved' - 1 : Submitted(k)' = user_data(k + 1)'
    BY <1>1, <1>2, <1>6 DEF user_data
  <2>2. reserved' <= BLOCKS_PER_STEP /\ reserved' \in Nat
    BY <1>1, <1>2, UringSizes
  <2>3. sq_tail' = Counter(sq_head', reserved')
    BY <1>1, <1>4
  <2> QED
    BY <1>1, <1>2, <2>1, <2>2, <2>3 DEF StepSubmitted
<1>8. UringTypeOK'
  BY <1>1, <1>2, <1>4, <1>5 DEF UringInv, UringTypeOK
<1>9. RingsEmpty' /\ StepTaken'
  BY <1>1 DEF UringInv, RingsEmpty, StepTaken
<1> QED
  BY <1>7, <1>8, <1>9 DEF UringInv

\* The kernel takes the first n entries of the ring, which are n reads of the step.
LEMMA EnterStep ==
    ASSUME UringInv, Enter
    PROVE  UringInv'
<1>1. /\ uring_pc = "enter" /\ uring_pc' = "reap"
      /\ UNCHANGED <<decode_step, reserved, completed, sq_tail, sqe_array, cq_head, cq_tail,
                     cqe_array, reaped>>
  BY DEF Enter, cq
<1>2. PICK n \in 1 .. BLOCKS_PER_STEP :
         /\ inflight' = inflight \cup {sqe_array[(sq_head + k) % sq_entries] : k \in 0 .. n - 1}
         /\ sq_head' = (sq_head + n) % CounterSpan
  BY DEF Enter, to_submit
<1>3. /\ inflight = {} /\ cq_head = cq_tail /\ completed = 0 /\ reaped = {}
      /\ sq_tail = Counter(sq_head, BLOCKS_PER_STEP)
      /\ {sq_head, cq_head} \subseteq 0 .. CounterSpan - 1
      /\ \A k \in 0 .. BLOCKS_PER_STEP - 1 : Submitted(k) = user_data(k + 1)
  BY <1>1 DEF UringInv, UringTypeOK, RingsEmpty, StepSubmitted
<1>4. n \in Nat /\ 0 \in Nat /\ BLOCKS_PER_STEP \in Nat
  BY UringSizes
<1>5. inflight' = StepReads(n)
  <2>1. ASSUME NEW k \in 0 .. n - 1
        PROVE  sqe_array[(sq_head + k) % sq_entries] = user_data(k + 1)
    <3>1. k \in 0 .. BLOCKS_PER_STEP - 1
      BY <1>4
    <3>2. Submitted(k) = user_data(k + 1)
      BY <1>3, <3>1
    <3> QED
      BY <3>2 DEF Submitted, Place, Remainder
  <2>2. inflight' = {user_data(k + 1) : k \in 0 .. n - 1}
    BY <1>2, <1>3, <2>1
  <2>3. ASSUME NEW k \in 0 .. n - 1
        PROVE  user_data(k + 1) \in StepReads(n)
    <3>1. k + 1 \in 1 .. n
      BY <1>4
    <3> QED
      BY <3>1 DEF StepReads
  <2>4. ASSUME NEW k \in 1 .. n
        PROVE  \E j \in 0 .. n - 1 : user_data(k) = user_data(j + 1)
    <3>1. k - 1 \in 0 .. n - 1 /\ (k - 1) + 1 = k
      BY <1>4
    <3> QED
      BY <3>1
  <2> QED
    BY <2>2, <2>3, <2>4 DEF StepReads
<1>6. sq_head' = Counter(sq_head, n)
  BY <1>2 DEF Counter, Remainder
<1>7. ReadsTaken(n, 0)'
  <2>1. n = BLOCKS_PER_STEP => sq_head' = sq_tail'
    BY <1>1, <1>3, <1>6
  <2>2. cq_tail' = Counter(cq_head', 0)
    BY <1>1, <1>3, <1>4, CounterFacts
  <2>3. 0 + Cardinality(inflight') + completed' <= n
    <3>1. IsFiniteSet(StepReads(n)) /\ Cardinality(StepReads(n)) <= n
      BY <1>4, StepReadsBound
    <3>2. Cardinality(StepReads(n)) \in Nat
      BY <3>1, FS_CardinalityType
    <3> QED
      BY <1>1, <1>3, <1>4, <1>5, <3>1, <3>2
  <2>4. StepReads(n)' = inflight' \cup {Posted(k)'.user_data : k \in 0 .. 0 - 1} \cup reaped'
    <3>1. StepReads(n)' = StepReads(n)
      BY <1>1 DEF StepReads, user_data
    <3>2. 0 .. 0 - 1 = {}
      OBVIOUS
    <3> QED
      BY <1>1, <1>3, <1>5, <3>1, <3>2
  <2> QED
    BY <2>1, <2>2, <2>3, <2>4 DEF ReadsTaken
<1>8. UringTypeOK'
  <2>1. sq_head' \in 0 .. CounterSpan - 1
    BY <1>3, <1>4, <1>6, CounterFacts
  <2>2. IsFiniteSet(inflight')
    BY <1>4, <1>5, StepReadsBound
  <2> QED
    BY <1>1, <2>1, <2>2 DEF UringInv, UringTypeOK
<1> QED
  BY <1>1, <1>4, <1>7, <1>8 DEF UringInv, RingsEmpty, StepSubmitted, StepTaken

\* A completion that is reaped was posted, for a read of the step.
LEMMA ReapStep ==
    ASSUME UringInv, Reap
    PROVE  UringInv'
<1> DEFINE cqe == cqe_array[cq_head % cq_entries]
<1>1. /\ uring_pc = "reap" /\ cq_head # cq_tail
      /\ UNCHANGED <<decode_step, reserved, sq_head, sq_tail, sqe_array, cq_tail, cqe_array,
                     inflight>>
      /\ \/ uring_pc' = "raised" /\ UNCHANGED <<completed, cq_head, reaped>>
         \/ /\ cq_head' = Increment(cq_head) /\ completed' = completed + 1
            /\ reaped' = reaped \cup {cqe.user_data} /\ uring_pc' = uring_pc
  BY DEF Reap, sq
<1>2. UringTypeOK /\ completed \in Nat /\ cq_head \in 0 .. CounterSpan - 1
  BY DEF UringInv, UringTypeOK
<1>3. CASE uring_pc' = "raised" /\ UNCHANGED <<completed, cq_head, reaped>>
  BY <1>1, <1>2, <1>3 DEF UringInv, UringTypeOK, RingsEmpty, StepSubmitted, StepTaken
<1>4. CASE /\ cq_head' = Increment(cq_head) /\ completed' = completed + 1
           /\ reaped' = reaped \cup {cqe.user_data} /\ uring_pc' = uring_pc
  <2>1. PICK n \in 1 .. BLOCKS_PER_STEP, p \in Nat : ReadsTaken(n, p)
    BY <1>1 DEF UringInv, StepTaken
  <2>2. n \in Nat /\ Cardinality(inflight) \in Nat /\ 0 \in Nat /\ 1 \in Nat
    BY <1>2, UringSizes, FS_CardinalityType DEF UringTypeOK
  <2>3. p # 0
    <3>1. Counter(cq_head, 0) = cq_head
      BY <1>2, <2>2, CounterFacts
    <3> QED
      BY <1>1, <2>1, <3>1 DEF ReadsTaken
  <2> DEFINE q == p - 1
  <2>4. q \in Nat /\ p = 1 + q
    BY <2>3
  <2>5. cq_head' = Counter(cq_head, 1)
    BY <1>4 DEF Increment, Counter, Remainder
  <2> HIDE DEF q
  <2>6. cq_head' \in 0 .. CounterSpan - 1
    BY <1>2, <2>2, <2>5, CounterFacts
  <2>7. cq_tail' = Counter(cq_head', q)
    <3>1. Counter(Counter(cq_head, 1), q) = Counter(cq_head, 1 + q)
      BY <1>2, <2>2, <2>4, CounterFacts
    <3> QED
      BY <1>1, <2>1, <2>4, <2>5, <3>1 DEF ReadsTaken
  <2>8. cqe = Posted(0)
    <3>1. cq_head + 0 = cq_head
      BY <1>2
    <3> QED
      BY <3>1 DEF Posted, Place, Remainder
  <2>9. ASSUME NEW k \in Nat
        PROVE  Posted(k)' = Posted(k + 1)
    <3>1. Place(Counter(cq_head, 1), k, cq_entries) = Place(cq_head, 1 + k, cq_entries)
      BY <1>2, <2>2, PlaceFacts
    <3>2. 1 + k = k + 1
      OBVIOUS
    <3> QED
      BY <1>1, <2>5, <3>1, <3>2 DEF Posted
  <2>10. {Posted(k).user_data : k \in 0 .. p - 1}
           = {Posted(k)'.user_data : k \in 0 .. q - 1} \cup {cqe.user_data}
    <3>1. ASSUME NEW k \in 0 .. p - 1
          PROVE  k = 0 \/ \E j \in 0 .. q - 1 : Posted(k) = Posted(j)'
      <4>1. CASE k # 0
        <5>1. k - 1 \in 0 .. q - 1 /\ k - 1 \in Nat /\ (k - 1) + 1 = k
          BY <2>4, <4>1
        <5> QED
          BY <2>9, <5>1
      <4> QED
        BY <4>1
    <3>2. ASSUME NEW j \in 0 .. q - 1
          PROVE  \E k \in 0 .. p - 1 : Posted(j)' = Posted(k)
      <4>1. j + 1 \in 0 .. p - 1 /\ j \in Nat
        BY <2>4
      <4> QED
        BY <2>9, <4>1
    <3>3. 0 \in 0 .. p - 1
      BY <2>4
    <3> QED
      BY <2>8, <3>1, <3>2, <3>3
  <2>11. ReadsTaken(n, q)'
    <3>1. n = BLOCKS_PER_STEP => sq_head' = sq_tail'
      BY <1>1, <2>1 DEF ReadsTaken
    <3>2. q + Cardinality(inflight') + completed' <= n
      BY <1>1, <1>2, <1>4, <2>1, <2>2, <2>4 DEF ReadsTaken
    <3>3. StepReads(n)' = inflight' \cup {Posted(k)'.user_data : k \in 0 .. q - 1} \cup reaped'
      <4>1. StepReads(n)' = StepReads(n)
        BY <1>1 DEF StepReads, user_data
      <4>2. StepReads(n) = inflight \cup {Posted(k).user_data : k \in 0 .. p - 1} \cup reaped
        BY <2>1 DEF ReadsTaken
      <4> HIDE DEF cqe
      <4> QED
        BY <1>1, <1>4, <2>10, <4>1, <4>2
    <3> QED
      BY <2>7, <3>1, <3>2, <3>3 DEF ReadsTaken
  <2>12. UringTypeOK'
    BY <1>1, <1>2, <1>4, <2>6 DEF UringTypeOK
  <2> QED
    BY <1>1, <1>4, <2>4, <2>11, <2>12 DEF UringInv, RingsEmpty, StepSubmitted, StepTaken
<1> QED
  BY <1>1, <1>3, <1>4

\* When as many completions are reaped as the step has reads, all of its reads are.
LEMMA AllReaped ==
    ASSUME UringInv, uring_pc = "reap", all_completed
    PROVE  /\ inflight = {} /\ cq_head = cq_tail /\ sq_head = sq_tail
           /\ reaped = StepReads(BLOCKS_PER_STEP)
<1>1. PICK n \in 1 .. BLOCKS_PER_STEP, p \in Nat : ReadsTaken(n, p)
  BY DEF UringInv, StepTaken
<1>2. /\ completed \in Nat /\ BLOCKS_PER_STEP \in Nat /\ Cardinality(inflight) \in Nat
      /\ IsFiniteSet(inflight) /\ cq_head \in 0 .. CounterSpan - 1 /\ 0 \in Nat
  BY UringSizes, FS_CardinalityType DEF UringInv, UringTypeOK
<1>3. p = 0 /\ Cardinality(inflight) = 0 /\ n = BLOCKS_PER_STEP
  BY <1>1, <1>2 DEF ReadsTaken, all_completed
<1>4. inflight = {}
  BY <1>2, <1>3, FS_EmptySet
<1>5. cq_head = cq_tail
  BY <1>1, <1>2, <1>3, CounterFacts DEF ReadsTaken
<1>6. StepReads(n) = inflight \cup {Posted(k).user_data : k \in 0 .. 0 - 1} \cup reaped
  BY <1>1, <1>3 DEF ReadsTaken
<1>7. 0 .. 0 - 1 = {}
  OBVIOUS
<1>8. reaped = StepReads(BLOCKS_PER_STEP)
  BY <1>3, <1>4, <1>6, <1>7
<1> QED
  BY <1>1, <1>3, <1>4, <1>5, <1>8 DEF ReadsTaken

\* The next step starts with empty rings.
LEMMA StepDoneStep ==
    ASSUME UringInv, StepDone
    PROVE  UringInv'
<1>1. /\ uring_pc = "reap" /\ uring_pc' \in {"predict", "end"}
      /\ UNCHANGED <<reserved, completed, sq_head, sq_tail, sqe_array, cq_head, cq_tail,
                     cqe_array, inflight, reaped>>
  BY DEF StepDone, sq, cq
<1>2. inflight = {} /\ cq_head = cq_tail /\ sq_head = sq_tail
  BY AllReaped DEF StepDone
<1> QED
  BY <1>1, <1>2 DEF UringInv, UringTypeOK, RingsEmpty, StepSubmitted, StepTaken

\* The completion ring has room: a posted completion replaces none that waits there.
LEMMA CompleteReadStep ==
    ASSUME UringInv, NEW u \in inflight, CompleteRead(u)
    PROVE  UringInv'
<1>1. /\ UNCHANGED <<decode_step, reserved, completed, uring_pc, sq_head, sq_tail, sqe_array,
                     cq_head, reaped>>
      /\ cq_tail' = Increment(cq_tail) /\ inflight' = inflight \ {u}
  BY DEF CompleteRead, sq
<1>2. PICK res \in {-1, 1} :
         cqe_array' = [cqe_array EXCEPT ![cq_tail % cq_entries] = [user_data |-> u, res |-> res]]
  BY DEF CompleteRead
<1>3. /\ completed \in Nat /\ cq_head \in 0 .. CounterSpan - 1 /\ cq_tail \in 0 .. CounterSpan - 1
      /\ IsFiniteSet(inflight) /\ Cardinality(inflight) \in Nat /\ 1 \in Nat
      /\ cqe_array = [index \in 0 .. cq_entries - 1 |-> cqe_array[index]]
  BY FS_CardinalityType DEF UringInv, UringTypeOK
<1>4. IsFiniteSet(inflight') /\ Cardinality(inflight') = Cardinality(inflight) - 1
  BY <1>1, <1>3, FS_RemoveElement
<1>5. Cardinality(inflight') \in Nat
  BY <1>4, FS_CardinalityType
<1>6. cq_tail' = Counter(cq_tail, 1) /\ cq_tail' \in 0 .. CounterSpan - 1
  <2>1. cq_tail' = Counter(cq_tail, 1)
    BY <1>1 DEF Increment, Counter, Remainder
  <2>2. Counter(cq_tail, 1) \in 0 .. CounterSpan - 1
    BY <1>3, CounterFacts
  <2> QED
    BY <2>1, <2>2
<1>7. UringTypeOK'
  <2>1. cqe_array' = [index \in 0 .. cq_entries - 1 |-> cqe_array'[index]]
    BY <1>2, <1>3
  <2> QED
    BY <1>1, <1>4, <1>6, <2>1 DEF UringInv, UringTypeOK
<1>8. uring_pc \in {"reap", "raised"}
  BY DEF UringInv, UringTypeOK, RingsEmpty
<1>9. ASSUME uring_pc = "reap"
      PROVE  StepTaken'
  <2>1. PICK n \in 1 .. BLOCKS_PER_STEP, p \in Nat : ReadsTaken(n, p)
    BY <1>9 DEF UringInv, StepTaken
  <2>2. n \in Nat /\ p < cq_entries /\ p + 1 \in Nat
    BY SMTT(20), <1>3, <1>4, <1>5, <2>1, UringSizes DEF ReadsTaken
  <2> DEFINE at == Place(cq_head, p, cq_entries)
  <2>3. cq_tail % cq_entries = at /\ at \in 0 .. cq_entries - 1
    <3>1. Remainder(Counter(cq_head, p), cq_entries) = at /\ at \in 0 .. cq_entries - 1
      BY <1>3, PlaceFacts
    <3> QED
      BY <2>1, <3>1 DEF ReadsTaken, Remainder
  <2>4. /\ cqe_array'[at] = [user_data |-> u, res |-> res]
        /\ \A i \in 0 .. cq_entries - 1 : i # at => cqe_array'[i] = cqe_array[i]
    BY <1>2, <1>3, <2>3
  <2>5. Posted(p)'.user_data = u
    BY <1>1, <2>4 DEF Posted
  <2>6. ASSUME NEW k \in 0 .. p - 1
        PROVE  Posted(k)' = Posted(k)
    <3>1. k \in Nat /\ k < cq_entries /\ k # p
      BY <2>2, UringSizes
    <3>2. Place(cq_head, k, cq_entries) # at /\ Place(cq_head, k, cq_entries) \in 0 .. cq_entries - 1
      BY <1>3, <2>2, <3>1, PlaceFacts
    <3> QED
      BY <1>1, <2>4, <3>2 DEF Posted
  <2>7. {Posted(k)'.user_data : k \in 0 .. (p + 1) - 1}
          = {Posted(k).user_data : k \in 0 .. p - 1} \cup {u}
    <3>1. \A k \in 0 .. (p + 1) - 1 : k \in 0 .. p - 1 \/ k = p
      OBVIOUS
    <3>2. 0 .. p - 1 \subseteq 0 .. (p + 1) - 1 /\ p \in 0 .. (p + 1) - 1
      OBVIOUS
    <3> QED
      BY <2>5, <2>6, <3>1, <3>2
  <2>8. ReadsTaken(n, p + 1)'
    <3>1. n = BLOCKS_PER_STEP => sq_head' = sq_tail'
      BY <1>1, <2>1 DEF ReadsTaken
    <3>2. cq_tail' = Counter(cq_head', p + 1)
      <4>1. Counter(Counter(cq_head, p), 1) = Counter(cq_head, p + 1)
        BY <1>3, CounterFacts
      <4> QED
        BY <1>1, <1>6, <2>1, <4>1 DEF ReadsTaken
    <3>3. (p + 1) + Cardinality(inflight') + completed' <= n
      BY <1>1, <1>3, <1>4, <2>1, <2>2 DEF ReadsTaken
    <3>4. StepReads(n)'
            = inflight' \cup {Posted(k)'.user_data : k \in 0 .. (p + 1) - 1} \cup reaped'
      <4>1. StepReads(n)' = StepReads(n)
        BY <1>1 DEF StepReads, user_data
      <4>2. StepReads(n) = inflight \cup {Posted(k).user_data : k \in 0 .. p - 1} \cup reaped
        BY <2>1 DEF ReadsTaken
      <4> QED
        BY <1>1, <2>7, <4>1, <4>2
    <3> QED
      BY <3>1, <3>2, <3>3, <3>4 DEF ReadsTaken
  <2> QED
    BY <2>2, <2>8 DEF StepTaken
<1> QED
  BY <1>1, <1>7, <1>8, <1>9 DEF UringInv, RingsEmpty, StepSubmitted, StepTaken

\* Every step of the program and of the kernel keeps the invariant.
LEMMA UringInvStep ==
    ASSUME UringInv, [UringNext]_uvars
    PROVE  UringInv'
<1>1. CASE EnterFails
  BY <1>1 DEF EnterFails, sq, cq, UringInv, UringTypeOK, RingsEmpty, StepSubmitted, StepTaken
<1>2. CASE Kernel
  BY <1>2, CompleteReadStep DEF Kernel
<1>3. CASE UNCHANGED uvars
  <2>1. UNCHANGED <<decode_step, reserved, completed, uring_pc, sq_head, sq_tail, sqe_array,
                    cq_head, cq_tail, cqe_array, inflight, reaped>>
    BY <1>3 DEF uvars, sq, cq
  <2>2. UringTypeOK' /\ RingsEmpty'
    BY <2>1 DEF UringInv, UringTypeOK, RingsEmpty
  <2>3. StepSubmitted'
    BY <2>1 DEF UringInv, StepSubmitted, Submitted, user_data
  <2>4. StepTaken'
    BY <2>1 DEF UringInv, StepTaken, ReadsTaken, StepReads, Posted, user_data
  <2> QED
    BY <2>2, <2>3, <2>4 DEF UringInv
<1> QED
  BY <1>1, <1>2, <1>3, PredictReadsStep, ReserveStep, EnterStep, ReapStep, StepDoneStep
     DEF UringNext, UringMain

-----------------------------------------------------------------------------
(***************************************************************************)
(* The composition                                                         *)
(***************************************************************************)
\* The invariant of the program that runs; without one of the two, no handler.
UffdInv ==
    /\ program \in {"prefetch", "migration", "bench", "uring"}
    /\ program = "prefetch" => PrefetchInv
    /\ program = "migration" => MigrationInv
    /\ program \in {"bench", "uring"} => handler_pc = "poll"

\* The program that is chosen starts as it does alone.
LEMMA UffdInvInit == Init => UffdInv
BY PrefetchInvInit, MigrationInvInit DEF Init, UffdInv, PrefetchInit

\* A program that does not run changes nothing of what the others work on.
LEMMA UffdInvStep ==
    ASSUME UffdInv, [Next]_vars
    PROVE  UffdInv'
<1>1. CASE program = "prefetch" /\ PrefetchNext /\ UNCHANGED program
  BY <1>1, PrefetchInvStep DEF UffdInv
<1>2. CASE program = "migration" /\ MigrationNext /\ UNCHANGED program
  BY <1>2, MigrationInvStep DEF UffdInv
<1>3. CASE program \in {"bench", "uring"} /\ UNCHANGED <<program, pvars>>
  BY <1>3 DEF UffdInv, pvars, handlerVars
<1>4. CASE UNCHANGED vars
  <2>1. UNCHANGED <<program, pvars, mvars>>
    BY <1>4 DEF vars
  <2>2. UNCHANGED handler_pc
    BY <2>1 DEF pvars, handlerVars
  <2> QED
    BY <2>1, <2>2, PrefetchInvStep, MigrationInvStep DEF UffdInv
<1> QED
  BY <1>1, <1>2, <1>3, <1>4 DEF Next

\* Whichever program runs keeps the invariant of its own proof.
LEMMA UffdInvariant == Spec => []UffdInv
<1>1. Init => UffdInv
  BY UffdInvInit
<1>2. UffdInv /\ [Next]_vars => UffdInv'
  BY UffdInvStep
<1> QED
  BY <1>1, <1>2, PTL DEF Spec

\* In both programs the handler copies only the page on which the decode thread
\* sleeps, though in kv_uffd_prefetch.c both threads copy pages: its UFFDIO_COPY
\* never meets EEXIST, which would leave the sleeper without a wake up.
THEOREM HandlersNeverRace == Spec => []HandlerCopiesForSleeper
<1>1. UffdInv => HandlerCopiesForSleeper
  BY DEF UffdInv, PrefetchInv, MigrationInv, OneFault, HandlerCopiesForSleeper
<1> QED
  BY <1>1, UffdInvariant, PTL

\* The fault count that kv_uffd_prefetch.c prints without a join lacks the last
\* fault at most.
THEOREM PrefetchReport == Spec => []PrefetchFaultsCounted
<1>1. PrefetchInv => FaultsCounted
  BY DEF PrefetchInv, PrefetchCounted, PrefetchInHand, FaultsCounted, OneFault
<1>2. UffdInv => PrefetchFaultsCounted
  BY <1>1 DEF UffdInv, PrefetchFaultsCounted
<1> QED
  BY <1>2, UffdInvariant, PTL

\* The report of kv_uffd_migration.c, made from what the handler counted without a
\* lock, is complete, and the handler ends only when no thread can fault again.
THEOREM MigrationReport == Spec => []MigrationIsComplete
<1>1. MigrationInv => ReportIsComplete /\ NoFaultUnserved
  BY MigrationInvReports
<1>2. UffdInv => MigrationIsComplete
  BY <1>1 DEF UffdInv, MigrationIsComplete
<1> QED
  BY <1>2, UffdInvariant, PTL

\* The benchmark's invariant holds whichever program runs.
LEMMA BenchInvariant == Spec => []BenchInv
<1>1. Init => BenchInv
  BY BenchInvInit DEF Init
<1>2. [Next]_vars => [BenchNext]_bvars
  BY DEF Next, vars
<1>3. BenchInv /\ [Next]_vars => BenchInv'
  BY <1>2, BenchInvStep
<1> QED
  BY <1>1, <1>3, PTL DEF Spec

\* No result of kv_io_priority_bench.py comes from a worker that died, from a file of
\* an earlier iteration, or from a spill file that short writes have made longer.
THEOREM BenchReportsWholeResults == Spec => ResultsAreWhole
<1>1. [Next]_vars => [BenchNext]_bvars
  BY DEF Next, vars
<1>2. ASSUME BenchInv, [Next]_vars
      PROVE  [results' > results =>
                /\ \A w \in Workers : worker[w] = "ended"
                /\ write_size <= background_size => file_size = background_size]_bvars
  BY <1>1, <1>2, BenchResults
<1> QED
  BY <1>2, BenchInvariant, PTL DEF Spec, ResultsAreWhole

\* The invariant of kv_io_uring_prefetch.py holds whichever program runs.
LEMMA UringInvariant == Spec => []UringInv
<1>1. Init => UringInv
  BY UringInvInit DEF Init
<1>2. [Next]_vars => [UringNext]_uvars
  BY DEF Next, vars
<1>3. UringInv /\ [Next]_vars => UringInv'
  BY <1>2, UringInvStep
<1> QED
  BY <1>1, <1>3, PTL DEF Spec

\* A step of kv_io_uring_prefetch.py is over when exactly its own reads are reaped,
\* although its loop only counts completions: none of an earlier step is counted, and
\* neither ring overwrites an entry when its counters wrap.
THEOREM UringStepsReapTheirReads == Spec => StepReapsItsReads
<1>1. ASSUME UringInv, StepDone
      PROVE  reaped = {user_data(k) : k \in 1 .. BLOCKS_PER_STEP}
  BY <1>1, AllReaped DEF StepDone, StepReads
<1>2. ASSUME UringInv
      PROVE  [StepDone => reaped = {user_data(k) : k \in 1 .. BLOCKS_PER_STEP}]_uvars
  BY <1>1, <1>2
<1> QED
  BY <1>2, UringInvariant, PTL DEF StepReapsItsReads

-----------------------------------------------------------------------------
(***************************************************************************)
(* memory_intent_ring.c: arithmetic of wrapping counters                   *)
(***************************************************************************)
Positions == 0 .. Modulus - 1

\* An increment stays in range and wraps at Modulus.
LEMMA IncrementWraps ==
    ASSUME NEW x \in Positions
    PROVE  /\ IncrementCounter(x) = IF x + 1 = Modulus THEN 0 ELSE x + 1
           /\ IncrementCounter(x) \in Positions
BY RingAssumption DEF Positions, IncrementCounter

\* Unsigned subtraction of two counters.
LEMMA DistanceCases ==
    ASSUME NEW h \in Positions, NEW t \in Positions
    PROVE  /\ Distance(h, t) = IF h >= t THEN h - t ELSE h - t + Modulus
           /\ Distance(h, t) \in Positions
BY RingAssumption DEF Positions, Distance

\* Advancing head on a ring with room adds one entry, across the wrap of head.
LEMMA DistanceAfterPush ==
    ASSUME NEW h \in Positions, NEW t \in Positions, Distance(h, t) < Capacity
    PROVE  Distance(IncrementCounter(h), t) = Distance(h, t) + 1
<1> DEFINE n == IncrementCounter(h)
<1>1. n \in Positions /\ n = IF h + 1 = Modulus THEN 0 ELSE h + 1
  BY IncrementWraps
<1>2. Distance(n, t) = IF n >= t THEN n - t ELSE n - t + Modulus
  BY <1>1, DistanceCases
<1>3. Distance(h, t) = IF h >= t THEN h - t ELSE h - t + Modulus
  BY DistanceCases
<1> HIDE DEF n
<1>4. Distance(n, t) = Distance(h, t) + 1
  BY <1>1, <1>2, <1>3, RingAssumption DEF Positions
<1> QED
  BY <1>4 DEF n

\* Advancing tail on a ring with an entry removes one, across the wrap of tail.
LEMMA DistanceAfterPop ==
    ASSUME NEW h \in Positions, NEW t \in Positions, Distance(h, t) > 0
    PROVE  Distance(h, IncrementCounter(t)) = Distance(h, t) - 1
<1> DEFINE n == IncrementCounter(t)
<1>1. n \in Positions /\ n = IF t + 1 = Modulus THEN 0 ELSE t + 1
  BY IncrementWraps
<1>2. Distance(h, n) = IF h >= n THEN h - n ELSE h - n + Modulus
  BY <1>1, DistanceCases
<1>3. Distance(h, t) = IF h >= t THEN h - t ELSE h - t + Modulus
  BY DistanceCases
<1> HIDE DEF n
<1>4. Distance(h, n) = Distance(h, t) - 1
  BY <1>1, <1>2, <1>3, RingAssumption DEF Positions
<1> QED
  BY <1>4 DEF n

\* The k-th position from the tail, for k up to the number of entries.
LEMMA PositionFromTail ==
    ASSUME NEW h \in Positions, NEW t \in Positions, NEW k \in 0 .. Distance(h, t)
    PROVE  /\ (t + k) % Modulus = IF t + k >= Modulus THEN t + k - Modulus ELSE t + k
           /\ (t + k) % Modulus \in Positions
           /\ Distance(h, (t + k) % Modulus) = Distance(h, t) - k
           /\ k = Distance(h, t) => (t + k) % Modulus = h
<1> DEFINE p == (t + k) % Modulus
<1>1. Distance(h, t) \in Positions
      /\ Distance(h, t) = IF h >= t THEN h - t ELSE h - t + Modulus
  BY DistanceCases
<1>2. k \in Positions /\ t + k < 2 * Modulus /\ t + k \in Nat
  BY <1>1, RingAssumption DEF Positions
<1>3. p \in Positions /\ p = IF t + k >= Modulus THEN t + k - Modulus ELSE t + k
  BY <1>2, RingAssumption DEF Positions
<1>4. Distance(h, p) = IF h >= p THEN h - p ELSE h - p + Modulus
  BY <1>3, DistanceCases
<1> HIDE DEF p
<1>5. Distance(h, p) = Distance(h, t) - k /\ (k = Distance(h, t) => p = h)
  BY <1>1, <1>2, <1>3, <1>4, RingAssumption DEF Positions
<1> QED
  BY <1>3, <1>5 DEF p

\* A counter is a whole number of turns of the ring and its slot.
LEMMA Turns ==
    ASSUME NEW x \in Nat
    PROVE  /\ x % Capacity \in Nat
           /\ \E q \in Nat : x = Capacity * q + (x % Capacity)
<1>1. Capacity \in Nat /\ Capacity > 0
  BY RingAssumption
<1> DEFINE q == x \div Capacity
<1>2. q \in Nat /\ x = Capacity * q + (x % Capacity) /\ x % Capacity \in Nat
  BY <1>1
<1> QED
  BY <1>2

\* Two counters less than Capacity apart, and not equal, name different slots.
LEMMA SlotsDiffer ==
    ASSUME NEW h \in Positions, NEW t \in Positions,
           0 < Distance(h, t), Distance(h, t) < Capacity
    PROVE  Slot(h) # Slot(t)
<1> SUFFICES ASSUME Slot(h) = Slot(t) PROVE FALSE
  OBVIOUS
<1>0. h \in Nat /\ t \in Nat
  BY RingAssumption DEF Positions
<1>1. PICK a \in Nat : h = Capacity * a + Slot(h)
  BY <1>0, Turns DEF Slot
<1>2. PICK b \in Nat : t = Capacity * b + Slot(t)
  BY <1>0, Turns DEF Slot
<1>3. PICK m \in Nat : Modulus = Capacity * m
  BY RingAssumption
<1>4. Slot(h) \in Int
  BY <1>0, Turns DEF Slot
<1>5. h - t = Capacity * (a - b)
  BY <1>1, <1>2, <1>4, RingAssumption
<1>6. h - t + Modulus = Capacity * (a - b + m)
  BY <1>3, <1>5, RingAssumption
<1>7. PICK k \in Int : Distance(h, t) = Capacity * k
  BY <1>5, <1>6, DistanceCases
<1>8. ASSUME NEW j \in Int PROVE ~ (0 < Capacity * j /\ Capacity * j < Capacity)
  BY RingAssumption
<1> QED
  BY <1>7, <1>8

\* Masking a counter gives an index of the entries array.
LEMMA SlotIsSlot ==
    ASSUME NEW x \in Positions
    PROVE  Slot(x) \in Slots
BY RingAssumption DEF Positions, Slot, Slots

-----------------------------------------------------------------------------
(***************************************************************************)
(* The inductive invariant                                                 *)
(***************************************************************************)
\* Between its check and its publication a push still finds room, and a pop an
\* entry: the other side can only make more of it.
Reserved ==
    /\ Count <= Capacity
    /\ push_pc # "idle" => Count < Capacity
    /\ pop_pc # "idle" => Count > 0

\* How far each copy has come.
CopiesInProgress ==
    /\ push_pc \in {"write2", "publish"} => entries[Slot(head)][1] = push_entry
    /\ push_pc = "publish" => entries[Slot(head)][2] = push_entry
    /\ pop_pc \in {"read2", "retire"} => out[1] = entries[Slot(tail)][1]
    /\ pop_pc = "retire" => out[2] = entries[Slot(tail)][2]

RingInvariant == RingTypeOK /\ Reserved /\ CopiesInProgress

\* Both counters are in range and so are the slots they name.
LEMMA RingHeadAndTail ==
    ASSUME RingTypeOK
    PROVE  /\ head \in Positions /\ tail \in Positions
           /\ Slot(head) \in Slots /\ Slot(tail) \in Slots
           /\ Count \in Positions
           /\ Count = 0 <=> head = tail
<1>1. head \in Positions /\ tail \in Positions
  BY DEF RingTypeOK, Positions
<1>2. Count \in Positions
      /\ Count = IF head >= tail THEN head - tail ELSE head - tail + Modulus
  BY <1>1, DistanceCases DEF Count
<1>3. Count = 0 <=> head = tail
  BY <1>1, <1>2, RingAssumption DEF Positions
<1> QED
  BY <1>1, <1>2, <1>3, SlotIsSlot

\* While both sides are inside a call they use different slots.
LEMMA SlotsApart ==
    ASSUME RingTypeOK, Reserved, push_pc # "idle", pop_pc # "idle"
    PROVE  Slot(head) # Slot(tail)
BY RingHeadAndTail, SlotsDiffer, RingAssumption DEF Reserved, Count, Positions

\* A write to the head's slot changes nothing else.
LEMMA WriteEffect ==
    ASSUME RingTypeOK, NEW half \in Halves, PushWrite(half)
    PROVE  /\ entries' \in [Slots -> [Halves -> Entries]]
           /\ entries'[Slot(head)][half] = push_entry
           /\ \A h \in Halves : h # half => entries'[Slot(head)][h] = entries[Slot(head)][h]
           /\ \A s \in Slots : s # Slot(head) => entries'[s] = entries[s]
BY RingHeadAndTail DEF RingTypeOK, PushWrite

\* Every load, copy and publication of either side keeps the invariant.
LEMMA RingStep ==
    ASSUME RingInvariant, [RingNext]_ringVars
    PROVE  RingInvariant'
<1> USE DEF RingInvariant
<1>0. /\ head \in Positions /\ tail \in Positions /\ Count \in Positions
      /\ Slot(head) \in Slots /\ Slot(tail) \in Slots
      /\ Count = 0 <=> head = tail
  BY RingHeadAndTail
<1>1. ASSUME NEW e \in Entries, PushBegin(e) PROVE RingInvariant'
  <2>1. Count < Capacity
    BY <1>1, <1>0, RingAssumption DEF PushBegin, mi_ring_full, Positions
  <2>2. Count' = Count
    BY <1>1 DEF PushBegin, Count
  <2> QED
    BY <1>1, <2>1, <2>2 DEF PushBegin, RingTypeOK, Reserved, CopiesInProgress, consumer
<1>2. ASSUME NEW half \in Halves, PushWrite(half) PROVE RingInvariant'
  <2>1. RingTypeOK'
    BY <1>2, WriteEffect DEF RingTypeOK, PushWrite, consumer
  <2>2. Reserved'
    BY <1>2 DEF PushWrite, consumer, Reserved, Count
  <2>3. pop_pc # "idle" => entries'[Slot(tail)] = entries[Slot(tail)]
    BY <1>2, <1>0, WriteEffect, SlotsApart DEF PushWrite
  <2>4. CopiesInProgress'
    <3>1. /\ pop_pc' = pop_pc /\ out' = out /\ head' = head /\ tail' = tail
          /\ push_entry' = push_entry
      BY <1>2 DEF PushWrite, consumer
    <3>2. CASE half = 1
      BY <1>2, <2>3, <3>1, <3>2, WriteEffect DEF PushWrite, CopiesInProgress
    <3>3. CASE half = 2
      <4>1. entries'[Slot(head)][1] = entries[Slot(head)][1]
        BY <1>2, <3>3, WriteEffect DEF Halves
      <4> QED
        BY <1>2, <2>3, <3>1, <3>3, <4>1, WriteEffect DEF PushWrite, CopiesInProgress
    <3> QED
      BY <3>2, <3>3 DEF Halves
  <2> QED
    BY <2>1, <2>2, <2>4
<1>3. CASE PushPublish
  <2>1. head' = IncrementCounter(head) /\ tail' = tail /\ head' \in Positions
    BY <1>3, <1>0, IncrementWraps DEF PushPublish
  <2>2. Count' = Count + 1 /\ Count < Capacity
    BY <1>3, <1>0, <2>1, DistanceAfterPush DEF PushPublish, Reserved, Count
  <2>3. Reserved'
    BY <1>3, <1>0, <2>2, RingAssumption DEF PushPublish, consumer, Reserved, Positions
  <2>4. RingTypeOK' /\ CopiesInProgress'
    BY <1>3, <2>1 DEF PushPublish, consumer, RingTypeOK, CopiesInProgress, Positions
  <2> QED
    BY <2>3, <2>4
<1>4. CASE PopBegin
  <2>1. Count > 0 /\ Count' = Count
    BY <1>4, <1>0, RingAssumption DEF PopBegin, mi_ring_empty, Positions, Count
  <2> QED
    BY <1>4, <2>1 DEF PopBegin, producer, RingTypeOK, Reserved, CopiesInProgress
<1>5. ASSUME NEW half \in Halves, PopRead(half) PROVE RingInvariant'
  <2>1. entries[Slot(tail)] \in [Halves -> Entries]
    BY <1>0 DEF RingTypeOK
  <2>2. /\ out' \in [Halves -> Entries]
        /\ out'[half] = entries[Slot(tail)][half]
        /\ \A h \in Halves : h # half => out'[h] = out[h]
    BY <1>5, <2>1 DEF PopRead, RingTypeOK
  <2>3. Count' = Count
    BY <1>5 DEF PopRead, Count
  <2>4. RingTypeOK' /\ Reserved'
    BY <1>5, <2>2, <2>3 DEF PopRead, producer, RingTypeOK, Reserved
  <2>5. CopiesInProgress'
    BY <1>5, <2>2 DEF PopRead, producer, CopiesInProgress, Halves
  <2> QED
    BY <2>4, <2>5
<1>6. CASE PopRetire
  <2>1. tail' = IncrementCounter(tail) /\ head' = head /\ tail' \in Positions
    BY <1>6, <1>0, IncrementWraps DEF PopRetire
  <2>2. Count' = Count - 1 /\ Count > 0
    BY <1>6, <1>0, <2>1, DistanceAfterPop DEF PopRetire, Reserved, Count
  <2>3. Reserved'
    BY <1>6, <1>0, <2>2, RingAssumption DEF PopRetire, producer, Reserved, Positions
  <2>4. RingTypeOK' /\ CopiesInProgress'
    BY <1>6, <2>1 DEF PopRetire, producer, RingTypeOK, CopiesInProgress, Positions
  <2> QED
    BY <2>3, <2>4
<1>7. CASE UNCHANGED ringVars
  BY <1>7 DEF ringVars, RingTypeOK, Reserved, CopiesInProgress, Count
<1> QED
  BY <1>1, <1>2, <1>3, <1>4, <1>5, <1>6, <1>7 DEF RingNext, Push, Pop

\* mi_ring_init establishes the invariant.
LEMMA RingInitially == RingInit => RingInvariant
<1> SUFFICES ASSUME RingInit PROVE RingInvariant
  OBVIOUS
<1>1. PICK e \in Entries : entries = [s \in Slots |-> Whole(e)]
  BY DEF RingInit
<1>2. RingTypeOK
  BY <1>1, RingAssumption DEF RingInit, RingTypeOK, Whole, Halves
<1>3. Count = 0
  BY <1>2, RingHeadAndTail DEF RingInit
<1> QED
  BY <1>2, <1>3, RingAssumption DEF RingInit, RingInvariant, Reserved, CopiesInProgress

\* The invariant holds under every interleaving of producer and consumer.
LEMMA RingInvariantHolds == RingSpec => []RingInvariant
BY RingInitially, RingStep, PTL DEF RingSpec

\* The counters and the slots keep their types: no step leaves 64 bits.
THEOREM RingTypeCorrect == RingSpec => []RingTypeOK
BY RingInvariantHolds, PTL DEF RingInvariant

\* The ring never holds more than Capacity entries, across any wraparound.
THEOREM RingWithinCapacity == RingSpec => []WithinCapacity
<1>1. RingInvariant => WithinCapacity
  BY DEF RingInvariant, Reserved, WithinCapacity
<1> QED
  BY <1>1, RingInvariantHolds, PTL

\* A push and a pop in progress never touch the same slot.
THEOREM RingNoSlotRace == RingSpec => []NoSlotRace
<1>1. RingInvariant => NoSlotRace
  BY SlotsApart DEF RingInvariant, NoSlotRace
<1> QED
  BY <1>1, RingInvariantHolds, PTL

-----------------------------------------------------------------------------
(***************************************************************************)
(* The ring implements the queue                                           *)
(***************************************************************************)
\* The position of the k-th oldest entry: it lies behind head by at most Count.
LEMMA OccupiedPosition ==
    ASSUME RingInvariant, NEW k \in 1 .. Count
    PROVE  /\ (tail + k - 1) % Modulus \in Positions
           /\ Distance(head, (tail + k - 1) % Modulus) = Count - (k - 1)
<1>1. head \in Positions /\ tail \in Positions /\ Count \in Positions
  BY RingHeadAndTail DEF RingInvariant
<1>2. k - 1 \in 0 .. Distance(head, tail) /\ tail + (k - 1) = tail + k - 1
  BY <1>1 DEF Count, Positions
<1> QED
  BY <1>1, <1>2, PositionFromTail DEF Count

\* The slot being written holds none of the queue's entries.
LEMMA WriteKeepsContents ==
    ASSUME RingInvariant, NEW half \in Halves, PushWrite(half)
    PROVE  Contents' = Contents
<1>1. head \in Positions /\ tail \in Positions /\ Count \in Positions /\ Count < Capacity
  BY RingHeadAndTail DEF RingInvariant, Reserved, PushWrite
<1>2. ASSUME NEW k \in 1 .. Count
      PROVE  entries'[Slot((tail + k - 1) % Modulus)] = entries[Slot((tail + k - 1) % Modulus)]
  <2> DEFINE p == (tail + k - 1) % Modulus
  <2>1. p \in Positions /\ Distance(head, p) = Count - (k - 1)
    BY OccupiedPosition
  <2> HIDE DEF p
  <2>2. 0 < Distance(head, p) /\ Distance(head, p) < Capacity
    BY <1>1, <2>1, RingAssumption DEF Positions
  <2>3. Slot(head) # Slot(p) /\ Slot(p) \in Slots
    BY <1>1, <2>1, <2>2, SlotsDiffer, SlotIsSlot
  <2>4. entries'[Slot(p)] = entries[Slot(p)]
    BY <2>3, WriteEffect DEF RingInvariant
  <2> QED
    BY <2>4 DEF p
<1>3. Count' = Count /\ tail' = tail
  BY DEF PushWrite, Count
<1> QED
  BY <1>2, <1>3 DEF Contents

\* Publishing head appends the entry that the push has copied.
LEMMA PublishEnqueues ==
    ASSUME RingInvariant, PushPublish
    PROVE  Queue!Enqueue(Whole(push_entry))
<1>0. head \in Positions /\ tail \in Positions /\ Count \in Positions
      /\ Slot(head) \in Slots /\ Count < Capacity
  BY RingHeadAndTail DEF RingInvariant, Reserved, PushPublish
<1>1. head' = IncrementCounter(head) /\ tail' = tail /\ entries' = entries /\ delivered' = delivered
  BY DEF PushPublish, consumer
<1>2. Count' = Count + 1
  BY <1>0, <1>1, DistanceAfterPush DEF Count
<1>3. entries[Slot(head)] = Whole(push_entry)
  <2>1. entries[Slot(head)] \in [Halves -> Entries]
    BY <1>0 DEF RingInvariant, RingTypeOK
  <2>2. \A h \in Halves : entries[Slot(head)][h] = push_entry
    BY DEF RingInvariant, CopiesInProgress, PushPublish, Halves
  <2> QED
    BY <2>1, <2>2 DEF Whole
<1>4. (tail + (Count + 1) - 1) % Modulus = head
  <2>1. tail + (Count + 1) - 1 = tail + Count /\ Count \in 0 .. Distance(head, tail)
    BY <1>0 DEF Positions, Count
  <2>2. (tail + Count) % Modulus = head
    BY <1>0, <2>1, PositionFromTail DEF Count
  <2> QED
    BY <2>1, <2>2
<1>5. Contents' = [k \in 1 .. Count + 1 |-> entries[Slot((tail + k - 1) % Modulus)]]
  BY <1>1, <1>2 DEF Contents
<1> DEFINE at(k) == entries[Slot((tail + k - 1) % Modulus)]
           old == [k \in 1 .. Count |-> at(k)]
           new == [k \in 1 .. Count + 1 |-> at(k)]
<1>6. Contents = old /\ Contents' = new
  BY <1>5 DEF Contents
<1>7. at(Count + 1) = Whole(push_entry)
  BY <1>3, <1>4
<1>8. Len(old) = Count
  <2>1. Count \in Nat
    BY <1>0, RingAssumption DEF Positions
  <2> HIDE DEF at
  <2> QED
    BY <2>1
<1>9. new = Append(old, Whole(push_entry))
  <2>1. Count \in Nat
    BY <1>0, RingAssumption DEF Positions
  <2> HIDE DEF at
  <2>2. Append(old, Whole(push_entry)) =
          [k \in 1 .. Count + 1 |-> IF k = Count + 1 THEN Whole(push_entry) ELSE old[k]]
    BY <1>8, <2>1
  <2> QED
    BY <2>1, <2>2, <1>7
<1> QED
  BY <1>0, <1>1, <1>6, <1>8, <1>9, RingAssumption DEF Queue!Enqueue, Positions

\* Retiring tail takes the oldest entry out, and it is the one that was copied.
LEMMA RetireDequeues ==
    ASSUME RingInvariant, PopRetire
    PROVE  Queue!Dequeue
<1>0. head \in Positions /\ tail \in Positions /\ Count \in Positions
      /\ Slot(tail) \in Slots /\ Count > 0
  BY RingHeadAndTail DEF RingInvariant, Reserved, PopRetire
<1>1. tail' = IncrementCounter(tail) /\ head' = head /\ entries' = entries /\ delivered' = out
  BY DEF PopRetire, producer
<1>2. Count' = Count - 1 /\ tail' \in Positions
  BY <1>0, <1>1, DistanceAfterPop, IncrementWraps DEF Count
<1>3. out = entries[Slot(tail)]
  <2>1. entries[Slot(tail)] \in [Halves -> Entries] /\ out \in [Halves -> Entries]
    BY <1>0 DEF RingInvariant, RingTypeOK
  <2>2. \A h \in Halves : out[h] = entries[Slot(tail)][h]
    BY DEF RingInvariant, CopiesInProgress, PopRetire, Halves
  <2> QED
    BY <2>1, <2>2
<1> DEFINE at(k) == entries[Slot((tail + k - 1) % Modulus)]
           old == [k \in 1 .. Count |-> at(k)]
<1>4. Count \in Nat /\ Count - 1 \in Nat
  BY <1>0, RingAssumption DEF Positions
<1>5. Contents = old
  BY DEF Contents
<1>6. at(1) = entries[Slot(tail)]
  BY <1>0, RingAssumption DEF Positions
<1>7. ASSUME NEW k \in 1 .. Count - 1
      PROVE  (tail' + k - 1) % Modulus = (tail + (k + 1) - 1) % Modulus
  <2>0. Count = Distance(head, tail) /\ Count' = Distance(head, tail')
    BY <1>1 DEF Count
  <2>1. k \in 0 .. Distance(head, tail) /\ k - 1 \in 0 .. Distance(head, tail')
        /\ k \in 1 .. Modulus
    BY <1>0, <1>2, <1>4, <2>0, RingAssumption DEF Positions
  <2>2. (tail + k) % Modulus = IF tail + k >= Modulus THEN tail + k - Modulus ELSE tail + k
    BY <1>0, <2>1, PositionFromTail
  <2>3. (tail' + (k - 1)) % Modulus
          = IF tail' + (k - 1) >= Modulus THEN tail' + (k - 1) - Modulus ELSE tail' + (k - 1)
    BY <1>0, <1>2, <2>1, PositionFromTail
  <2>4. tail' = IF tail + 1 = Modulus THEN 0 ELSE tail + 1
    BY <1>0, <1>1, IncrementWraps
  <2>5. (tail' + (k - 1)) % Modulus = (tail + k) % Modulus
    BY <1>0, <1>2, <2>1, <2>2, <2>3, <2>4, RingAssumption DEF Positions
  <2>6. tail' + k - 1 = tail' + (k - 1) /\ tail + (k + 1) - 1 = tail + k
    BY <1>0, <1>2, <2>1 DEF Positions
  <2> QED
    BY <2>5, <2>6
<1>8. Contents' = [k \in 1 .. Count - 1 |-> at(k + 1)]
  BY <1>1, <1>2, <1>7 DEF Contents
<1> HIDE DEF at
<1>9. Len(old) = Count /\ old # <<>> /\ Head(old) = at(1)
  BY <1>0, <1>4
<1>10. Tail(old) = [k \in 1 .. Count - 1 |-> at(k + 1)]
  BY <1>4, <1>9
<1> QED
  BY <1>1, <1>3, <1>5, <1>6, <1>8, <1>9, <1>10 DEF Queue!Dequeue

\* Under the invariant each step of the ring is a step of the queue or leaves
\* the queue as it was.
LEMMA RingStepsAreQueueSteps ==
    ASSUME RingInvariant, [RingNext]_ringVars
    PROVE  [Queue!QueueNext]_(Queue!queueVars)
<1>1. ASSUME NEW half \in Halves, PushWrite(half) PROVE UNCHANGED Queue!queueVars
  BY <1>1, WriteKeepsContents DEF Queue!queueVars, PushWrite, consumer
<1>2. CASE PushPublish
  <2>1. push_entry \in Entries
    BY DEF RingInvariant, RingTypeOK
  <2> QED
    BY <1>2, <2>1, PublishEnqueues DEF Queue!QueueNext
<1>3. CASE PopRetire
  BY <1>3, RetireDequeues DEF Queue!QueueNext
<1>4. ASSUME \/ \E e \in Entries : PushBegin(e)
             \/ PopBegin
             \/ \E half \in Halves : PopRead(half)
             \/ UNCHANGED ringVars
      PROVE  UNCHANGED Queue!queueVars
  <2>1. /\ head' = head /\ tail' = tail /\ entries' = entries /\ delivered' = delivered
    BY <1>4 DEF PushBegin, PopBegin, PopRead, ringVars, consumer, producer
  <2> QED
    BY <2>1 DEF Queue!queueVars, Contents, Count
<1> QED
  BY <1>1, <1>2, <1>3, <1>4 DEF RingNext, Push, Pop

\* The two sides, racing on shared memory, implement a first-in first-out queue
\* that delivers every pushed entry whole, once and in order, for every capacity
\* and counter width.
THEOREM RingImplementsQueue == RingSpec => ImplementsQueue
<1>1. RingInit => Queue!QueueInit
  <2> SUFFICES ASSUME RingInit PROVE Queue!QueueInit
    OBVIOUS
  <2>1. Count = 0
    BY RingInitially, RingHeadAndTail DEF RingInvariant, RingInit
  <2>2. Contents = <<>>
    BY <2>1 DEF Contents
  <2> QED
    BY <2>2 DEF Queue!QueueInit, RingInit
<1>2. RingInvariant /\ [RingNext]_ringVars => [Queue!QueueNext]_(Queue!queueVars)
  BY RingStepsAreQueueSteps
<1> QED
  BY <1>1, <1>2, RingInvariantHolds, PTL DEF RingSpec, ImplementsQueue, Queue!QueueSpec

===============================================================================
