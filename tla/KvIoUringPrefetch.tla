-------------------------- MODULE KvIoUringPrefetch --------------------------
(***************************************************************************)
(* kv_io_uring_prefetch.py: each decode step puts the reads of the blocks  *)
(* it predicts on the submission ring, enters the kernel, and reaps as     *)
(* many completions from the completion ring.  The kernel completes the    *)
(* reads in any order, and may take only some of the submissions.          *)
(*                                                                         *)
(* A read is named by its user_data, the pair of step and block, which     *)
(* names its buffer as well.  Latencies are left out.                      *)
(***************************************************************************)
EXTENDS Integers, FiniteSets

CONSTANTS
    READ_STEPS,      \* DECODE_STEPS of the program
    BLOCKS_PER_STEP, TOTAL_BLOCKS,
    sq_entries, cq_entries,
    CounterSpan,     \* 2^32: the ring counters wrap
    Unwritten        \* the content of a ring entry that nobody has written

ASSUME UringAssumption ==
    /\ {READ_STEPS, BLOCKS_PER_STEP, TOTAL_BLOCKS, sq_entries, cq_entries} \subseteq Nat \ {0}
    /\ BLOCKS_PER_STEP <= sq_entries /\ sq_entries <= cq_entries
    /\ BLOCKS_PER_STEP <= TOTAL_BLOCKS
    /\ CounterSpan \in Nat /\ CounterSpan % sq_entries = 0 /\ CounterSpan % cq_entries = 0
    /\ CounterSpan > cq_entries

VARIABLES
    decode_step,
    reserved,      \* how many of the step's reads are on the submission ring
    completed,
    uring_pc,          \* "predict", "reserve", "enter", "reap", "end" or "raised"
    sq_head, sq_tail, sqe_array,
    cq_head, cq_tail, cqe_array,
    inflight,    \* the reads that the kernel works on
    reaped       \* the reads whose completion this step has taken (an observer)

sq == <<sq_head, sq_tail, sqe_array>>
cq == <<cq_head, cq_tail, cqe_array>>
uvars == <<decode_step, reserved, completed, uring_pc, sq, cq, inflight, reaped>>

UringInit ==
    /\ decode_step = 0 /\ reserved = 0 /\ completed = 0
    /\ uring_pc = "predict"
    /\ sq_head = 0 /\ sq_tail = 0
    /\ sqe_array = [index \in 0 .. sq_entries - 1 |-> Unwritten]
    /\ cq_head = 0 /\ cq_tail = 0
    /\ cqe_array = [index \in 0 .. cq_entries - 1 |-> Unwritten]
    /\ inflight = {}
    /\ reaped = {}

Increment(counter) == (counter + 1) % CounterSpan

predicted_blocks(s) ==
    [k \in 1 .. BLOCKS_PER_STEP |-> (s * BLOCKS_PER_STEP + k - 1) % TOTAL_BLOCKS]

user_data(k) == <<decode_step, predicted_blocks(decode_step)[k]>>

-----------------------------------------------------------------------------
(***************************************************************************)
(* The program                                                             *)
(***************************************************************************)
\* buffers.clear() releases the buffers of the step before.
PredictReads ==
    /\ uring_pc = "predict" /\ decode_step < READ_STEPS
    /\ reserved' = 0 /\ completed' = 0
    /\ reaped' = {}
    /\ uring_pc' = "reserve"
    /\ UNCHANGED <<decode_step, sq, cq, inflight>>

Reserve ==
    /\ uring_pc = "reserve" /\ reserved < BLOCKS_PER_STEP
    /\ sqe_array' = [sqe_array EXCEPT ![sq_tail % sq_entries] = user_data(reserved + 1)]
    /\ sq_tail' = Increment(sq_tail)
    /\ reserved' = reserved + 1
    /\ uring_pc' = IF reserved' = BLOCKS_PER_STEP THEN "enter" ELSE "reserve"
    /\ UNCHANGED <<decode_step, completed, sq_head, cq, inflight, reaped>>

to_submit == BLOCKS_PER_STEP

\* io_uring_enter takes the entries in order.  How many it took is not looked
\* at, and when it took fewer it does not wait for completions.
Enter ==
    /\ uring_pc = "enter"
    /\ \E n \in 1 .. to_submit :
          /\ inflight' = inflight \cup
                {sqe_array[(sq_head + k) % sq_entries] : k \in 0 .. n - 1}
          /\ sq_head' = (sq_head + n) % CounterSpan
    /\ uring_pc' = "reap"
    /\ UNCHANGED <<decode_step, reserved, completed, sq_tail, sqe_array, cq, reaped>>

\* It fails, or takes nothing at all, with an OSError.
EnterFails ==
    /\ uring_pc = "enter"
    /\ uring_pc' = "raised"
    /\ UNCHANGED <<decode_step, reserved, completed, sq, cq, inflight, reaped>>

all_completed_one_less == completed >= BLOCKS_PER_STEP - 1    \* mutant

all_completed == completed >= BLOCKS_PER_STEP

\* A completion counts whatever its user_data is; with an empty ring the loop sleeps.
Reap ==
    /\ uring_pc = "reap" /\ ~ all_completed /\ cq_head # cq_tail
    /\ LET cqe == cqe_array[cq_head % cq_entries]
       IN  \/ /\ cqe.res < 0
              /\ uring_pc' = "raised"
              /\ UNCHANGED <<completed, cq_head, reaped>>
           \/ /\ cqe.res >= 0
              /\ cq_head' = Increment(cq_head)
              /\ completed' = completed + 1
              /\ reaped' = reaped \cup {cqe.user_data}
              /\ UNCHANGED uring_pc
    /\ UNCHANGED <<decode_step, reserved, sq, cq_tail, cqe_array, inflight>>

\* The latency of the step is recorded.
StepDone ==
    /\ uring_pc = "reap" /\ all_completed
    /\ decode_step' = decode_step + 1
    /\ uring_pc' = IF decode_step' = READ_STEPS THEN "end" ELSE "predict"
    /\ UNCHANGED <<reserved, completed, sq, cq, inflight, reaped>>

UringMain == PredictReads \/ Reserve \/ Enter \/ EnterFails \/ Reap \/ StepDone

-----------------------------------------------------------------------------
\* The kernel posts a completion; the program has no other use for the result
\* of a read than its sign.
CompleteRead(u) ==
    /\ u \in inflight
    /\ \E res \in {-1, 1} :
          cqe_array' = [cqe_array EXCEPT ![cq_tail % cq_entries] = [user_data |-> u, res |-> res]]
    /\ cq_tail' = Increment(cq_tail)
    /\ inflight' = inflight \ {u}
    /\ UNCHANGED <<decode_step, reserved, completed, uring_pc, sq, cq_head, reaped>>

Kernel == \E u \in inflight : CompleteRead(u)

UringNext == UringMain \/ Kernel

\* The program runs on, and the kernel completes every read that it has taken.
UringFairness == WF_uvars(UringMain) /\ WF_uvars(Kernel)

UringSpec == UringInit /\ [][UringNext]_uvars /\ UringFairness

-----------------------------------------------------------------------------
(***************************************************************************)
(* Properties                                                              *)
(***************************************************************************)
\* A step is over when exactly its own reads have completed: although the reap
\* loop counts completions without a look at their user_data, no completion of
\* an earlier step is counted, so that the latency is that of the step's reads.
StepReapsItsReads ==
    [][StepDone => reaped = {user_data(k) : k \in 1 .. BLOCKS_PER_STEP}]_uvars

\* The program ends unless the kernel left entries on the submission ring, for
\* which the reap loop waits in vain: no completion is lost between the two rings,
\* across their wraparound, and every other sleep is ended by one.
UringEnded ==
    uring_pc \in {"end", "raised"} \/ (uring_pc = "reap" /\ sq_head # sq_tail)

=============================================================================
