---------------------------- MODULE KvUffdPrefetch ----------------------------
(***************************************************************************)
(* kv_uffd_prefetch.c: the decode loop of main(), which predicts and       *)
(* prefetches the next block, and the thread fault_handler.  They share    *)
(* block_present and fault_count without a lock: each access is a step.    *)
(***************************************************************************)
EXTENDS Userfaultfd

VARIABLES
    block_present,
    fault_count,
    prefetch_hits,
    last_block,
    reported        \* the fault_count that main() prints

prefetchVars == <<prefetch_hits, last_block, reported>>
pvars == <<uffd, decodeVars, handlerVars, block_present, fault_count, prefetchVars>>

\* main_pc is "predict", "copy", "mark", "decode", "sleep" or "exit", handler_pc
\* "poll", "copy", "mark" or "count".
PrefetchInit ==
    /\ setup_uffd
    /\ block_present = {}
    /\ fault_count = 0
    /\ prefetch_hits = 0
    /\ last_block = 0
    /\ reported = None
    /\ main_pc = "predict"
    /\ handler_pc = "poll"

predicted == (last_block + 1) % NUM_BLOCKS

Predict ==
    /\ main_pc = "predict" /\ step < DECODE_STEPS
    /\ \/ /\ predicted \in block_present
          /\ prefetch_hits' = prefetch_hits + 1
          /\ main_pc' = "decode"
       \/ /\ predicted \notin block_present
          /\ main_pc' = "copy"
          /\ UNCHANGED prefetch_hits
    /\ UNCHANGED <<uffd, step, faults, handlerVars, block_present, fault_count, last_block, reported>>

\* Every result goes on to the mark: EEXIST silently, other errors with a message.
Prefetch ==
    /\ main_pc = "copy"
    /\ CopySucceeds(predicted) \/ CopyFails(predicted)
    /\ main_pc' = "mark"
    /\ UNCHANGED <<step, faults, handlerVars, block_present, fault_count, prefetchVars>>

MarkPrefetched ==
    /\ main_pc = "mark"
    /\ block_present' = block_present \cup {predicted}
    /\ main_pc' = "decode"
    /\ UNCHANGED <<uffd, step, faults, handlerVars, fault_count, prefetchVars>>

\* rand() % 3 blocks further; the access may fault.
PrefetchDecode ==
    /\ main_pc = "decode"
    /\ \E k \in 0 .. 2 :
          /\ last_block' = (last_block + k) % NUM_BLOCKS
          /\ Access(last_block')
          /\ main_pc' = IF last_block' \in present THEN "predict" ELSE "sleep"
    /\ UNCHANGED <<handlerVars, block_present, fault_count, prefetch_hits, reported>>

PrefetchResume ==
    /\ AccessAgain
    /\ main_pc' = "predict"
    /\ UNCHANGED <<block_present, fault_count, prefetchVars>>

\* main() returns without a join, and the handler ends with it: fault_count may
\* still lack the last fault.
Report ==
    /\ main_pc = "predict" /\ step = DECODE_STEPS
    /\ reported' = fault_count
    /\ main_pc' = "exit"
    /\ UNCHANGED <<uffd, step, faults, handlerVars, block_present, fault_count,
                   prefetch_hits, last_block>>

PrefetchMain ==
    Predict \/ Prefetch \/ MarkPrefetched \/ PrefetchDecode \/ PrefetchResume \/ Report

-----------------------------------------------------------------------------
Running == main_pc # "exit"

PrefetchReadFault ==
    /\ Running /\ ReadFault
    /\ UNCHANGED <<block_present, fault_count, prefetchVars>>

\* The start of the faulting page, which is its block's first.
page_addr == block

PrefetchHandlerCopy ==
    /\ Running /\ CopyPage(page_addr, "mark", "poll")
    /\ UNCHANGED <<block_present, fault_count, prefetchVars>>

\* Mutant: a block that is marked already is not counted.
HandlerMarkOnce ==
    /\ Running /\ handler_pc = "mark"
    /\ block_present' = block_present \cup {block}
    /\ handler_pc' = IF block \in block_present THEN "poll" ELSE "count"
    /\ UNCHANGED <<uffd, decodeVars, block, fault_count, prefetchVars>>

HandlerMark ==
    /\ Running /\ handler_pc = "mark"
    /\ block_present' = block_present \cup {block}
    /\ handler_pc' = "count"
    /\ UNCHANGED <<uffd, decodeVars, block, fault_count, prefetchVars>>

HandlerCount ==
    /\ Running /\ handler_pc = "count"
    /\ fault_count' = fault_count + 1
    /\ handler_pc' = "poll"
    /\ UNCHANGED <<uffd, decodeVars, block, block_present, prefetchVars>>

PrefetchHandler == PrefetchReadFault \/ PrefetchHandlerCopy \/ HandlerMark \/ HandlerCount

PrefetchNext == PrefetchMain \/ PrefetchHandler

\* Two running threads.
PrefetchFairness == WF_pvars(PrefetchMain) /\ WF_pvars(PrefetchHandler)

PrefetchSpec == PrefetchInit /\ [][PrefetchNext]_pvars /\ PrefetchFairness

-----------------------------------------------------------------------------
(***************************************************************************)
(* Properties                                                              *)
(***************************************************************************)
\* A block that either thread has marked present is populated, as long as no copy
\* has failed: neither thread marks before it copies.
MarkedIsPopulated == ~ copy_failed => block_present \subseteq present

\* The message queue, the handler and fault_count account for every fault, but
\* for one whose copy failed, and that is the last: the decode thread sleeps on
\* it.  So the printed count is short by one fault at most, the last.
FaultsCounted ==
    LET inHand == Len(msgs) + (IF handler_pc = "poll" THEN 0 ELSE 1)
    IN  /\ \/ faults = fault_count + inHand
           \/ faults = fault_count + inHand + 1 /\ copy_failed /\ main_pc = "sleep" /\ faulted # None
        /\ main_pc = "exit" => reported \in {faults - 1, faults}

\* The program ends, unless a copy failed: no fault message is lost and every
\* sleep is ended by the handler.
PrefetchEnded == main_pc = "exit" \/ copy_failed

=============================================================================
