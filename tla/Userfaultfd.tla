----------------------------- MODULE Userfaultfd -----------------------------
(***************************************************************************)
(* What the two userfaultfd experiments have in common: the two threads,   *)
(* and what they use of the kernel, for a region registered with           *)
(* UFFDIO_REGISTER_MODE_MISSING in which only the first page of each block *)
(* is touched.                                                             *)
(***************************************************************************)
EXTENDS Integers, Sequences

CONSTANTS
    NUM_BLOCKS,
    DECODE_STEPS,
    None

BlockIndex == 0 .. NUM_BLOCKS - 1

ASSUME UffdAssumption ==
    /\ NUM_BLOCKS \in Nat \ {0}
    /\ DECODE_STEPS \in Nat
    /\ None \notin BlockIndex

VARIABLES
    present,      \* the blocks whose page is populated
    faulted,      \* the block on which the decode thread sleeps, or None
    msgs,         \* the fault messages that have not been read
    step,         \* of the decode loop
    main_pc,
    handler_pc,
    block,        \* the block of the message that the handler has in hand
    faults,       \* how often the decode thread has faulted (an observer)
    copy_failed   \* has UFFDIO_COPY failed on a missing page? (an observer)

uffd == <<present, faulted, msgs, copy_failed>>
decodeVars == <<step, main_pc, faults>>
handlerVars == <<handler_pc, block>>

setup_uffd ==
    /\ present = {}
    /\ faulted = None
    /\ msgs = <<>>
    /\ copy_failed = FALSE
    /\ step = 0
    /\ block = None
    /\ faults = 0

\* An access to a missing page sends a message and puts the thread to sleep; the
\* step ends with the access.
Access(b) ==
    \/ /\ b \in present
       /\ step' = step + 1
       /\ UNCHANGED <<uffd, faults>>
    \/ /\ b \notin present
       /\ faulted' = b
       /\ msgs' = Append(msgs, b)
       /\ faults' = faults + 1
       /\ UNCHANGED <<present, copy_failed, step>>

\* Woken up, the access is made again and finds its page.
AccessAgain ==
    /\ main_pc = "sleep" /\ faulted = None
    /\ step' = step + 1
    /\ UNCHANGED <<uffd, faults, handlerVars>>

\* UFFDIO_COPY populates a missing page and wakes who sleeps on it.
CopySucceeds(b) ==
    /\ b \notin present
    /\ present' = present \cup {b}
    /\ faulted' = IF faulted = b THEN None ELSE faulted
    /\ UNCHANGED <<msgs, copy_failed>>

\* It fails with EEXIST for a page that is there, and wakes nobody then; and it
\* may fail for want of memory.
CopyFails(b) ==
    /\ copy_failed' = (copy_failed \/ b \notin present)
    /\ UNCHANGED <<present, faulted, msgs>>

\* Mutant: the message stays in the queue.
ReadFaultAgain ==
    /\ handler_pc = "poll" /\ msgs # <<>>
    /\ block' = Head(msgs)
    /\ handler_pc' = "copy"
    /\ UNCHANGED <<uffd, decodeVars>>

\* poll() and read() of the handler.
ReadFault ==
    /\ handler_pc = "poll" /\ msgs # <<>>
    /\ block' = Head(msgs)
    /\ msgs' = Tail(msgs)
    /\ handler_pc' = "copy"
    /\ UNCHANGED <<present, faulted, copy_failed, decodeVars>>

\* The handler copies the page that starts at page_addr.  A failed copy is not
\* tried again.
CopyPage(page_addr, copied, failed) ==
    /\ handler_pc = "copy"
    /\ \/ CopySucceeds(page_addr) /\ handler_pc' = copied
       \/ CopyFails(page_addr) /\ handler_pc' = failed
    /\ UNCHANGED <<decodeVars, block>>

\* The handler never races another copy for a page: when it copies, the decode
\* thread sleeps on that very page, so that the copy cannot fail with EEXIST,
\* which would wake nobody.  (In kv_uffd_prefetch.c both threads copy.)
HandlerCopiesForSleeper ==
    handler_pc = "copy" => main_pc = "sleep" /\ faulted = block /\ block \notin present

\* At most one fault is under way: its message is in the queue, or in the hands of
\* the handler, while the decode thread sleeps.
OneFault ==
    /\ \/ msgs = <<>>
       \/ msgs = <<faulted>> /\ faulted # None /\ handler_pc # "copy"
    /\ faulted # None => main_pc = "sleep" /\ faulted \notin present
    /\ HandlerCopiesForSleeper

=============================================================================
