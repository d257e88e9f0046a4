--------------------------- MODULE KvUffdMigration ---------------------------
(***************************************************************************)
(* kv_uffd_migration.c: main() touches random blocks, fault_handler copies *)
(* the missing ones and fills the statistics, and main() stops it with the *)
(* flag done and a join before it reports.                                 *)
(*                                                                         *)
(* Latencies are numbers of no interest; how many are kept is.             *)
(***************************************************************************)
EXTENDS Userfaultfd, FiniteSets

VARIABLES
    block_migrated,
    latency_count,
    migration_count,
    done

statistics == <<block_migrated, latency_count, migration_count>>
mvars == <<uffd, decodeVars, handlerVars, statistics, done>>

\* main_pc is "decode", "sleep", "join" or "exit", handler_pc "test", "poll",
\* "copy", "record" or "ended".
MigrationInit ==
    /\ setup_uffd
    /\ block_migrated = {}
    /\ latency_count = 0
    /\ migration_count = 0
    /\ done = FALSE
    /\ main_pc = "decode"
    /\ handler_pc = "test"

MigrationDecode ==
    /\ main_pc = "decode" /\ step < DECODE_STEPS
    /\ \E b \in BlockIndex :
          /\ Access(b)
          /\ main_pc' = IF b \in present THEN "decode" ELSE "sleep"
    /\ UNCHANGED <<handlerVars, statistics, done>>

MigrationResume ==
    /\ AccessAgain
    /\ main_pc' = "decode"
    /\ UNCHANGED <<statistics, done>>

Stop ==
    /\ main_pc = "decode" /\ step = DECODE_STEPS
    /\ done' = TRUE
    /\ main_pc' = "join"
    /\ UNCHANGED <<uffd, step, faults, handlerVars, statistics>>

\* Mutant: main() reports without waiting for the handler.
JoinAtOnce ==
    /\ main_pc = "join"
    /\ main_pc' = "exit"
    /\ UNCHANGED <<uffd, step, faults, handlerVars, statistics, done>>

\* pthread_join, and then the report.
MigrationJoin ==
    /\ main_pc = "join" /\ handler_pc = "ended"
    /\ main_pc' = "exit"
    /\ UNCHANGED <<uffd, step, faults, handlerVars, statistics, done>>

MigrationMain == MigrationDecode \/ MigrationResume \/ Stop \/ MigrationJoin

-----------------------------------------------------------------------------
TestDone ==
    /\ handler_pc = "test"
    /\ handler_pc' = IF done THEN "ended" ELSE "poll"
    /\ UNCHANGED <<uffd, decodeVars, block, statistics, done>>

\* Mutant: poll() waits for a fault without a time limit.
PollForEver == FALSE /\ UNCHANGED mvars

\* poll() returns 0 after 100 ms.
PollTimeout ==
    /\ handler_pc = "poll" /\ msgs = <<>>
    /\ handler_pc' = "test"
    /\ UNCHANGED <<uffd, decodeVars, block, statistics, done>>

MigrationReadFault == ReadFault /\ UNCHANGED <<statistics, done>>

MigrationHandlerCopy ==
    /\ CopyPage(block, "record", "test")
    /\ UNCHANGED <<statistics, done>>

\* main() is awake by now, but does not look at the statistics before the join.
Record ==
    /\ handler_pc = "record"
    /\ latency_count' = IF latency_count < DECODE_STEPS THEN latency_count + 1 ELSE latency_count
    /\ block_migrated' = block_migrated \cup {block}
    /\ migration_count' = migration_count + 1
    /\ handler_pc' = "test"
    /\ UNCHANGED <<uffd, decodeVars, block, done>>

MigrationHandler ==
    TestDone \/ PollTimeout \/ MigrationReadFault \/ MigrationHandlerCopy \/ Record

MigrationNext == MigrationMain \/ MigrationHandler

\* Two running threads.
MigrationFairness == WF_mvars(MigrationMain) /\ WF_mvars(MigrationHandler)

MigrationSpec == MigrationInit /\ [][MigrationNext]_mvars /\ MigrationFairness

-----------------------------------------------------------------------------
(***************************************************************************)
(* Properties                                                              *)
(***************************************************************************)
\* When main() reports, every fault has been counted, each with its latency, and
\* every populated block is marked, each once: the join waits for the record that
\* comes after the wake up of the last fault.
ReportIsComplete ==
    main_pc = "exit" =>
        /\ migration_count = faults /\ latency_count = faults
        /\ block_migrated = present
        /\ Cardinality(block_migrated) = migration_count

\* The handler leaves only when no fault can come any more.
NoFaultUnserved == handler_pc = "ended" => faulted = None /\ msgs = <<>>

\* The program ends, unless a copy failed: the handler wakes every sleeper, and it
\* notices done although no further fault wakes it up.
MigrationEnded == main_pc = "exit" \/ copy_failed

=============================================================================
