-------------------------- MODULE MCLinuxExperiments --------------------------
(***************************************************************************)
(* Model checking the stand-alone Linux experiments, which share nothing   *)
(* but the way they are checked: one of them is run, and the others do not *)
(* start.  The two userfaultfd programs have the variables of Userfaultfd  *)
(* in common.                                                              *)
(***************************************************************************)
EXTENDS KvUffdPrefetch, KvUffdMigration, KvIoPriorityBench, KvIoUringPrefetch, TLC

VARIABLE program

vars == <<program, pvars, mvars, bvars, uvars>>

ownPrefetch == <<block_present, fault_count, prefetchVars>>
ownMigration == <<statistics, done>>

\* What does not start keeps its first value.
PrefetchIdle ==
    /\ block_present = {} /\ fault_count = 0
    /\ prefetch_hits = 0 /\ last_block = 0 /\ reported = None
MigrationIdle ==
    /\ block_migrated = {} /\ latency_count = 0 /\ migration_count = 0 /\ done = FALSE

Init ==
    /\ BenchInit
    /\ UringInit
    /\ \/ program \in {"prefetch", "bench", "uring"} /\ PrefetchInit /\ MigrationIdle
       \/ program = "migration" /\ MigrationInit /\ PrefetchIdle

Next ==
    /\ UNCHANGED program
    /\ \/ program = "prefetch" /\ PrefetchNext /\ UNCHANGED <<ownMigration, bvars, uvars>>
       \/ program = "migration" /\ MigrationNext /\ UNCHANGED <<ownPrefetch, bvars, uvars>>
       \/ program = "bench" /\ BenchNext /\ UNCHANGED <<pvars, mvars, uvars>>
       \/ program = "uring" /\ UringNext /\ UNCHANGED <<pvars, mvars, bvars>>

\* The fairness of the program that runs.
Spec ==
    /\ Init /\ [][Next]_vars
    /\ WF_pvars(program = "prefetch" /\ PrefetchMain)
    /\ WF_pvars(program = "prefetch" /\ PrefetchHandler)
    /\ WF_mvars(program = "migration" /\ MigrationMain)
    /\ WF_mvars(program = "migration" /\ MigrationHandler)
    /\ WF_bvars(program = "bench" /\ BenchMain)
    /\ \A w \in Workers :
          /\ WF_bvars(program = "bench" /\ maybe_apply_priority(w))
          /\ WF_bvars(program = "bench" /\ WorkerEnds(w))
    /\ WF_uvars(program = "uring" /\ UringMain)
    /\ WF_uvars(program = "uring" /\ Kernel)

\* Every fault of kv_uffd_prefetch is counted or in hand, and the report lacks the
\* last one at most.
PrefetchFaultsCounted == program = "prefetch" => FaultsCounted

\* The report of kv_uffd_migration is complete, and no fault is left unserved.
MigrationIsComplete == program = "migration" => ReportIsComplete /\ NoFaultUnserved

\* The program that runs ends, but for what is excepted there: no sleep of a thread
\* and no wait for a process is left without the step that ends it.
ExperimentEnds ==
    <>(\/ program = "prefetch" /\ PrefetchEnded
       \/ program = "migration" /\ MigrationEnded
       \/ program = "bench" /\ BenchEnded
       \/ program = "uring" /\ UringEnded)

=============================================================================
