-------------------------- MODULE KvIoPriorityBench --------------------------
(***************************************************************************)
(* kv_io_priority_bench.py: each iteration prepares two files, starts a    *)
(* reader and a writer process, joins both, and collects the result files  *)
(* that they left in a temporary directory.  A worker may die of an        *)
(* exception at any point, also in the middle of its result file.          *)
(*                                                                         *)
(* Latencies, counts and throughput are left out; sizes and offsets are    *)
(* small numbers.  When a worker's time is up is a choice.                 *)
(***************************************************************************)
EXTENDS Integers, FiniteSetsExt

CONSTANTS
    iterations,
    mode,              \* "baseline" or "separated"
    critical_size, background_size,
    block_size, write_size

ASSUME BenchAssumption ==
    /\ iterations \in Nat \ {0}
    /\ mode \in {"baseline", "separated"}
    /\ {critical_size, background_size, block_size, write_size} \subseteq Nat \ {0}

Workers == {"critical", "background"}

VARIABLES
    bench_pc,               \* of the main process
    results,          \* the number of iteration results
    temp_dir,         \* does the temporary directory exist?
    worker,           \* "none", "running", "reporting", "ended" or "died"
    result_file,      \* "absent", "partial" or "complete"
    ioprio,           \* "unset", "active" or "warned", of each worker
    ioprio_active,    \* of the result, over all iterations
    priority_warnings,  \* are there any in the result?
    file_size,        \* the size of background_spills.dat
    offset,           \* of the writer
    last_read         \* the offset and length of the last read

workerVars == <<worker, result_file, ioprio, offset, last_read, file_size>>
resultVars == <<results, ioprio_active, priority_warnings>>
bvars == <<bench_pc, temp_dir, workerVars, resultVars>>

BenchInit ==
    /\ bench_pc = "ensure"
    /\ results = 0
    /\ temp_dir = FALSE
    /\ worker = [w \in Workers |-> "none"]
    /\ result_file = [w \in Workers |-> "absent"]
    /\ ioprio = [w \in Workers |-> "unset"]
    /\ ioprio_active = FALSE
    /\ priority_warnings = FALSE
    /\ file_size \in {0, background_size, background_size + 1}   \* from an earlier run
    /\ offset = 0
    /\ last_read = <<0, Min({block_size, critical_size})>>

-----------------------------------------------------------------------------
(***************************************************************************)
(* The workers                                                             *)
(***************************************************************************)
\* maybe_apply_priority: it fails with a warning, never silently.
maybe_apply_priority(w) ==
    /\ worker[w] = "running" /\ ioprio[w] = "unset"
    /\ \E outcome \in IF mode = "separated" THEN {"active", "warned"} ELSE {"none"} :
          ioprio' = [ioprio EXCEPT ![w] = outcome]
    /\ UNCHANGED <<bench_pc, temp_dir, worker, result_file, offset, last_read, file_size, resultVars>>

max_offset == Max({0, critical_size - block_size})

\* A random block of the file.
critical_reader ==
    /\ worker["critical"] = "running" /\ ioprio["critical"] # "unset"
    /\ \E block_index \in 0 .. max_offset \div block_size :
          LET at == block_index * block_size
          IN  last_read' = <<at, Min({block_size, critical_size - at})>>
    /\ UNCHANGED <<bench_pc, temp_dir, worker, result_file, ioprio, offset, file_size, resultVars>>

WriteOffsetLate == IF offset >= background_size THEN 0 ELSE offset    \* mutant

\* The writer starts over when the next write would not fit.
WriteOffset == IF offset + write_size > background_size THEN 0 ELSE offset

\* pwrite may write less than it was given.
background_writer ==
    /\ worker["background"] = "running" /\ ioprio["background"] # "unset"
    /\ \E written \in 1 .. write_size :
          /\ offset' = WriteOffset + written
          /\ file_size' = Max({file_size, WriteOffset + written})
    /\ UNCHANGED <<bench_pc, temp_dir, worker, result_file, ioprio, last_read, resultVars>>

\* The time is up: write_text opens the result file ...
OpenResult(w) ==
    /\ worker[w] = "running" /\ ioprio[w] # "unset"
    /\ worker' = [worker EXCEPT ![w] = "reporting"]
    /\ result_file' = [result_file EXCEPT ![w] = "partial"]
    /\ UNCHANGED <<bench_pc, temp_dir, ioprio, offset, last_read, file_size, resultVars>>

\* ... and fills it.
WriteResult(w) ==
    /\ worker[w] = "reporting"
    /\ worker' = [worker EXCEPT ![w] = "ended"]
    /\ result_file' = [result_file EXCEPT ![w] = "complete"]
    /\ UNCHANGED <<bench_pc, temp_dir, ioprio, offset, last_read, file_size, resultVars>>

\* An exception (a missing file, a full disk) ends the process.
Die(w) ==
    /\ worker[w] \in {"running", "reporting"}
    /\ worker' = [worker EXCEPT ![w] = "died"]
    /\ UNCHANGED <<bench_pc, temp_dir, result_file, ioprio, offset, last_read, file_size, resultVars>>

WorkerEnds(w) == OpenResult(w) \/ WriteResult(w) \/ Die(w)

-----------------------------------------------------------------------------
(***************************************************************************)
(* run_benchmark and main                                                  *)
(***************************************************************************)
\* ensure_file writes a file anew unless it has the right size; a full disk ends
\* the program.
ensure_file ==
    /\ bench_pc = "ensure"
    /\ \/ bench_pc' = "start" /\ file_size' = background_size
       \/ bench_pc' = "failed" /\ UNCHANGED file_size
    /\ UNCHANGED <<temp_dir, worker, result_file, ioprio, offset, last_read, resultVars>>

StartWorkers ==
    /\ bench_pc = "start"
    /\ temp_dir' = TRUE
    /\ worker' = [w \in Workers |-> "running"]
    /\ ioprio' = [w \in Workers |-> "unset"]
    /\ offset' = 0
    /\ bench_pc' = "join"
    /\ UNCHANGED <<result_file, last_read, file_size, resultVars>>

\* Both joins; a process that died is joined as well.
BenchJoin ==
    /\ bench_pc = "join"
    /\ \A w \in Workers : worker[w] \in {"ended", "died"}
    /\ bench_pc' = "collect"
    /\ UNCHANGED <<temp_dir, workerVars, resultVars>>

\* The finally clause.
CleanUp ==
    /\ temp_dir' = FALSE
    /\ result_file' = [w \in Workers |-> "absent"]

Readable == \A w \in Workers : result_file[w] # "absent"    \* mutant

\* read_text and json.loads of both files succeed.
BothComplete == \A w \in Workers : result_file[w] = "complete"

Warnings == \E w \in Workers : ioprio[w] = "warned"

\* build_result, added to the results that average_results combines.
Collect ==
    /\ bench_pc = "collect" /\ BothComplete
    /\ CleanUp
    /\ results' = results + 1
    /\ ioprio_active' = (ioprio_active \/ \E w \in Workers : ioprio[w] = "active")
    /\ priority_warnings' = (priority_warnings \/ Warnings)
    /\ bench_pc' = IF results' = iterations THEN "done" ELSE "ensure"
    /\ UNCHANGED <<worker, ioprio, offset, last_read, file_size>>

\* The exception leaves the program, and the results of earlier iterations with it.
CollectFails ==
    /\ bench_pc = "collect" /\ ~ BothComplete
    /\ CleanUp
    /\ bench_pc' = "failed"
    /\ UNCHANGED <<worker, ioprio, offset, last_read, file_size, resultVars>>

BenchMain == ensure_file \/ StartWorkers \/ BenchJoin \/ Collect \/ CollectFails

BenchNext ==
    \/ BenchMain
    \/ critical_reader
    \/ background_writer
    \/ \E w \in Workers : maybe_apply_priority(w) \/ WorkerEnds(w)

\* Main runs on, and a worker's loop ends with its time: duration_sec bounds it.
BenchFairness ==
    /\ WF_bvars(BenchMain)
    /\ \A w \in Workers : WF_bvars(maybe_apply_priority(w)) /\ WF_bvars(WorkerEnds(w))

BenchSpec == BenchInit /\ [][BenchNext]_bvars /\ BenchFairness

-----------------------------------------------------------------------------
(***************************************************************************)
(* Properties                                                              *)
(***************************************************************************)
\* Every result comes from two workers that ran to their end in that iteration, and
\* from a spill file of the right size: no half-written file of a worker that died,
\* no file of an earlier iteration, and no spill file that the writer has extended,
\* although short writes move it off the grid of its blocks.
ResultsAreWhole ==
    [][results' > results =>
         /\ \A w \in Workers : worker[w] = "ended"
         /\ write_size <= background_size => file_size = background_size]_bvars

\* The program ends without a temporary directory, whichever worker dies.
BenchEnded == bench_pc \in {"done", "failed"} /\ ~ temp_dir

=============================================================================
