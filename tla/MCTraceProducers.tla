--------------------------- MODULE MCTraceProducers ---------------------------
(***************************************************************************)
(* Model checking the producers of traces, each composed with the simulator *)
(* that replays what it writes: the initial state chooses one producer and *)
(* its input, and the others do not start.                                 *)
(***************************************************************************)
EXTENDS WorkloadTraces, SpeculativeDraft, MockVllmTrace

VARIABLE producer

mock == <<adapter, driver>>
allProducerVars == <<vars, trace, producer, input, draft, mock>>

Workloads == {"importer", "proxy", "prometheus", "synthetic"}

NoInput == input = <<>>
DraftsIdle == NoDrafts /\ frontier = <<>>
MockIdle == TablesEmpty /\ stage = "done" /\ req = 0 /\ n = 0

ProducersInit ==
    \/ /\ DraftsIdle /\ MockIdle
       /\ \/ producer = "importer" /\ ImporterInit
          \/ producer = "proxy" /\ ProxyInit
          \/ producer = "prometheus" /\ PrometheusInit
          \/ producer = "synthetic" /\ SyntheticInit
    \/ producer = "speculative" /\ SpeculativeInit /\ NoInput /\ MockIdle
    \/ producer = "mock" /\ MockInit /\ NoInput /\ DraftsIdle

\* The producer has written all of its trace, and run() has taken all of it.
Ended ==
    /\ Quiescent
    /\ producer = "speculative" => frontier = <<>> /\ pending = <<>>
    /\ producer = "mock" => stage = "done"

ProducersNext ==
    \/ /\ UNCHANGED producer
       /\ \/ producer \in Workloads /\ WorkloadNext /\ UNCHANGED <<draft, mock>>
          \/ producer = "speculative" /\ SpeculativeNext /\ UNCHANGED <<input, mock>>
          \/ producer = "mock" /\ MockNext /\ UNCHANGED <<input, draft>>
    \/ Ended /\ UNCHANGED allProducerVars

ProducersSpec == ProducersInit /\ [][ProducersNext]_allProducerVars

-----------------------------------------------------------------------------
MCRequests == 0 .. 1
MCDrafts == 0 .. 13
MCBlockIds == 0 .. MaxBlocks - 1
MCBlocks == (MCRequests \X MCBlockIds) \cup ({0} \X MCDrafts)
MCTiers == {"HBM", "DRAM"}
MCBlockCounts == [r \in MCRequests |-> 3 + r]
MCSizes == 1 .. 14
MCIntents ==
    {i \in [phase : Phase, priority : Priority, pin_requested : BOOLEAN,
            allowed_tiers : {MCTiers}, current_tier : MCTiers,
            size_bytes : MCSizes] : Accepted(i)}

-----------------------------------------------------------------------------
(***************************************************************************)
(* Properties                                                              *)
(***************************************************************************)
\* Every event other than ALLOCATED is about a block that is live when run()
\* reaches it, so that no event is dropped in silence and no block made up.  The
\* monitor block of the Prometheus adapter is never allocated.
EventsAreAboutLiveBlocks ==
    [][producer # "prometheus" => ~ TakesUnknownBlock]_allProducerVars

\* What is live when a trace has been replayed, producer by producer: completed
\* requests, rejected drafts and finished sequences leave nothing behind, and
\* nothing else has gone.
TraceLeavesWhatIsInUse ==
    /\ Ended =>
          /\ producer = "importer" => OnlyUnfinishedStayLive
          /\ producer = "proxy" => ProxyLeavesNothing
          /\ producer = "prometheus" => MonitorFollowsSamples
          /\ producer = "synthetic" => SyntheticKeepsAll
          /\ producer = "mock" => MockReleasesAll
    /\ producer = "speculative" /\ Quiescent => SimulatorFollowsTable

\* The importer's blocks hold the bytes of their request.
BlocksCoverRequest ==
    producer = "importer" => \A rec \in Range(input) : RequestIsCovered(rec)

\* A decode tail is never aged or prefetched over while its request goes on: in
\* the synthetic workload it stays critical, in the mock engine's table pinned.
TailStaysCritical ==
    [][/\ producer = "synthetic" =>
             \A b \in live_blocks \cap live_blocks' :
                intent[b].priority = "DECODE_CRITICAL" =>
                    intent'[b].priority = "DECODE_CRITICAL"
       /\ producer = "mock" => \A b \in Blocks : ~ Unpins(b)]_allProducerVars

=============================================================================
