\* Every producer of traces, replayed under a recency policy.  A replay that
\* raises, or that meets the allocation of a live block, is a deadlock.
SPECIFICATION ProducersSpec
CONSTANTS
    Requests <- MCRequests
    Blocks <- MCBlocks
    Intents <- MCIntents
    HbmCapacity = 13
    DramCapacity = 6
    Policy = "LRU"
    Realloc = FALSE
    NoIntent = NoIntent
    MaxBlocks = 4
    Tokens = {0, 1, 3, 7}
    kv_bytes_per_token = 3
    block_size_bytes = 6
    decode_block_tokens = 4
    max_blocks_per_request = 4
    logical_block_tokens = 2
    decode_steps = 4
    PrefetchPeriod = 2
    max_memory_bytes = 3
    Samples = 4
    tree_width = 2
    tree_depth = 3
    Drafts <- MCDrafts
    LowDrafts = {1, 4}
    Root = Root
    BlockIds <- MCBlockIds
    BlockLists = {}
    Sizes <- MCSizes
    DefaultSize = 6
    default_allowed_tiers <- MCTiers
    block_counts <- MCBlockCounts
    mock_decode_steps = 4
    CommitPeriod = 2
    AccessPeriod = 3
INVARIANTS
    CapacityRespected
    TraceLeavesWhatIsInUse
    BlocksCoverRequest
    NoOrphans
    SurvivorsWereVerified
PROPERTIES
    EventsAreAboutLiveBlocks
    TailStaysCritical
