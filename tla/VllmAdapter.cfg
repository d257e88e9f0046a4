\* One request of two blocks: every callback at any time, in any order.
SPECIFICATION AdapterSpec
CONSTANTS
    Requests = {r1}
    BlockIds = {0, 1}
    BlockLists <- MCBlockLists
    Sizes = {1, 2}
    DefaultSize = 1
    default_allowed_tiers <- MCTiers
    Blocks <- MCBlocks
    Intents <- MCIntents
    HbmCapacity = 2
    DramCapacity = 2
    Policy = "IntentAware"
    Realloc = TRUE
    NoIntent = NoIntent
INVARIANTS
    IntentsAgree
    PinnedIsResident
    FreedStaysFreed
PROPERTIES
    DramOverflowIsPreemption
