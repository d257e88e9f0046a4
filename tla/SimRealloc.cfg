\* The intent-aware policy on traces that allocate a live block again and that
\* may raise, after which run() is over.
SPECIFICATION FairSpec
CONSTANTS
    Blocks = {b1, b2}
    Intents <- MCAllIntents
    HbmCapacity = 1
    DramCapacity = 1
    Policy = "IntentAware"
    Realloc = TRUE
    NoIntent = NoIntent
CHECK_DEADLOCK FALSE
INVARIANTS
    NoDeadResident
PROPERTIES
    EventsFinish
