\* Events whose blocks may live in HBM only.
SPECIFICATION Spec
CONSTANTS
    Blocks = {b1, b2}
    Intents <- MCHbmOnlyIntents
    HbmCapacity = 1
    DramCapacity = 1
    Policy = "KVDeadline"
    Realloc = FALSE
    NoIntent = NoIntent
CHECK_DEADLOCK FALSE
INVARIANTS
    TierAllowed
