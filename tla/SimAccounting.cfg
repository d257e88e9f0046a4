\* Statistics of the deadline policy over traces of at most MaxEvents events.
SPECIFICATION AccountingSpec
CONSTANTS
    Blocks = {b1, b2, b3}
    Intents <- MCIntents
    HbmCapacity = 2
    DramCapacity = 2
    Policy = "KVDeadline"
    Realloc = FALSE
    NoIntent = NoIntent
    base_step_latency_us = 1
    miss_penalty_us = 1000
    spill_latency_us = 100
    prefetch_latency_us = 10
    MaxEvents = 5
SYMMETRY BlockSymmetry
CHECK_DEADLOCK FALSE
INVARIANTS
    LatencyExplained
    OverCapacityIsReported
