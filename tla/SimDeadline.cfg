\* The deadline policy, no block allocated twice.
SPECIFICATION Spec
CONSTANTS
    Blocks = {b1, b2, b3}
    Intents <- MCIntents
    HbmCapacity = 2
    DramCapacity = 2
    Policy = "KVDeadline"
    Realloc = FALSE
    NoIntent = NoIntent
SYMMETRY BlockSymmetry
INVARIANTS
    TypeOK
    OneTierPerBlock
    NeverRaises
PROPERTIES
    DecodeCriticalStaysResident
    LoopEndsWithCause
