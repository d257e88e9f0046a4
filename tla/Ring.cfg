\* Four slots, counters that wrap at 8.
SPECIFICATION RingSpec
CONSTANTS
    Entries = {e1, e2}
    Capacity = 4
    Modulus = 8
INVARIANTS
    WithinCapacity
    NoSlotRace
PROPERTIES
    ImplementsQueue
