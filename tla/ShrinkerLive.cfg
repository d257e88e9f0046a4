\* Endless registrations and status reads beside one reclaimer.
CONSTANTS
    Structs = {s1, s2}
    Ids = {i1, i2}
    Priorities = {"COLD"}
    Callers = {c1}
    Readers = {r1, r2}
    Reclaimers = {k1}
    MaxScan = 2
    None = None
SPECIFICATION FairSpec
PROPERTIES
    ScanTerminates
    UnlinkedIsFreed
CHECK_DEADLOCK FALSE
