\* Two writers, two readers and a reclaimer on three structs.
CONSTANTS
    Structs = {s1, s2, s3}
    Ids = {i1, i2}
    Priorities = {"COLD", "HOT"}
    Callers = {c1, c2}
    Readers = {r1, r2}
    Reclaimers = {k1}
    MaxScan = 2
    None = None
SYMMETRY TaskSymmetry
SPECIFICATION Spec
INVARIANTS
    UniqueIds
    OneOwner
    NoUseAfterFree
    ExitReleasesAll
PROPERTIES
    StatusReportsAll
\* The module may be unloaded, or fail to load, and then nothing happens.
CHECK_DEADLOCK FALSE
