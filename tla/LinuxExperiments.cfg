\* Each of the four programs: four blocks and seven decode steps with copies that
\* may fail, two iterations with workers that may die, and four read steps over
\* rings whose counters wrap at 8.
SPECIFICATION Spec
CONSTANTS
    NUM_BLOCKS = 4
    DECODE_STEPS = 7
    None = None
    iterations = 2
    mode = "separated"
    critical_size = 5
    background_size = 5
    block_size = 2
    write_size = 2
    READ_STEPS = 4
    BLOCKS_PER_STEP = 3
    TOTAL_BLOCKS = 5
    sq_entries = 4
    cq_entries = 4
    CounterSpan = 8
    Unwritten = Unwritten
INVARIANTS
    HandlerCopiesForSleeper
    PrefetchFaultsCounted
    MigrationIsComplete
PROPERTIES
    ExperimentEnds
    ResultsAreWhole
    StepReapsItsReads
CHECK_DEADLOCK FALSE
