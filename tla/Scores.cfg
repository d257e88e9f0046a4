\* The shrinker's score, in an int that no score leaves within these times, and
\* the policies' scores from the least urgent block to the most urgent one.
SPECIFICATION ScoresSpec
CONSTANTS
    IntMax = 8191
    Deadlines = {0, 11, 15000}
    Times = {0, 9, 18, 5011, 10015}
    MaxIntents = 2
    None = None
    BlockDeadlines = {500, 5000, 12000}
    Slacks <- MCSlacks
    Targets = {12}
    RequestPriorities = {0, 80}
    ReuseWindows = {8, 1000}
    RecomputeCosts = {8000}
    Recencies = {0, 100}
    AccessSteps = {0, 10}
    current_step = 10
    Absent = Absent
INVARIANT
    CriticalScoresLast
PROPERTIES
    
    ColdIsWorthFiveMilliseconds
    UrgencyProtects
CHECK_DEADLOCK FALSE
