\* A connection, two jobs, and a shutdown at any time.
CONSTANTS
    Conns = {c1}
    MaxJobs = 2

SPECIFICATION FairSpec

INVARIANTS StopIsHonest StopOutlivesJobs
PROPERTIES ShutdownCompletes CancelTakesEffect

\* The program ends.
CHECK_DEADLOCK FALSE
