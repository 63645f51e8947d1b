\* Two connections and two slots, two calls of Stop, one fault of each kind.
CONSTANTS
    Conns = {c1, c2}
    Stops = {p1, p2}
    Max = 2
    NoConn = NoConn
    None = None
    MaxFaults = 1
    MaxCleanupFaults = 1

SPECIFICATION FairSpec

INVARIANTS StoppedIsClean FailureIsGenuine
PROPERTIES ImplementsService StopReturns

\* A stopped gateway with its connections closed stays as it is.
CHECK_DEADLOCK FALSE
