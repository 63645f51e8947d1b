\* One slot, contended by three acceptors and three connections.
CONSTANTS
    Acceptors = {a1, a2, a3}
    Conns = {c1, c2, c3}
    Closers = {k1, k2}
    Max = 1
    NoConn = NoConn
    MaxFaults = 1

SPECIFICATION FairSpec

INVARIANTS SlotsConserved NoLostWakeup
PROPERTIES NothingAdmittedAfterClose QueueIsServed CloseEndsAccept
