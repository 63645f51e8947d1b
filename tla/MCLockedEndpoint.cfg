\* Two processes that take the lock, serve, stop and crash in any order, with
\* two failing system calls of the lock; what keeps them apart is the lock
\* alone (Overlap).
CONSTANTS
    Procs = {o1, o2}
    Nobody = Nobody
    Stranger = Stranger
    NoInode = NoInode
    MaxFaults = 2
    MaxSockets = 2
    Inodes = {i1, i2}
    PrivateUmask = FALSE
    Overlap = TRUE
    MaxMoves = 0

SYMMETRY Symmetry

SPECIFICATION LockedSpec

INVARIANTS NeverContended LockIsExact
PROPERTIES ServesExclusively

\* A process whose release failed twice keeps the lock.
CHECK_DEADLOCK FALSE
