\* Two gateways one after the other, crashes, and a stranger's replacement.
CONSTANTS
    Procs = {g1, g2}
    Stranger = Stranger
    MaxSockets = 3
    Inodes = {i1, i2, i3}
    NoInode = NoInode
    PrivateUmask = FALSE
    Overlap = FALSE
    MaxMoves = 1

SYMMETRY Symmetry

SPECIFICATION Spec

INVARIANTS ActiveNotDisplaced LeftoversAreKnown LeftoverIsRemovable
PROPERTIES StrangersKept

\* All sockets may have been used up.
CHECK_DEADLOCK FALSE
