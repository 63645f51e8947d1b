\* Two calls of Put that copy a source of two chunks while it is edited.
CONSTANTS
    Puts = {p1, p2}
    Chunks = {a, b}
    Length = 2
    Irregular = Irregular
    NoFile = NoFile
    MaxMeddling = 2

SPECIFICATION FairSpec

INVARIANTS OnePublisher
PROPERTIES SuccessMeansStored PutReturns

\* Every Put may have returned.
CHECK_DEADLOCK FALSE
