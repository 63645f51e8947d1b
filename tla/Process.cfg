\* A child that writes at most two bytes to each stream, in one chunk or two,
\* and a Scrollback that keeps half of them, or nothing.
CONSTANTS
    Streams = {out, errs}
    Main = Main
    Limits = {0, 2}
    MaxWrites = 2

SPECIFICATION FairSpec

INVARIANTS Framed ResultIsHonest
PROPERTIES RunsCommand WaitReturns

\* The child may run for ever or have been collected.
CHECK_DEADLOCK FALSE
