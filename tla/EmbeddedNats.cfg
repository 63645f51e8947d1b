\* Three successive runs, two overlapping calls of Stop, one directory that stays.
CONSTANTS
    Stops = {p1, p2}
    MaxRuns = 3
    MaxFailures = 1

SPECIFICATION NatsFairSpec

INVARIANTS NoServerForgotten StoppedIsCleaned NoFalseAlarm
PROPERTIES UnexpectedEndNoticed

\* Nobody may start another run.
CHECK_DEADLOCK FALSE
