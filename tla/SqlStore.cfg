\* Three pools in succession, two overlapping calls of Stop.
CONSTANTS
    Stops = {p1, p2}
    MaxOpens = 3
SPECIFICATION SqlSpec
INVARIANTS OnePoolTracked CloseErrorKept
