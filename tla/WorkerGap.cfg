\* What the documentation says of a gap, against the worker.
SPECIFICATION Spec
CONSTANTS
    Interval = 2
    MaxGen = 3
    MaxTime = 7
INVARIANTS
    GapsWerePublished
CHECK_DEADLOCK FALSE
