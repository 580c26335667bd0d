\* An interval of two ticks and a clock of seven: a collection may end before
\* the next point of the grid, on it, and up to three points late.
SPECIFICATION Spec
CONSTANTS
    Interval = 2
    MaxGen = 3
    MaxTime = 7
INVARIANTS
    GridAccounted
    LatestIsNewest
PROPERTIES
    NextPointAhead
    NothingPublishedAfterStop
CHECK_DEADLOCK FALSE
