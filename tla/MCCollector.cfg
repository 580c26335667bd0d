\* Two CPUs and two processes, so that one can fail beside the other, and two
\* lives of each thing: it can be replaced between two samples or within one.
SPECIFICATION MCSpec
CONSTANTS
    Cpus = {c, c0}
    Aggregate = c
    Pids = {p1, p2}
    Interfaces = {e1}
    Disks = {d1}
    Cgroup = g
    MaxLives = 2
INVARIANTS
    RateSpansOneInterval
    RatesOfOneLife
PROPERTIES
    ReadyAgain
CHECK_DEADLOCK FALSE
