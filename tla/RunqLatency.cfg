\* Two CPUs and three thread ids over a map of two entries: a thread can be
\* woken, replaced and evicted while another CPU switches.
SPECIFICATION Spec
CONSTANTS
    Cpus = {c1, c2}
    Tids = {t1, t2, t3}
    Idle = Idle
    Capacity = 2
INVARIANTS
    SampleWithinWait
CHECK_DEADLOCK FALSE
