\* Three generations and frames of up to three bytes: every push can meet an
\* empty queue, an unstarted frame, a started one, and a started one with a
\* frame already parked behind it.
SPECIFICATION Spec
CONSTANTS
    MaxGen = 3
    MaxSize = 3
    MaxPushes = 5
INVARIANT
    NothingLostUncounted
PROPERTY
    AbstractSpec
CHECK_DEADLOCK FALSE
