\* Two servers and three generations: a frame can be missed, repeated after a
\* reconnect, and come from a server that was left and joined again.
SPECIFICATION MCSpec
CONSTANTS
    Replies <- MCReplies
    RequestSize = 2
    InputLimit = 4
    ProbeTimeout = 1
    ProbePause = 1
    MaxProbes = 3
    Instances = {s1, s2}
    None = None
    HistorySize = 2
    FilterSize = 2
    StaleAfter = 1
    MaxSequence = 3
    MaxFrames = 3
    MaxScroll = 2
SYMMETRY Symmetry
INVARIANTS
    GapsExact
    HistoryOfOneInstance
    OncePrintsOne
    ProbeValueIsLastReply
PROPERTIES
    LiveMeansNewest
CHECK_DEADLOCK FALSE
