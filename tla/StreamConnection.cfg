\* Frames of a two-byte header and payloads of one or two bytes; lengths 0 and 3
\* are out of range.  A recv can end one frame and hold the whole of the next.
SPECIFICATION Spec
CONSTANTS
    HeaderSize = 2
    MaxPayload = 2
    Lengths = {0, 1, 2, 3}
    RecvSize = 4
    Reads = 2
    ConnectTimeout = 1
    FrameTimeout = 1
    IdleTimeout = 2
    BackoffUnit = 2
    BackoffLimit = 5
    MaxShift = 2
    MaxAttempts = 3
    Addresses = 2
INVARIANTS
    InSync
PROPERTIES
    FrameDeadline
    BackoffHeld
    StalledServerLeft
    KeepsTrying
    QuitHeard
CHECK_DEADLOCK FALSE
