\* Batches of three events: a timer or notification that closes a session, a
\* listener that opens one, and an event of the closed session.
SPECIFICATION Spec
CONSTANTS
    MaxClients = 2
    QueueBudget = 2
    WriteBudget = 1
    HeaderLimit = 0
    RecvSize = 1
    ReadTries = 1
    AcceptTries = 2
    MaxEvents = 3
    RequestTimeout = 0
    WriteTimeout = 0
    FrameSizes <- GrowingFrames
    ResponseSizes = {1}
    MaxGen = 1
    MaxConnections = 2
PROPERTIES
    StaleEventsAreInert
CHECK_DEADLOCK FALSE
