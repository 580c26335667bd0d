SPECIFICATION ServerSpec
CONSTANTS
    MaxClients = 1
    QueueBudget = 1
    WriteBudget = 1
    HeaderLimit = 0
    RecvSize = 1
    ReadTries = 1
    AcceptTries = 1
    MaxEvents = 1
    RequestTimeout = 0
    WriteTimeout = 0
    FrameSizes <- OneByteFrames
    ResponseSizes = {1}
    MaxGen = 2
    MaxConnections = 1
    Interval = 1
    MaxTime = 1
INVARIANT
    OnlyPublishedIsSent
PROPERTIES
    ReactorSpec
    PublishedIsBroadcast
    ShutdownCompletes
CHECK_DEADLOCK FALSE
