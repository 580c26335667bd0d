SPECIFICATION FairSpec
CONSTANTS
    MaxClients = 1
    QueueBudget = 3
    WriteBudget = 1
    HeaderLimit = 1
    RecvSize = 1
    ReadTries = 2
    AcceptTries = 2
    MaxEvents = 2
    RequestTimeout = 0
    WriteTimeout = 0
    FrameSizes <- TwoByteFrames
    ResponseSizes = {1}
    MaxGen = 2
    MaxConnections = 1
PROPERTIES
    RequestsEnd
    StalledClientsGo
    ListenersResume
CHECK_DEADLOCK FALSE
