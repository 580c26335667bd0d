SPECIFICATION Spec
CONSTANTS
    MaxClients = 2
    QueueBudget = 3
    WriteBudget = 2
    HeaderLimit = 0
    RecvSize = 1
    ReadTries = 1
    AcceptTries = 1
    MaxEvents = 2
    RequestTimeout = 0
    WriteTimeout = 0
    FrameSizes <- TwoByteFrames
    ResponseSizes = {1}
    MaxGen = 2
    MaxConnections = 2
INVARIANTS
    QueueAccounting
    BudgetHeld
    InterestMatches
    NoClientLeftBehind
    StreamsIntact
PROPERTIES
    OnlyProgressExtendsDeadline
    SubscribersGetLatest
CHECK_DEADLOCK FALSE
