CONSTANTS
    Workflows = {"demo-chat", "demo-summary"}
    SysCodes <- MCSysCodes
    Uuid <- MCUuid
    Pieces <- MCPieces
    None = None
    MaxRequests = 2
    MaxPushes = 1
    Pushed = {"demo-chat"}
    Conversations = {"demo-chat"}
    Asks <- MCAsks
    Deployments <- MCDeployments
SPECIFICATION FairSpec
CHECK_DEADLOCK FALSE
INVARIANTS
    TypeOK
    AllClosed
    CallersFirst
    OwnThread
    RetryKeepsThread
    RunsOnOpenStore
    FreshConfig
    OwnDocument
PROPERTIES
    ShutdownEnds
