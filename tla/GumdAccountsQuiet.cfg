\* every user operation, with failures outside the four database files
SPECIFICATION FairSpec
CONSTANTS
    daemon = daemon
    tool = tool
    Proc = {daemon}
    NoProc = NoProc
    None = None
    UserName = {"alice", "bob"}
    GroupName = {"alice", "bob", "video"}
    Secret = {"s"}
    Info = {"i", "j"}
    UserType = {"normal"}
    UidRange <- TwoUids
    GidRange <- TwoGids
    PrimaryGroup = None
    DefUsrGroups <- OneGroup
    DefAdminGroups <- NoGroups
    InitialGroups <- VideoInstalled
    HasGshadow = TRUE
    Faults = {"userinfo", "terminate", "encrypt"}
    Calls <- UserOperations
    RemHome = {TRUE}
INVARIANTS
    FilesAgree
PROPERTIES
    FailedDeleteRestores
    OperationsReturn
