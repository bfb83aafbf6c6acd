\* deleting a user without a secret
SPECIFICATION Spec
CONSTANTS
    daemon = daemon
    tool = tool
    Proc = {daemon}
    NoProc = NoProc
    None = None
    UserName = {"alice", "bob"}
    GroupName = {"alice", "bob", "video"}
    Secret = {}
    Info = {"i"}
    UserType = {"normal"}
    UidRange <- TwoUids
    GidRange <- TwoGids
    PrimaryGroup = None
    DefUsrGroups <- NoGroups
    DefAdminGroups <- NoGroups
    InitialGroups <- VideoInstalled
    HasGshadow = TRUE
    Faults = {}
    Calls <- UserOperations
    RemHome = {TRUE}
INVARIANTS
    LockedWhileDeleted
