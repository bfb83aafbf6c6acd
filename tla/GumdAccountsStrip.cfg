\* deleting a user when the group file cannot be written
SPECIFICATION Spec
CONSTANTS
    daemon = daemon
    tool = tool
    Proc = {daemon}
    NoProc = NoProc
    None = None
    UserName = {"alice", "bob"}
    GroupName = {"alice", "bob", "video"}
    Secret = {}
    Info = {"i"}
    UserType = {"normal"}
    UidRange <- TwoUids
    GidRange <- TwoGids
    PrimaryGroup = None
    DefUsrGroups <- OneGroup
    DefAdminGroups <- NoGroups
    InitialGroups <- VideoInstalled
    HasGshadow = TRUE
    Faults = {"io"}
    Calls <- UserOperations
    RemHome = {TRUE}
INVARIANTS
    DeletedIsNoMember
