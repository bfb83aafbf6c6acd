\* an update of a group with an object that is older than the members
SPECIFICATION Spec
CONSTANTS
    daemon = daemon
    tool = tool
    Proc = {daemon, tool}
    NoProc = NoProc
    None = None
    UserName = {"alice"}
    GroupName = {"alice", "video"}
    Secret = {"s"}
    Info = {"i"}
    UserType = {"normal"}
    UidRange <- TwoUids
    GidRange <- TwoGids
    PrimaryGroup = None
    DefUsrGroups <- OneGroup
    DefAdminGroups <- NoGroups
    InitialGroups <- VideoInstalled
    HasGshadow = TRUE
    Faults = {}
    Calls <- GroupUpdates
    RemHome = {TRUE}
PROPERTIES
    UpdateKeepsMembers
