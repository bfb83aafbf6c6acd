\* users come and go while another process manages groups
SPECIFICATION Spec
CONSTANTS
    daemon = daemon
    tool = tool
    Proc = {daemon, tool}
    NoProc = NoProc
    None = None
    UserName = {"alice"}
    GroupName = {"alice", "video"}
    Secret = {"s"}
    Info = {"i"}
    UserType = {"normal"}
    UidRange <- TwoUids
    GidRange <- TwoGids
    PrimaryGroup = None
    DefUsrGroups <- OneGroup
    DefAdminGroups <- NoGroups
    InitialGroups <- VideoInstalled
    HasGshadow = TRUE
    Faults = {}
    Calls <- UsersAndGroups
    RemHome = {TRUE}
INVARIANTS
    PrimaryGroupExists
    FilesAgree
    TrueMeansDone
