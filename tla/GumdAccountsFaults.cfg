\* one process whose database updates and home directories fail and that dies anywhere
SPECIFICATION Spec
CONSTANTS
    daemon = daemon
    tool = tool
    Proc = {daemon}
    NoProc = NoProc
    None = None
    UserName = {"alice", "bob"}
    GroupName = {"alice", "bob", "video"}
    Secret = {}
    Info = {"i"}
    UserType = {"normal"}
    UidRange <- TwoUids
    GidRange <- TwoGids
    PrimaryGroup = None
    DefUsrGroups <- NoGroups
    DefAdminGroups <- NoGroups
    InitialGroups <- VideoInstalled
    HasGshadow = TRUE
    Faults = {"io", "home", "crash"}
    Calls <- UserOperations
    RemHome = {TRUE}
INVARIANTS
    TypeOK
    NamesAndIdsUnique
    UserinfoHasUser
    TrueMeansDone
PROPERTIES
    AccountsSpec
