\* two processes with objects of users that come, go and come again; the primary group is made by the first user and edited by both
SPECIFICATION Spec
CONSTANTS
    daemon = daemon
    tool = tool
    Proc = {daemon, tool}
    NoProc = NoProc
    None = None
    UserName = {"alice", "bob"}
    GroupName = {"alice", "bob", "users"}
    Secret = {}
    Info = {"i"}
    UserType = {"normal"}
    UidRange <- TwoUids
    GidRange <- TwoGids
    PrimaryGroup = "users"
    DefUsrGroups <- NoGroups
    DefAdminGroups <- NoGroups
    InitialGroups <- NothingInstalled
    HasGshadow = TRUE
    Faults = {}
    Calls <- UsersAndMembers
    RemHome = {FALSE}
INVARIANTS
    PrimaryGroupExists
    NoDanglingMember
PROPERTIES
    ObjectKeepsItsUser
