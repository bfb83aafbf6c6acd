\* The daemon on the message bus with two clients and one reload.
SPECIFICATION FairSpec
CONSTANTS
    Uid = {1}
    Name = {alice}
    Object = {o1, o2}
    None = None
    Failures = FALSE
    Peer = {p1, p2}
    Adapter = {a1, a2}
    DaemonTimeout = TRUE
    UserTimeout = FALSE
    MaxReloads = 1
CHECK_DEADLOCK FALSE
INVARIANTS
    TypeOK
PROPERTIES
    PeersAreForgotten
    IdleDaemonExits
