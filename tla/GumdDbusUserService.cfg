\* Two clients and the user service, the group service, or the peer-to-peer server: every request, timeout and failure.
SPECIFICATION MCSpec
SYMMETRY Symmetry
CONSTANTS
    Uid = {1, 2}
    Name = {alice, bob}
    Object = {o1, o2}
    None = None
    Failures = TRUE
    Peer = {p1, p2}
    Adapter = {a1, a2, a3}
    DaemonTimeout = TRUE
    UserTimeout = TRUE
CHECK_DEADLOCK FALSE
INVARIANTS
    ServiceTypeOK
    KeptWhileUsed
    TimersAreRight
    ReferencesExact
    CacheIsLive
    AdaptersAreListed
