\* No operation fails: the signals alone are at fault.
SPECIFICATION UserServiceSpec
CONSTANTS
    Uid = {1, 2}
    Name = {alice, bob}
    Object = {o1, o2}
    None = None
    Failures = FALSE
    Peer = {p1, p2}
    Adapter = {a1, a2}
    DaemonTimeout = TRUE
    UserTimeout = TRUE
CHECK_DEADLOCK FALSE
INVARIANTS
    SignalsTell
