SPECIFICATION DbSpec
CONSTANTS
    Proc = {daemon, tool}
    NoProc = NoProc
    MaxDepth = 2
    Entry = {alice, bob}
    NoFile = NoFile
INVARIANTS
    DbTypeOK
    MutualExclusion
    CounterIsHolder
    HeldWhileNeeded
    LockedIsPrivileged
    SourceIntact
    NoLostUpdate
    BackupIsOlder
PROPERTIES
    NoCopyLeft
    AtomicSpec
