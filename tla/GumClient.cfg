CONSTANTS
    UserObject = {u1}
    GroupObject = {g1}
    u1 = u1
    g1 = g1
    Call = {1, 2}
    ServiceCall = {11, 12}
    MaxCalls = 2
    Mixed = FALSE
    MaxMade = 1
    MaxInbox = 1
    MaxSources = 1
    None = None

SPECIFICATION FairSpec

CHECK_DEADLOCK FALSE

INVARIANTS
    ClientTypeOK
    SourcesAreKnown
    AddedIsKnown
    ServiceIsReferredTo

PROPERTIES
    CallsAreTold
    CallsAreAnswered
