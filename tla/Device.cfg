SPECIFICATION SuiteSpec
CONSTANTS
    MemberCounts = {1, 2}
    MaxEpoch = 3
    MaxSnapshot = 3
    MaxLaunches = 2
    MaxStops = 1
    MaxErrors = 1
    None = None
    MaxPlayed = 2
    MaxAsked = 3
    Guarded = TRUE
INVARIANTS
    SuiteTypeOK
    OneRuntime
    
PROPERTIES
    WorldContinues
    OrphanStops
    SessionsSettle
CHECK_DEADLOCK FALSE
