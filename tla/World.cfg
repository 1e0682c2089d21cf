SPECIFICATION SuiteSpec
CONSTANTS
    Peers = {Alice, Bob, Charlie, Dana}
    Founders = {Alice, Bob, Charlie}
    Founder = Alice
    Joiners = {}
    Leavers = {Charlie}
    MaxSequence = 3
    MaxEpoch = 2
    MaxStops = 1
    Hosts = {Alice, Bob, Charlie}
    Source = Alice
    MaxGeneration = 3
    MaxSessions = 2
    NoRecord = NoRecord
    None = None
    Roots <- MCRoots
    Offers <- MCOffers
    RecordOrder <- MCRecords
    MaxWorlds = 2
    Null = Null
    Listing <- MCListing
    Fitting = {"a2", "a1", "b1", "r1"}
    Graphs <- MCGraphs
    Root = "R"
    MaxChanges = 2
    Unset = Unset
    Catalog <- MCCatalog
    Relations <- MCRelations
    RootLists <- MCRootLists
    MaxPackages = 2
    MaxMoves = 2
    Missing = Missing
    Alice = Alice
    Bob = Bob
    Charlie = Charlie
    Dana = Dana
INVARIANTS
    SuiteTypeOK
    ActivatedByBothMajorities
    
    HandoverIsFinal
    HandoversAgree
    GraphConsistent
    
    CreatedIsComplete
CHECK_DEADLOCK FALSE
