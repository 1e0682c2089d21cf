SPECIFICATION SuiteSpec
CONSTANTS
    Nodes = {1, 2}
    MaxConnections = 2
    PerPeer = 2
    Alice = Alice
    Bob = Bob
    Charlie = Charlie
    Dana = Dana
    None = None
    Founders = {Alice, Bob, Charlie}
    Creator = Alice
    Joiners = {}
    Recoverers = {Bob}
    MaxGeneration = 1
    MaxRevision = 1
    MaxRefresh = 1
    MaxCandidates = 2
    Nothing = Nothing
    Members = {Alice, Bob, Charlie}
    Host = Alice
    Eligible = {Bob}
    Watch <- MCWatch
    MaxHead = 2
    Absent = Absent
    SimPeers = {1, 2, 3}
    Quorum = 2
    MaxEpoch = 3
    MaxSnapshot = 2
    Nil = Nil
INVARIANTS
    SuiteTypeOK
    SessionsAgree
    FreshWhenChallenged
    SafeSuccessorCurrent
    OneAuthorityPerGeneration
CHECK_DEADLOCK FALSE
