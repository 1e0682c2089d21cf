SPECIFICATION Spec
CONSTANTS
    Peers = {1, 2, 3}
    Eligible = {1, 2, 3}
    Ready = {1}
    Lineage <- Recovered
    MaxGeneration = 3
    MaxRound = 1
    MaxCrashes = 0
    MaxTornWrites = 1
    MaxDrops = 2
INVARIANTS
    VotesBindChains
PROPERTIES
    EpochsOnlyExtend
