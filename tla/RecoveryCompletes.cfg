SPECIFICATION FairSpec
CONSTANTS
    Peers = {1, 2, 3}
    Eligible = {1, 2, 3}
    Ready = {1, 2}
    Lineage <- Founded
    MaxGeneration = 2
    MaxRound = 1
    MaxCrashes = 1
    MaxTornWrites = 0
    MaxDrops = 0
PROPERTIES
    RecoveryCompletes
    
