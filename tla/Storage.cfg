SPECIFICATION SuiteSpec
CONSTANTS
    Blobs = {1, 2}
    Contents = {{1, 2}, {2}}
    Uses = {{"publish"}, {"publish", "retain"}, {"replicate"}}
    Publications = {p1, p2}
    Replicas = {r1}
    MaxNumber = 2
    MaxEpoch = 2
    MaxCrashes = 1
    None = None
    Size <- MCSize
    Pushes = {1, 2}
    MaxLinks = 2
    MaxLosses = 1
    MaxLimits = 1
    MaxStops = 1
    NoTransfer = NoTransfer
    Worlds = {w1, w2}
    Installers = {i1, i2}
    ArtifactOrder <- MCArtifacts
    Pinned = {"java", "bridge"}
    Staged = {"bridge"}
    Launched = {"bridge"}
    MaxInodes = 2
    MaxKills = 1
    Ids = {"lithium", "carpet", "stray"}
    Managed = {"api"}
    Required = {"lithium", "carpet"}
    ByHand = {}
    Provider <- MCProvider
    MaxTools = 3
    NoFile = NoFile
    SaveOrder <- MCSave
    LockFile = "session.lock"
    Parts <- MCParts
    MaxImports = 2
    MaxWrites = 1
SYMMETRY InstallerSymmetry
INVARIANTS
    SuiteTypeOK
    CommittedComplete
    OrphanFailsClosed
    ControlRetained
    CommittedHeld
    
    
    ImportedWhole
PROPERTIES
    HeadExtendsInEpoch
CHECK_DEADLOCK FALSE
