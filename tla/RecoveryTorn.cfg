SPECIFICATION Spec
CONSTANTS
    Peers = {1, 2, 3}
    Eligible = {1, 2, 3}
    Ready = {2, 3}
    Lineage <- Founded
    MaxGeneration = 2
    MaxRound = 2
    MaxCrashes = 1
    MaxTornWrites = 1
    MaxDrops = 0
INVARIANTS
    Agreement
    PermitUnique
    PermitBacked
    CertificateBeforeEpoch
PROPERTIES
    ImplementsLog
