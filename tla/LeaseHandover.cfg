SPECIFICATION Spec
CONSTANTS
    Peers = {1, 2, 3}
    Holder = 1
    Successor = 2
    LeaseDuration = 5
    SettleDelay = 2
    PermitTimeout = 6
    StartTimeout = 15
    MaxDelay = 0
    MaxReconnects = 0
INVARIANTS
    OnePermit
    OneLiveSimulation
