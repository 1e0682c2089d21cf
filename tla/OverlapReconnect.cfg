SPECIFICATION Spec
CONSTANTS
    Peers = {1, 2, 3}
    Holder = 1
    Successor = 2
    LeaseDuration = 5
    SettleDelay = 2
    PermitTimeout = 1
    StartTimeout = 1
    MaxDelay = 0
    MaxReconnects = 1
INVARIANTS
    OnePermit
