SPECIFICATION Spec
CONSTANTS
    Peers = {1, 2, 3}
    Holder = 1
    Successor = 2
    LeaseDuration = 2
    SettleDelay = 1
    PermitTimeout = 1
    StartTimeout = 1
    MaxDelay = 1
    MaxReconnects = 1
INVARIANTS
    StalePermitBounded
