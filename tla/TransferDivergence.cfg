SPECIFICATION TransferSpec
CONSTANTS
    Hosts = {Alice, Bob, Charlie}
    Source = Alice
    MaxGeneration = 3
    MaxSessions = 2
    NoRecord = NoRecord
INVARIANT NoDivergence
CHECK_DEADLOCK FALSE
