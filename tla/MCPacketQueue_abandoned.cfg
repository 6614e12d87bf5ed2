SPECIFICATION Spec
CONSTANTS
    v = v
    a = a
    Capacity = 2
    Producers <- Threads
    Setups <- BlockingSetup
    MaxPackets = 4
    SinkMayFail = TRUE
    JoinBeforeEos = FALSE
PROPERTIES
    EosReleasesBlockedPush
