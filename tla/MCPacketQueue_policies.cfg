SPECIFICATION Spec
CONSTANTS
    v = v
    a = a
    Capacity = 2
    Producers <- Threads
    Setups <- AllSetups
    MaxPackets = 4
    SinkMayFail = TRUE
    JoinBeforeEos = FALSE
INVARIANTS
    TypeOK
    RingHoldsNewest
    NothingLost
    AwaitOkMeansDrained
    NoLostWakeup
PROPERTIES
    QueueIsFifo
    PipelineTerminates
