SPECIFICATION Spec
INVARIANTS
    TypeOK
    WorkerHasItsParts
    OneConnectAtATime
    TearDownIsFinal
PROPERTIES
    ArmedIsAttempted
    CallsReturn
