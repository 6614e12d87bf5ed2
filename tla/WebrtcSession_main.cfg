SPECIFICATION Spec
CONSTANTS
    MaxConnects = 2
INVARIANTS
    TypeOK
    SignalIsOwn
    WorkerIsJoined
    LastSessionIsLetGo
    GateNeedsSession
    StreamingIsReported
PROPERTIES
    CallsReturn
