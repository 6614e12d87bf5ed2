SPECIFICATION Spec
CONSTANTS
    Sinks <- AllSinks
    Capacity = 2
    MaxFrames <- Frames
    ByteSinkMayFail = TRUE
INVARIANTS
    TypeOK
    FileIsWhole
    WriterReadsLiveBuffers
PROPERTIES
    ProgramEnds
    RingsAreFifo
