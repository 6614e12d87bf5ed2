SPECIFICATION Spec
CONSTANTS
    Requests <- AllRequests
    MaxFrames = 4
    SinkMayFail = TRUE
    InputSlots = 2
    OutputSlots = 2
INVARIANTS
    TypeOK
    EncodingNeedsCodec
    FFmpegFlushDrains
    NeverWedged
PROPERTIES
    EncoderKeepsContract
    CallsReturn
