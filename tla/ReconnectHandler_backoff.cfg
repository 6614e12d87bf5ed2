SPECIFICATION Spec
CONSTANTS
    MaxIntervalS = 30
    Bits32 = 16
    Bits64 = 20
    ShiftCap = 18
    MaxAttempts = 15
INVARIANTS
    TypeOK
    RetriesOnSchedule
PROPERTIES
    AlwaysRetriesAgain
