SPECIFICATION Spec
CONSTANTS
    InitialRate = 100
    MinRate = 700
    MaxRate = 1000
    Word = 4096
    MaxPackets = 2
INVARIANTS
    TypeOK
    RateWithinBounds
PROPERTIES
    LossNeverRaises
    SettlesAtTheBound
    AudioComesBack
