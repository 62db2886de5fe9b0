SPECIFICATION Spec
CONSTANTS
    Streams <- HeadsAtLimit
    PieceLens = {1, 3}
    ULLONG_MAX = 255
    MaxHeaderSize = 32
    MaxPauses = 1
    MaxPort = 99
    UINT16_MAX = 65535
INVARIANTS
    OverflowMeansTooLong
CHECK_DEADLOCK FALSE
