SPECIFICATION FairSpec
CONSTANTS
    Streams <- MCStreams
    PieceLens = {1, 3}
    ULLONG_MAX = 255
    MaxHeaderSize = 32
    MaxPauses = 1
    MaxPort = 99
    UINT16_MAX = 65535
INVARIANTS
    TypeOK
    DeliversInOrder
    HandedOverInOrder
    EndsAsSent
    CallbackOrder
    MarksFollowState
    AssertionsHold
    UrlFieldsAsComposed
    UrlPartsInOrder
PROPERTIES
    HeadWithinLimit
    CallsProgress
    Finishes
CHECK_DEADLOCK FALSE
