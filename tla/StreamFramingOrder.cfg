SPECIFICATION FairSpec
CONSTANTS
    Base = 3
    HeaderLen = 2
    NetSize = 3
    MaxMessages = 3
INVARIANTS
    TypeOK
    DeliveredInOrder
    InStep
PROPERTIES
    ImplementsChannel
    SentIsReceived
CHECK_DEADLOCK FALSE
