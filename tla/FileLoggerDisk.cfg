SPECIFICATION FairSpec
CONSTANTS
    CacheSize = 4
    Sizes = {1, 3}
    MaxRecords = 4
    MaxFiles = 3
    MaxInits = 3
INVARIANTS
    TypeOK
    CacheNotOverrun
    LogInOrder
    OneLogFile
    OpenLoggerHasTimer
PROPERTIES
    NothingLostElsewhere
    RecordReachesDisk
