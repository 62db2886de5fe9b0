SPECIFICATION CarefulSpec
CONSTANTS
    CacheSize = 4
    Sizes = {1, 3}
    MaxRecords = 2
    MaxFiles = 1
    MaxInits = 2
INVARIANTS
    NothingLost
