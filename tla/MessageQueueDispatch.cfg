SPECIFICATION FairSpec
CONSTANTS
    Collectors = {c1, c2}
    Savers = {s1, s2}
    NoCallback = NoCallback
    MaxRounds = 2
INVARIANTS
    TypeOK
    OneCollectorNeverThrows
    GotInOrder
PROPERTIES
    DispatchReachesAll
    RegisteredHears
