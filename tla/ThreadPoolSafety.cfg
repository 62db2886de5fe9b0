SPECIFICATION Spec
CONSTANTS
    Tasks = {t1, t2, t3}
    NoTask = NoTask
    Producers = {p1, p2}
    MinNum = 1
    MaxNum = 2
    Capacity = 2
    NUMBER = 2
SYMMETRY Symmetry
INVARIANTS
    TypeOK
    RingIsQueue
    BlockedAddHasHope
    LiveNumInBounds
    CountersCountThreads
PROPERTIES
    ImplementsTaskPool
CHECK_DEADLOCK FALSE
