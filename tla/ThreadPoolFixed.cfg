SPECIFICATION FairSpec
CONSTANTS
    Tasks = {t1, t2}
    NoTask = NoTask
    Producers = {p1}
    MinNum = 2
    MaxNum = 2
    Capacity = 1
    NUMBER = 1
INVARIANTS
    TaskHasAwakeWorker
PROPERTIES
    WaitingTaskIsTaken
    AddReturns
    DestroyReturns
CHECK_DEADLOCK FALSE
