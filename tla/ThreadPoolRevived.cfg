SPECIFICATION FairSpec
CONSTANTS
    Tasks = {t1, t2}
    NoTask = NoTask
    Producers = {p1}
    MinNum = 0
    MaxNum = 1
    Capacity = 1
    NUMBER = 1
PROPERTIES
    WaitingTaskIsTaken
CHECK_DEADLOCK FALSE
