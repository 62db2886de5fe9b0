SPECIFICATION FairSpec
CONSTANTS
    Tasks = {t1, t2}
    NoTask = NoTask
    Producers = {p1}
    MinNum = 1
    MaxNum = 2
    Capacity = 2
    NUMBER = 2
PROPERTIES
    WaitingTaskIsTaken
CHECK_DEADLOCK FALSE
