SPECIFICATION Spec
CONSTANTS
    Tasks = {t1}
    NoTask = NoTask
    Producers = {p1}
    MinNum = 1
    MaxNum = 1
    Capacity = 1
    NUMBER = 1
INVARIANTS
    WorkersLeaveBeforeFree
CHECK_DEADLOCK FALSE
