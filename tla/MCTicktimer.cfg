SPECIFICATION Spec
CONSTANTS
    Threads = {t1, t2, t3}
    NONE = NONE
    t1 = t1
    t2 = t2
    t3 = t3
    Condvars = {cond}
    Mutexes = {mutex}
    NumSlots = 4
    SleepTimes = {2}
    WaitTimes = {1}
    MaxPosted = 1
    Programs <- AllPrograms
INVARIANTS
    AssertionsHold
    AlarmIsSet
    NobodyForgotten
    MutualExclusion
PROPERTIES
    WokenForAReason
    SleepersReturn
    LockersGetIn
CHECK_DEADLOCK FALSE
