SPECIFICATION Spec
CONSTANTS
    NumSlots = 3
    Generations = 4
    Pids = {2, 3, 4}
    Tids = {0, 2, 3}
    Payloads = {datum}
    SIDs = {sidA}
    NumServers = 1
    NumConnections = 1
    Boots = {{2, 3, 4}}
    Started = {}
    IrqOwner = 0
    SentKinds <- BlockingOrLend
    Program <- TerminateProgram
    HandlerProgram = {}
INVARIANTS
    KernelSound
PROPERTIES
    QueuesFollowServerQueue
CHECK_DEADLOCK FALSE
