SPECIFICATION Spec
CONSTANTS
    NumSlots = 2
    Generations = 3
    Pids = {2, 3, 4, 5, 6}
    Tids = {0, 2, 3}
    Payloads = {datum}
    SIDs = {sidA, sidB}
    NumServers = 2
    NumConnections = 1
    Boots <- LifeBoots
    Started = {2, 3, 4, 5, 6}
    IrqOwner = 0
    SentKinds <- LifeKinds
    Program <- LifeProgram
    HandlerProgram = {}
INVARIANTS
    KernelSound
    NoDanglingConnection
CHECK_DEADLOCK FALSE
