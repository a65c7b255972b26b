SPECIFICATION Spec
CONSTANTS
    NumSlots = 2
    Generations = 3
    Pids = {2, 3}
    Tids = {0, 2, 3}
    Payloads = {datum}
    SIDs = {sidA}
    NumServers = 1
    NumConnections = 1
    Boots = {{2, 3}}
    Started = {2, 3}
    IrqOwner = 0
    SentKinds <- BlockingOnly
    Program <- DeadClientProgram
    HandlerProgram = {}
INVARIANTS
    NoPanic
CHECK_DEADLOCK FALSE
