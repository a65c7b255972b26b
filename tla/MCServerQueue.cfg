SPECIFICATION FairSpec
CONSTANTS
    NumSlots = 3
    Generations = 5
    Pids = {p1}
    Tids = {2}
    Payloads = {datum}
INVARIANTS
    TypeOK
    GenerationsAgree
    SleepersHaveNothingToRead
    NumbersOutlastSlots
PROPERTIES
    TokensStay
    ImplementsFifo
    EveryMessageIsReceived
