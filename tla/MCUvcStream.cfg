SPECIFICATION FairSpec
CONSTANTS
    Sources = {src1}
    MaxPayloads = 2
    QueueLen = 2
    MaxLeft = 2
INVARIANTS
    ChunkUnderWay
    DiscardsOnlyStale
    CleanStreams
PROPERTIES
    EveryLendIsAnswered
