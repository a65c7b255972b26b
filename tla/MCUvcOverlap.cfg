SPECIFICATION Spec
CONSTANTS
    Sources = {src1}
    MaxPayloads = 2
    QueueLen = 1
    MaxLeft = 1
INVARIANTS
    StagingIsLeftAlone
