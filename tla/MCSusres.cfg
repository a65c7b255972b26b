SPECIFICATION Spec
CONSTANTS
    early = early
    last = last
    Subscribers = {early, last}
    Stage <- MCStage
    LastStage = 3
    r1 = r1
    r2 = r2
    Requesters = {r1, r2}
    MaxEvents = 1
    MaxTimers = 1
    MaxPosted = 1
    Programs <- MCPrograms
    NONE = NONE
INVARIANTS
    SusresTypeOK
    OneSuspendAtATime
    HeldStageByStage
PROPERTIES
    CallersReturn
