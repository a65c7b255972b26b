SPECIFICATION Spec
CONSTANTS
    full = full
    small = small
    raw = raw
    NONE = NONE
    Modes = {full, small, raw}
    HostModes = {full, small}
    Transfers <- RingTransfers
    Depth <- RingDepth
    Like <- CountsAs
    CounterMod = 4
    MaxIrqs = 1
    FirstFrames = 1
    RestartLimit = 1
INVARIANTS
    RingTypeOK
    SlotsApart
    ChannelHoldsTheRest
    LossesAreNoticed
    OneCameraUser
    SessionIsWatched
PROPERTIES
    StaysOnWhileWanted
    ImplementsRing
    StreamGoesOn
    SessionSettles
    CameraGoesOff
