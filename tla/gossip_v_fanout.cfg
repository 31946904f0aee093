SPECIFICATION RotationSpec
CONSTANTS
    Members = {"a", "b", "c"}
    Offset <- NoOffset
    OldPeers = {}
    EnvelopeMaxAge = 1
    ClockSkew = 1
    NonceCacheMax = 2
    MaxSecond = 2
    MaxPushes = 2
    MaxInstalls = 2
    MaxFaults = 1
    FanOut = 1
    MaxGeneration = 4
INVARIANTS ReachedInTime
CHECK_DEADLOCK FALSE
