CONSTANTS
    Devices = {d1, d2}
    NoDevice = NoDevice
    MICRO = 2
    FRAME = 2
    GATE = 4
    STALL = 9
    FADE = 2
    MAX_POLL = 6
    MAX_LAG = 1
    HORIZON = 20
    MAX_QUEUE = 2
SPECIFICATION FairSpec
INVARIANTS PacedToRealTime NeverLeftMuted
PROPERTIES OldDeviceOnlyDrains FollowsDefault
