CONSTANTS
    QUEUE = 2
    MaxPosted = 1
SPECIFICATION FairSpec
INVARIANTS TogglesCount SwitchIsOnItsWay NoSessionNoClient ClosedWindowIsLeftAlone
PROPERTIES WindowFollows
CHECK_DEADLOCK FALSE
