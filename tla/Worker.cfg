CONSTANTS
    RESEND_CACHE_SIZE = 2
    WARM_UP = 1
    CHANNEL = 2
    POLLS = 2
    LOWEST = 1
    HIGHEST = 2
    RawConfigs = {0, 1, 2}
    MaxChunk = 2
    MaxTick = 3
    MaxChanges = 2
SPECIFICATION FairSpec
INVARIANTS TypeOK CacheIsRecent CacheIsCurrent RetransmitsExactly SettingsOnTheirWay
PROPERTIES ReplaysLog LeavingEnds
CHECK_DEADLOCK FALSE
