CONSTANTS
    Addrs = {wifi, tether}
    NoAddr = NoAddr
    AUDIO_STALE = 2
    CONFIG_RETRIES = 3
    SOCKET_TIMEOUT = 3
    HEARTBEAT = 2
    OtherPhones = FALSE
    SERVER_TIMEOUT = 6
    MaxPeriods = 2
    MaxStarts = 1
    RECOVERY = 1
SPECIFICATION Spec
INVARIANTS OfferedSessionPlays
CHECK_DEADLOCK FALSE
