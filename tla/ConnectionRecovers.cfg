CONSTANTS
    Addrs = {wifi}
    NoAddr = NoAddr
    AUDIO_STALE = 2
    CONFIG_RETRIES = 3
    SOCKET_TIMEOUT = 3
    HEARTBEAT = 2
    OtherPhones = TRUE
    SERVER_TIMEOUT = 6
    MaxPeriods = 2
    MaxStarts = 2
    RECOVERY = 7
SPECIFICATION Spec
INVARIANTS TypeOK Recovers
CHECK_DEADLOCK FALSE
