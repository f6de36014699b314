CONSTANTS
    Addrs = {wifi, tether}
    NoAddr = NoAddr
    AUDIO_STALE = 2
    CONFIG_RETRIES = 3
    SOCKET_TIMEOUT = 3
    HEARTBEAT = 2
    OtherPhones = FALSE
    SERVER_TIMEOUT = 6
    MaxPeriods = 1
    MaxStarts = 1
    RECOVERY = 15
SPECIFICATION Spec
INVARIANTS ReFound
CHECK_DEADLOCK FALSE
