CONSTANTS
    RAISE_STEP_FRAMES = 1
    HOLD_CONFIRM = 1
    HOLD_RELEASE = 1
    DRAIN_CONFIRM = 1
    CEILING_MARGIN_FRAMES = 1
    CEILING_STEP_FRAMES = 1
    MAX_CEILING_FRAMES = 3
    DEFAULT_HEADROOM_FRAMES = 1
    MAX_TUNING_FRAMES = 1
    DEFAULT_FRAMES = 1
    Sizes = {1}
    Tunings = {1}
    Occupancies = {0}
    SLICES_PER_FRAME = 1
    JITTER_CAP = 3
    RESYNC_GAP = 1
    MAX_REQUESTS = 1
    MAX_TICK = 3
    PUSH_BOUND = 5
SPECIFICATION FairEngine
PROPERTIES StopJoins PlaysOut
