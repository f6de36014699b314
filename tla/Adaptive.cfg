\* A cap of 7 frames, so a base can be below, at and above the point where base +
\* headroom meets the cap; a clock unit is 500 ms, so the windows are 1, 6 and 4.
CONSTANTS
    RAISE_STEP_FRAMES = 2
    HOLD_CONFIRM = 1
    HOLD_RELEASE = 6
    DRAIN_CONFIRM = 4
    CEILING_MARGIN_FRAMES = 1
    CEILING_STEP_FRAMES = 1
    MAX_CEILING_FRAMES = 7
    DEFAULT_HEADROOM_FRAMES = 2
    MAX_TUNING_FRAMES = 3
    DEFAULT_FRAMES = 3
    Sizes = {0, 1, 3, 6, 8}
    Tunings = {0, 2, 11}
    Occupancies = {0, 1, 2, 3, 4, 5, 6, 7, 8, 9}
SPECIFICATION FairSpec
INVARIANTS TypeOK WatermarksOrdered SteadyAtBase OnlyUnderrunsRaise
PROPERTIES CeilingSelfLimiting FallsOnlyToBase CleanWindowBeforeNormal Recovery
