\* The instances are used up at last.
CONSTANTS
    MaxInstances = 3
SPECIFICATION FairSpec
INVARIANTS NoSocketLeaks
PROPERTIES ListensAgain ReceiverEnds
CHECK_DEADLOCK FALSE
