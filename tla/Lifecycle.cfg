CONSTANTS
    Restarters = {r1, r2, r3}
    Service = Service
    Nobody = Nobody
SPECIFICATION FairSpec
INVARIANTS EngineWhole NoCallAfterDestroy
PROPERTIES EngineComesBack DestroyReturns
CHECK_DEADLOCK FALSE
