SPECIFICATION FairSpec
CONSTANTS
    REAPPLY_MIN_GAP = 2
    MAX_INTERVAL_RETRIES = 2
    Handles <- MCHandles
    MinQuiet = 2
    Kinds <- AllKinds
    Incidents = 2
    Threads = 2
INVARIANTS TypeOK OffTargetIsAttended
PROPERTIES EventuallyPinned
