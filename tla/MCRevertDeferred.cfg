SPECIFICATION FairSpec
CONSTANTS
    REAPPLY_MIN_GAP = 2
    MAX_INTERVAL_RETRIES = 2
    Handles <- MCHandles
    MinQuiet = 0
    Kinds <- RevertsOnly
    Incidents = 2
    Threads = 2
PROPERTIES EveryRevertCorrected
